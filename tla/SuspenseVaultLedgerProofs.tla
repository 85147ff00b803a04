---------------------- MODULE SuspenseVaultLedgerProofs ----------------------
(***************************************************************************)
(* With calls that name no allocation twice, the books of the vault are    *)
(* right: each allocation is paid exactly once, its life goes one way, and *)
(* the vault implements the settlement ledger.                             *)
(*                                                                         *)
(* The induction compares the storage in the middle of a batch with the    *)
(* snapshot taken at its start: the items already decided have changed, as *)
(* the policy says, and nothing else has.                                  *)
(***************************************************************************)
EXTENDS SuspenseVaultProofs

\* One allocation and what was paid for it agree.
BookOK(a, paid) ==
    /\ a.state = "NONE" => a = NoAllocation
    /\ a.state # "NONE" => a.recipient \in Recipients /\ a.amount # 0
    /\ \A r \in Recipients :
          paid[r] = IF a.state \in {"PAID", "RELEASED"} /\ r = a.recipient
                    THEN a.amount ELSE 0

BooksInv ==
    \A id \in Ids :
       /\ BookOK(allocations[id], paidTo[id])
       /\ BookOK(snapshot.allocations[id], snapshot.paidTo[id])
       /\ snapshot.allocations[id].state # "READY"
       /\ pc = "idle" => allocations[id].state # "READY"

\* The checked items were free when the transaction started.
FreshInv ==
    pc # "idle" =>
       \A k \in 1 .. Checked : snapshot.allocations[call.ids[k]].state = "NONE"

Item(k, state) ==
    [recipient |-> call.recipients[k], amount |-> call.amounts[k], state |-> state]
Decision(k) == IF PolicyAllows(call.recipients[k]) THEN "PAID" ELSE "SUSPENDED"
Started == IF pc = "deciding" THEN next ELSE next - 1

\* The second loop has changed the items it has started, and nothing else.
ProgressInv ==
    pc \in {"creating", "deciding"} =>
       /\ \A k \in 1 .. next - 1 : allocations[call.ids[k]] = Item(k, Decision(k))
       /\ pc = "deciding" => allocations[call.ids[next]] = Item(next, "READY")
       /\ \A id \in Ids :
             (\A k \in 1 .. Started : call.ids[k] # id) =>
                /\ allocations[id] = snapshot.allocations[id]
                /\ paidTo[id] = snapshot.paidTo[id]

\* The inductive invariant: at every point of a transaction the books are in
\* order, the checked items were free, and exactly the started ones changed.
LedgerInv == BatchInv /\ BooksInv /\ FreshInv /\ ProgressInv

-----------------------------------------------------------------------------

\* An allocation that was never made, and nothing paid for it, are in order.
LEMMA EmptyBook == BookOK(NoAllocation, NoPayment) /\ NoAllocation.state = "NONE"
  BY DEF BookOK, NoAllocation, NoPayment

LEMMA EmptyWorldBooks ==
    \A id \in Ids : /\ BookOK(EmptyWorld.allocations[id], EmptyWorld.paidTo[id])
                    /\ EmptyWorld.allocations[id].state = "NONE"
  BY EmptyBook DEF EmptyWorld

LEMMA InitLedger == Init => LedgerInv
  <1> SUFFICES ASSUME Init PROVE LedgerInv
    OBVIOUS
  <1>1. BooksInv
    BY EmptyWorldBooks DEF Init, BooksInv
  <1> QED
    BY <1>1, InitBatch DEF Init, LedgerInv, FreshInv, ProgressInv

\* A revert restores books that were in order.
LEMMA RevertLedger ==
    ASSUME BooksInv, NEW reason, Revert(reason)
    PROVE  BooksInv' /\ FreshInv' /\ ProgressInv'
  <1>1. /\ pc' = "idle" /\ snapshot' = EmptyWorld
        /\ allocations' = snapshot.allocations
        /\ paidTo' = snapshot.paidTo
    BY DEF Revert, ClearFrame
  <1>2. BooksInv'
    BY <1>1, EmptyWorldBooks DEF BooksInv
  <1> QED
    BY <1>1, <1>2 DEF FreshInv, ProgressInv

\* A step between transactions that leaves the books alone.
LEMMA IdleLedger ==
    ASSUME LedgerInv, pc = "idle", pc' = "idle", UNCHANGED <<allocations, paidTo, snapshot>>
    PROVE  BooksInv' /\ FreshInv' /\ ProgressInv'
  BY DEF LedgerInv, BooksInv, FreshInv, ProgressInv

LEMMA BeginLedger ==
    ASSUME LedgerInv, NEW caller \in Callers, NEW c \in Calls,
           BeginDistribute(caller, c)
    PROVE  BooksInv' /\ FreshInv' /\ ProgressInv'
  <1>1. /\ pc = "idle" /\ pc' = "checking" /\ next' = 1
        /\ allocations' = allocations /\ paidTo' = paidTo
        /\ snapshot'.allocations = allocations /\ snapshot'.paidTo = paidTo
    BY DEF BeginDistribute, World, world
  <1>2. Checked' = 0
    BY <1>1 DEF Checked
  <1>3. BooksInv'
    BY <1>1 DEF LedgerInv, BooksInv
  <1> QED
    BY <1>1, <1>2, <1>3 DEF FreshInv, ProgressInv

LEMMA CheckItemLedger == LedgerInv /\ CheckItem => BooksInv' /\ FreshInv' /\ ProgressInv'
  <1> SUFFICES ASSUME LedgerInv, CheckItem PROVE BooksInv' /\ FreshInv' /\ ProgressInv'
    OBVIOUS
  <1>1. /\ pc = "checking" /\ pc' = "checking" /\ next' = next + 1 /\ call' = call
        /\ allocations' = allocations /\ paidTo' = paidTo /\ snapshot' = snapshot
    BY DEF CheckItem, world
  <1>2. allocations[call.ids[next]].state = "NONE"
    BY DEF CheckItem, ItemTaken
  <1>3. snapshot.allocations = allocations
    BY <1>1 DEF LedgerInv, BatchInv, CheckingInv, World
  <1>4. next \in Nat /\ Checked = next - 1 /\ Checked' = next
    BY <1>1, Numbers DEF LedgerInv, BatchInv, Checked
  <1>5. FreshInv'
    BY <1>1, <1>2, <1>3, <1>4 DEF LedgerInv, FreshInv
  <1>6. BooksInv' /\ ProgressInv'
    BY <1>1 DEF LedgerInv, BooksInv, ProgressInv
  <1> QED
    BY <1>5, <1>6

LEMMA AcceptBatchLedger == LedgerInv /\ AcceptBatch => BooksInv' /\ FreshInv' /\ ProgressInv'
  <1> SUFFICES ASSUME LedgerInv, AcceptBatch PROVE BooksInv' /\ FreshInv' /\ ProgressInv'
    OBVIOUS
  <1>1. /\ pc = "checking" /\ pc' = "creating" /\ next' = 1 /\ call' = call
        /\ allocations' = allocations /\ paidTo' = paidTo /\ snapshot' = snapshot
        /\ next = Size + 1
    BY DEF AcceptBatch, world, frame
  <1>2. snapshot.allocations = allocations /\ snapshot.paidTo = paidTo
    BY <1>1 DEF LedgerInv, BatchInv, CheckingInv, World
  <1>3. Size \in Nat
    BY <1>1, RunningCall, VaultConstants DEF LedgerInv, BatchInv
  <1>4. Checked = Size /\ Checked' = Size
    BY <1>1, <1>3 DEF Checked, Size
  <1>5. BooksInv' /\ FreshInv'
    BY <1>1, <1>4 DEF LedgerInv, BooksInv, FreshInv
  <1>6. ProgressInv'
    BY <1>1, <1>2 DEF ProgressInv
  <1> QED
    BY <1>5, <1>6

\* The items of a running batch are different allocations.
LEMMA OtherItems ==
    ASSUME DistinctCalls, BatchInv, pc # "idle", NEW k \in 1 .. Size, NEW j \in 1 .. Size,
           k # j
    PROVE  call.ids[k] # call.ids[j]
  BY RunningCall DEF BatchInv, DistinctCalls, Distinct, Size

LEMMA CreateItemLedger ==
    ASSUME DistinctCalls, LedgerInv, CreateItem
    PROVE  BooksInv' /\ FreshInv' /\ ProgressInv'
  <1> DEFINE id == call.ids[next]
  <1>1. /\ pc = "creating" /\ pc' = "deciding" /\ next' = next /\ call' = call
        /\ paidTo' = paidTo /\ snapshot' = snapshot /\ verdict' = verdict
        /\ allocations' = [allocations EXCEPT ![id] = Item(next, "READY")]
    BY DEF CreateItem, frame, Item
  <1>2. /\ next \in 1 .. Size /\ Size \in Nat /\ id \in Ids
        /\ call.recipients[next] \in Recipients /\ call.amounts[next] # 0
    BY <1>1, CurrentItem, VaultConstants
       DEF LedgerInv, BatchInv, LoopInv, CreateItem, Checked
  <1>3. \A k \in 1 .. next - 1 : call.ids[k] # id
    BY <1>1, <1>2, OtherItems DEF LedgerInv
  <1>4. /\ snapshot.allocations[id].state = "NONE"
        /\ allocations[id] = snapshot.allocations[id]
        /\ paidTo[id] = snapshot.paidTo[id]
    BY <1>1, <1>2, <1>3 DEF LedgerInv, FreshInv, ProgressInv, Checked, Started
  <1>5. \A r \in Recipients : paidTo[id][r] = 0
    BY <1>2, <1>4 DEF LedgerInv, BooksInv, BookOK
  <1>6. allocations'[id] = Item(next, "READY") /\ \A o \in Ids \ {id} : allocations'[o] = allocations[o]
    BY <1>1, <1>2 DEF LedgerInv, BatchInv, TypeOK
  <1>7. BookOK(Item(next, "READY"), paidTo[id])
    BY <1>2, <1>5 DEF BookOK, Item
  <1>8. BooksInv'
    BY <1>1, <1>6, <1>7 DEF LedgerInv, BooksInv
  <1>9. FreshInv'
    BY <1>1 DEF LedgerInv, FreshInv, Checked, Size
  <1>10. ProgressInv'
    <2>1. \A k \in 1 .. next - 1 : call.ids[k] \in Ids
      BY <1>1, <1>2, RunningCall DEF LedgerInv, BatchInv
    <2>2. \A k \in 1 .. next - 1 : allocations'[call.ids[k]] = Item(k, Decision(k))
      BY <1>1, <1>3, <1>6, <2>1 DEF LedgerInv, ProgressInv
    <2>3. \A k \in 1 .. next - 1 : Item(k, Decision(k))' = Item(k, Decision(k))
      BY <1>1 DEF Item, Decision, PolicyAllows
    <2>4. allocations'[call'.ids[next']] = Item(next, "READY")'
      BY <1>1, <1>6 DEF Item
    <2>5. Started' = next /\ Started = next - 1
      BY <1>1 DEF Started
    <2>6. ASSUME NEW o \in Ids, \A k \in 1 .. next : call.ids[k] # o
          PROVE  allocations'[o] = snapshot.allocations[o] /\ paidTo[o] = snapshot.paidTo[o]
      BY <1>1, <1>2, <1>6, <2>5, <2>6 DEF LedgerInv, ProgressInv
    <2> QED
      BY <1>1, <2>2, <2>3, <2>4, <2>5, <2>6 DEF ProgressInv
  <1> QED
    BY <1>8, <1>9, <1>10

\* Deciding an item: what SuspendItem and PayItem have in common.
LEMMA DecideItem ==
    ASSUME DistinctCalls, LedgerInv, pc = "deciding", pc' = "creating",
           next' = next + 1, call' = call, snapshot' = snapshot, verdict' = verdict,
           allocations' = [allocations EXCEPT ![call.ids[next]].state = Decision(next)],
           \A o \in Ids \ {call.ids[next]} : paidTo'[o] = paidTo[o],
           BookOK(Item(next, Decision(next)), paidTo'[call.ids[next]])
    PROVE  BooksInv' /\ FreshInv' /\ ProgressInv'
  <1> DEFINE id == call.ids[next]
  <1>1. next \in 1 .. Size /\ Size \in Nat /\ id \in Ids
    BY CurrentItem, VaultConstants DEF LedgerInv, BatchInv, LoopInv
  <1>2. allocations[id] = Item(next, "READY")
    BY DEF LedgerInv, ProgressInv
  <1>3. /\ allocations'[id] = Item(next, Decision(next))
        /\ \A o \in Ids \ {id} : allocations'[o] = allocations[o]
    BY <1>1, <1>2 DEF LedgerInv, BatchInv, TypeOK, Item
  <1>4. BooksInv'
    BY <1>1, <1>3 DEF LedgerInv, BooksInv
  <1>5. FreshInv'
    BY DEF LedgerInv, FreshInv, Checked, Size
  <1>6. ProgressInv'
    <2>1. \A k \in 1 .. next - 1 : call.ids[k] \in Ids /\ call.ids[k] # id
      BY <1>1, RunningCall, OtherItems DEF LedgerInv, BatchInv
    <2>2. \A k \in 1 .. next : allocations'[call.ids[k]] = Item(k, Decision(k))
      BY <1>1, <1>3, <2>1 DEF LedgerInv, ProgressInv
    <2>3. \A k \in 1 .. next : Item(k, Decision(k))' = Item(k, Decision(k))
      BY DEF Item, Decision, PolicyAllows
    <2>4. Started = next /\ Started' = next /\ next' - 1 = next
      BY <1>1 DEF Started
    <2>5. ASSUME NEW o \in Ids, \A k \in 1 .. next : call.ids[k] # o
          PROVE  allocations'[o] = snapshot.allocations[o] /\ paidTo'[o] = snapshot.paidTo[o]
      BY <1>1, <1>3, <2>4, <2>5 DEF LedgerInv, ProgressInv
    <2> QED
      BY <2>2, <2>3, <2>4, <2>5 DEF ProgressInv
  <1> QED
    BY <1>4, <1>5, <1>6

\* What is known of the item being decided.
LEMMA ReadyItem ==
    ASSUME LedgerInv, pc = "deciding"
    PROVE  /\ next \in 1 .. Size
           /\ call.ids[next] \in Ids
           /\ call.recipients[next] \in Recipients
           /\ call.amounts[next] \in Nat \ {0}
           /\ \A r \in Recipients : paidTo[call.ids[next]][r] = 0
  <1>1. /\ next \in 1 .. Size /\ call.ids[next] \in Ids
        /\ call.recipients[next] \in Recipients
        /\ call.amounts[next] \in Nat
    BY CurrentItem, VaultConstants DEF LedgerInv, BatchInv, LoopInv, Amounts
  <1>2. call.amounts[next] # 0
    BY <1>1 DEF LedgerInv, BatchInv, LoopInv, Checked
  <1>3. allocations[call.ids[next]].state = "READY"
    BY DEF LedgerInv, ProgressInv, Item
  <1> QED
    BY <1>1, <1>2, <1>3 DEF LedgerInv, BooksInv, BookOK

LEMMA SuspendItemLedger ==
    ASSUME DistinctCalls, LedgerInv, SuspendItem
    PROVE  BooksInv' /\ FreshInv' /\ ProgressInv'
  <1>1. /\ pc = "deciding" /\ pc' = "creating" /\ next' = next + 1 /\ call' = call
        /\ snapshot' = snapshot /\ verdict' = verdict /\ paidTo' = paidTo
        /\ Decision(next) = "SUSPENDED"
        /\ allocations' = [allocations EXCEPT ![call.ids[next]].state = "SUSPENDED"]
    BY DEF SuspendItem, Decision
  <1>2. BookOK(Item(next, "SUSPENDED"), paidTo[call.ids[next]])
    BY <1>1, ReadyItem DEF BookOK, Item
  <1> QED
    BY <1>1, <1>2, DecideItem

LEMMA PayItemLedger ==
    ASSUME DistinctCalls, LedgerInv, PayItem
    PROVE  BooksInv' /\ FreshInv' /\ ProgressInv'
  <1> DEFINE id == call.ids[next]
             rcpt == call.recipients[next]
             amount == call.amounts[next]
  <1>1. /\ pc = "deciding" /\ pc' = "creating" /\ next' = next + 1 /\ call' = call
        /\ snapshot' = snapshot /\ verdict' = verdict
        /\ Decision(next) = "PAID"
        /\ allocations' = [allocations EXCEPT ![id].state = "PAID"]
        /\ paidTo' = [paidTo EXCEPT ![id][rcpt] = @ + amount]
    BY DEF PayItem, Decision, frame, Transfer
  <1>2. /\ id \in Ids /\ rcpt \in Recipients /\ amount \in Nat \ {0}
        /\ \A r \in Recipients : paidTo[id][r] = 0
    BY <1>1, ReadyItem
  <1>3. /\ \A o \in Ids \ {id} : paidTo'[o] = paidTo[o]
        /\ \A r \in Recipients : paidTo'[id][r] = IF r = rcpt THEN amount ELSE 0
    BY <1>1, <1>2 DEF LedgerInv, BatchInv, TypeOK
  <1>4. BookOK(Item(next, "PAID"), paidTo'[id])
    BY <1>2, <1>3 DEF BookOK, Item
  <1> QED
    BY <1>1, <1>3, <1>4, DecideItem

LEMMA FinishLedger == LedgerInv /\ FinishDistribute => BooksInv' /\ FreshInv' /\ ProgressInv'
  <1> SUFFICES ASSUME LedgerInv, FinishDistribute PROVE BooksInv' /\ FreshInv' /\ ProgressInv'
    OBVIOUS
  <1>1. /\ pc = "creating" /\ next = Size + 1 /\ pc' = "idle" /\ snapshot' = EmptyWorld
        /\ allocations' = allocations /\ paidTo' = paidTo
    BY DEF FinishDistribute, Commit, ClearFrame, world
  <1>2. Size \in Nat
    BY <1>1, RunningCall, VaultConstants DEF LedgerInv, BatchInv
  <1>3. ASSUME NEW id \in Ids PROVE allocations[id].state # "READY"
    <2>1. CASE \E k \in 1 .. Size : call.ids[k] = id
      <3>1. PICK k \in 1 .. Size : call.ids[k] = id
        BY <2>1
      <3>2. k \in 1 .. next - 1
        BY <1>1, <1>2
      <3>3. allocations[id] = Item(k, Decision(k))
        BY <1>1, <3>1, <3>2 DEF LedgerInv, ProgressInv
      <3> QED
        BY <3>3 DEF Decision, Item
    <2>2. CASE \A k \in 1 .. Size : call.ids[k] # id
      BY <1>1, <1>2, <2>2 DEF LedgerInv, ProgressInv, Started, BooksInv
    <2> QED
      BY <2>1, <2>2
  <1>4. BooksInv'
    BY <1>1, <1>3, EmptyWorldBooks DEF LedgerInv, BooksInv
  <1> QED
    BY <1>1, <1>4 DEF FreshInv, ProgressInv

LEMMA ReleaseLedger ==
    ASSUME LedgerInv, NEW caller \in Callers, NEW id \in Ids, ReleaseSuspended(caller, id)
    PROVE  BooksInv' /\ FreshInv' /\ ProgressInv'
  <1> DEFINE a == allocations[id]
  <1>1. /\ pc = "idle" /\ pc' = "idle" /\ snapshot' = snapshot /\ a.state = "SUSPENDED"
        /\ allocations' = [allocations EXCEPT ![id].state = "RELEASED"]
        /\ paidTo' = [paidTo EXCEPT ![id][a.recipient] = @ + a.amount]
    BY DEF ReleaseSuspended, Transfer, frame
  <1>2. /\ a.recipient \in Recipients /\ a.amount # 0
        /\ \A r \in Recipients : paidTo[id][r] = 0
    BY <1>1 DEF LedgerInv, BooksInv, BookOK
  <1>3. a.amount \in Nat
    BY Numbers DEF LedgerInv, BatchInv
  <1>4. /\ \A o \in Ids \ {id} : paidTo'[o] = paidTo[o] /\ allocations'[o] = allocations[o]
        /\ \A r \in Recipients : paidTo'[id][r] = IF r = a.recipient THEN a.amount ELSE 0
    BY <1>1, <1>2, <1>3 DEF LedgerInv, BatchInv, TypeOK
  <1>5. /\ allocations'[id].state = "RELEASED"
        /\ allocations'[id].recipient = a.recipient
        /\ allocations'[id].amount = a.amount
    BY <1>1 DEF LedgerInv, BatchInv, TypeOK, Allocations
  <1>6. BookOK(allocations'[id], paidTo'[id])
    BY <1>2, <1>4, <1>5 DEF BookOK
  <1>7. BooksInv'
    BY <1>1, <1>4, <1>5, <1>6 DEF LedgerInv, BooksInv
  <1> QED
    BY <1>1, <1>7 DEF FreshInv, ProgressInv

LEMMA StutterLedger ==
    ASSUME LedgerInv, UNCHANGED vars
    PROVE  BooksInv' /\ FreshInv' /\ ProgressInv'
  <1>1. /\ allocations' = allocations /\ paidTo' = paidTo /\ verdict' = verdict
        /\ pc' = pc /\ call' = call /\ next' = next /\ snapshot' = snapshot
    BY DEF vars, world, frame
  <1>2. Checked' = Checked /\ Started' = Started
    BY <1>1 DEF Checked, Started, Size
  <1>3. BooksInv' /\ FreshInv'
    BY <1>1, <1>2 DEF LedgerInv, BooksInv, FreshInv
  <1>4. ProgressInv'
    BY <1>1, <1>2 DEF LedgerInv, ProgressInv, Item, Decision, PolicyAllows
  <1> QED
    BY <1>3, <1>4

LEMMA StepLedger ==
    ASSUME DistinctCalls
    PROVE  LedgerInv /\ [Next]_vars => LedgerInv'
  <1> SUFFICES ASSUME LedgerInv, [Next]_vars PROVE BooksInv' /\ FreshInv' /\ ProgressInv'
    BY StepBatch DEF LedgerInv
  <1>1. ASSUME NEW caller \in Callers, NEW c \in Calls,
               BeginDistribute(caller, c) \/ RefuseDistribute(caller, c)
        PROVE  BooksInv' /\ FreshInv' /\ ProgressInv'
    <2>1. CASE RefuseDistribute(caller, c)
      BY <2>1, IdleLedger DEF RefuseDistribute, Refuse, world, frame
    <2> QED
      BY <1>1, <2>1, BeginLedger
  <1>2. CASE CheckItem \/ AcceptBatch \/ CreateItem \/ SuspendItem \/ PayItem \/ FinishDistribute
    BY <1>2, CheckItemLedger, AcceptBatchLedger, CreateItemLedger, SuspendItemLedger,
       PayItemLedger, FinishLedger
  <1>3. CASE RejectItem \/ RejectUnfunded \/ AbortBatch
    BY <1>3, RevertLedger DEF LedgerInv, RejectItem, RejectUnfunded, AbortBatch
  <1>4. ASSUME NEW caller \in Callers, NEW id \in Ids,
               ReleaseSuspended(caller, id) \/ RefuseRelease(caller, id)
        PROVE  BooksInv' /\ FreshInv' /\ ProgressInv'
    <2>1. CASE RefuseRelease(caller, id)
      BY <2>1, IdleLedger DEF RefuseRelease, Refuse, world, frame
    <2> QED
      BY <1>4, <2>1, ReleaseLedger
  <1>5. ASSUME \/ \E p \in Policies, r \in Recipients, v \in Verdicts : VerdictChange(p, r, v)
               \/ \E amount \in Deposits : Deposit(amount)
               \/ \E amount \in Burns : Burn(amount)
        PROVE  BooksInv' /\ FreshInv' /\ ProgressInv'
    BY <1>5, IdleLedger DEF VerdictChange, Deposit, Burn, world, frame
  <1>6. CASE UNCHANGED vars
    BY <1>6, StutterLedger
  <1> QED
    BY <1>1, <1>2, <1>3, <1>4, <1>5, <1>6 DEF Next, DistributeStep

\* At every step of a transaction, in the middle of its loops too, the storage
\* is the snapshot with exactly the started items decided as the policy says,
\* and no allocation is paid before it is decided (distribute, two loops).
THEOREM LedgerAlways ==
    ASSUME DistinctCalls
    PROVE  Spec => []LedgerInv
  BY InitLedger, StepLedger, PTL DEF Spec

-----------------------------------------------------------------------------

\* Whatever batches, reverts, verdict changes and releases happen, an
\* allocation's tokens leave the vault once, whole, for its own recipient.
THEOREM PaidOnce ==
    ASSUME DistinctCalls
    PROVE  Spec => []PaidExactlyOnce
  <1>1. LedgerInv => PaidExactlyOnce
    BY DEF LedgerInv, BooksInv, BookOK, PaidExactlyOnce
  <1> QED
    BY LedgerAlways, <1>1, PTL

-----------------------------------------------------------------------------

\* What is seen of the storage from outside the running transaction.
Seen == <<Committed.allocations, Committed.paidTo>>

\* No step inside a transaction is seen, and a revert is not seen either.
LEMMA UnseenSteps ==
    ASSUME LedgerInv, [Next]_vars
    PROVE  \/ Seen' = Seen /\ verdict' = verdict
           \/ FinishDistribute
           \/ \E caller \in Callers, id \in Ids : ReleaseSuspended(caller, id)
           \/ Seen' = Seen /\ \E p \in Policies, r \in Recipients, v \in Verdicts :
                                 VerdictChange(p, r, v)
  <1>1. ASSUME NEW caller \in Callers, NEW c \in Calls,
               BeginDistribute(caller, c) \/ RefuseDistribute(caller, c)
        PROVE  Seen' = Seen /\ verdict' = verdict
    BY <1>1 DEF BeginDistribute, RefuseDistribute, Refuse, Seen, Committed, World, world, frame
  <1>2. CASE CheckItem \/ AcceptBatch \/ CreateItem \/ SuspendItem \/ PayItem
    BY <1>2 DEF CheckItem, AcceptBatch, CreateItem, SuspendItem, PayItem, Seen, Committed,
                frame
  <1>3. ASSUME NEW reason, Revert(reason), pc # "idle"
        PROVE  Seen' = Seen
    BY <1>3 DEF Revert, ClearFrame, Seen, Committed, World
  <1>4. CASE RejectItem \/ RejectUnfunded \/ AbortBatch
    BY <1>3, <1>4 DEF RejectItem, RejectUnfunded, AbortBatch
  <1>5. ASSUME NEW caller \in Callers, NEW id \in Ids, RefuseRelease(caller, id)
        PROVE  Seen' = Seen /\ verdict' = verdict
    BY <1>5 DEF RefuseRelease, Refuse, Seen, Committed, World, world, frame
  <1>6. ASSUME NEW p \in Policies, NEW r \in Recipients, NEW v \in Verdicts,
               VerdictChange(p, r, v)
        PROVE  Seen' = Seen
    BY <1>6 DEF VerdictChange, Seen, Committed, World, world, frame
  <1>7. ASSUME NEW amount, Deposit(amount) \/ Burn(amount)
        PROVE  Seen' = Seen /\ verdict' = verdict
    BY <1>7 DEF Deposit, Burn, Seen, Committed, World, frame
  <1>8. CASE UNCHANGED vars
    BY <1>8 DEF vars, Seen, Committed, World, world, frame
  <1> QED
    BY <1>1, <1>2, <1>4, <1>5, <1>6, <1>7, <1>8 DEF Next, DistributeStep

\* A batch that commits settles or holds its items, and touches no other.
LEMMA FinishSettles ==
    ASSUME LedgerInv, FinishDistribute, NEW id \in Ids
    PROVE  LET old == snapshot.allocations[id]
               new == allocations[id]
           IN  \/ new = old /\ paidTo[id] = snapshot.paidTo[id]
               \/ /\ old = NoAllocation
                  /\ new.recipient \in Recipients /\ new.amount \in Nat \ {0}
                  /\ new.state = IF PolicyAllows(new.recipient) THEN "PAID" ELSE "SUSPENDED"
  <1>1. pc = "creating" /\ next = Size + 1
    BY DEF FinishDistribute
  <1>2. Size \in Nat
    BY <1>1, RunningCall, VaultConstants DEF LedgerInv, BatchInv
  <1>3. CASE \E k \in 1 .. Size : call.ids[k] = id
    <2>1. PICK k \in 1 .. Size : call.ids[k] = id
      BY <1>3
    <2>2. k \in 1 .. next - 1 /\ k \in 1 .. Checked
      BY <1>1, <1>2 DEF Checked
    <2>3. allocations[id] = Item(k, Decision(k))
      BY <1>1, <2>1, <2>2 DEF LedgerInv, ProgressInv
    <2>4. snapshot.allocations[id] = NoAllocation
      BY <1>1, <2>1, <2>2 DEF LedgerInv, FreshInv, BooksInv, BookOK
    <2>5. call.recipients[k] \in Recipients /\ call.amounts[k] \in Nat \ {0}
      <3>1. call.amounts[k] \in Nat
        BY <1>1, RunningCall, VaultConstants DEF LedgerInv, BatchInv, Amounts
      <3> QED
        BY <1>1, <2>2, <3>1 DEF LedgerInv, BatchInv, LoopInv
    <2> QED
      BY <2>3, <2>4, <2>5 DEF Item, Decision
  <1>4. CASE \A k \in 1 .. Size : call.ids[k] # id
    BY <1>1, <1>2, <1>4 DEF LedgerInv, ProgressInv, Started
  <1> QED
    BY <1>3, <1>4

\* Allocations go one way only, one transaction at a time, and keep their
\* recipient and amount for ever.
THEOREM OneWay ==
    ASSUME DistinctCalls
    PROVE  Spec => Lifecycle
  <1>1. LedgerInv /\ [Next]_vars => [OneWayStep]_vars
    <2> SUFFICES ASSUME LedgerInv, [Next]_vars, NEW id \in Ids
                 PROVE  Moves(Committed.allocations[id], Committed'.allocations[id])
      BY DEF OneWayStep
    <2>1. CASE Seen' = Seen
      BY <2>1 DEF Seen, Moves
    <2>2. CASE FinishDistribute
      <3>1. /\ Committed.allocations = snapshot.allocations
            /\ Committed'.allocations = allocations
        BY <2>2 DEF FinishDistribute, Commit, ClearFrame, Committed, World, world
      <3> QED
        BY <2>2, <3>1, FinishSettles DEF Moves
    <2>3. ASSUME NEW caller \in Callers, NEW o \in Ids, ReleaseSuspended(caller, o)
          PROVE  Moves(Committed.allocations[id], Committed'.allocations[id])
      <3>1. /\ Committed.allocations = allocations
            /\ Committed'.allocations = [allocations EXCEPT ![o].state = "RELEASED"]
            /\ allocations[o].state = "SUSPENDED"
            /\ allocations \in [Ids -> Allocations]
        BY <2>3 DEF ReleaseSuspended, Committed, World, LedgerInv, BatchInv, TypeOK
      <3> QED
        BY <3>1 DEF Moves
    <2> QED
      BY <2>1, <2>2, <2>3, UnseenSteps
  <1> QED
    BY LedgerAlways, <1>1, PTL DEF Spec, Lifecycle

\* A committed batch has recorded each of its items as the caller gave it: with no
\* identifier twice in a call, no later item has written over an earlier one.
THEOREM BatchesRecorded ==
    ASSUME DistinctCalls
    PROVE  Spec => ItemsOnRecord
  <1>1. ASSUME LedgerInv, [Next]_vars, pc = "creating", pc' = "idle", NEW k \in 1 .. Size
        PROVE  LET a == allocations'[call.ids[k]]
               IN  a.recipient = call.recipients[k] /\ a.amount = call.amounts[k]
    <2>1. FinishDistribute
      BY <1>1 DEF Next, BeginDistribute, RefuseDistribute, DistributeStep, CheckItem, RejectItem,
         AcceptBatch, RejectUnfunded, CreateItem, SuspendItem, PayItem, AbortBatch,
         ReleaseSuspended, RefuseRelease, VerdictChange, Deposit, Burn, vars
    <2>2. next = Size + 1 /\ allocations' = allocations
      BY <2>1 DEF FinishDistribute, world
    <2>3. Size \in Nat
      BY <1>1, RunningCall, VaultConstants DEF LedgerInv, BatchInv
    <2>4. allocations[call.ids[k]] = Item(k, Decision(k))
      BY <1>1, <2>2, <2>3 DEF LedgerInv, ProgressInv
    <2> QED
      BY <2>2, <2>4 DEF Item
  <1>2. LedgerInv /\ [Next]_vars =>
           ((pc = "creating" /\ pc' = "idle") =>
              \A k \in 1 .. Size :
                 LET a == allocations'[call.ids[k]]
                 IN  a.recipient = call.recipients[k] /\ a.amount = call.amounts[k])
    BY <1>1
  <1> QED
    BY LedgerAlways, <1>2, PTL DEF Spec, ItemsOnRecord

\* The vault implements the settlement ledger: its batches are atomic.
THEOREM VaultImplementsLedger ==
    ASSUME DistinctCalls
    PROVE  Spec => LedgerSpec
  <1> USE DEF Ledger!vars, Ledger!Unclaimed
  <1>1. Init => Ledger!Init
    BY DEF Init, Ledger!Init, EmptyWorld, Committed, World, ClaimOf, StatusOf,
           NoAllocation, NoPayment, Verdicts, Policies
  <1>2. LedgerInv /\ [Next]_vars => [Ledger!Next]_(Ledger!vars)
    <2> SUFFICES ASSUME LedgerInv, [Next]_vars
                 PROVE  Ledger!Next \/ UNCHANGED Ledger!vars
      OBVIOUS
    <2>1. CASE Seen' = Seen /\ verdict' = verdict
      BY <2>1 DEF Seen
    <2>2. CASE FinishDistribute
      <3>1. /\ Committed.allocations = snapshot.allocations /\ Committed.paidTo = snapshot.paidTo
            /\ Committed'.allocations = allocations /\ Committed'.paidTo = paidTo
            /\ verdict' = verdict
        BY <2>2 DEF FinishDistribute, Commit, ClearFrame, Committed, World, world
      <3>2. paidTo \in [Ids -> [Recipients -> Nat]]
        BY DEF LedgerInv, BatchInv, TypeOK
      <3>3. ASSUME NEW id \in Ids
            PROVE  Ledger!Unchanged(id) \/ Ledger!Settles(id) \/ Ledger!Holds(id)
        <4> DEFINE old == snapshot.allocations[id]
                   new == allocations[id]
        <4>1. CASE new = old /\ paidTo[id] = snapshot.paidTo[id]
          BY <3>1, <4>1 DEF Ledger!Unchanged
        <4>2. CASE /\ old = NoAllocation
                   /\ new.recipient \in Recipients /\ new.amount \in Nat \ {0}
                   /\ new.state = IF PolicyAllows(new.recipient) THEN "PAID" ELSE "SUSPENDED"
          <5>1. ClaimOf(old) = Ledger!Unclaimed
            BY <4>2 DEF ClaimOf, StatusOf, NoAllocation
          <5>2. \A r \in Recipients : snapshot.paidTo[id][r] = 0
            BY <4>2, EmptyBook DEF LedgerInv, BooksInv, BookOK
          <5>3. snapshot.paidTo[id] \in [Recipients -> Nat]
            BY DEF LedgerInv, BatchInv, TypeOK, Worlds
          <5>4. BookOK(new, paidTo[id])
            BY DEF LedgerInv, BooksInv
          <5>5. CASE PolicyAllows(new.recipient)
            <6>1. ClaimOf(new) \in Ledger!Claims("SETTLED")
              BY <4>2, <5>5 DEF ClaimOf, StatusOf, Ledger!Claims
            <6>2. paidTo[id] = [snapshot.paidTo[id] EXCEPT ![new.recipient] = @ + new.amount]
              BY <3>2, <4>2, <5>2, <5>3, <5>4, <5>5 DEF BookOK
            <6> QED
              BY <3>1, <4>2, <5>1, <5>5, <6>1, <6>2
                 DEF Ledger!Settles, Ledger!Pays, Ledger!Allowed, PolicyAllows, ClaimOf
          <5>6. CASE ~PolicyAllows(new.recipient)
            <6>1. ClaimOf(new) \in Ledger!Claims("HELD")
              BY <4>2, <5>6 DEF ClaimOf, StatusOf, Ledger!Claims
            <6>2. paidTo[id] = snapshot.paidTo[id]
              BY <3>2, <4>2, <5>2, <5>3, <5>4, <5>6 DEF BookOK
            <6> QED
              BY <3>1, <4>2, <5>1, <5>6, <6>1, <6>2
                 DEF Ledger!Holds, Ledger!Allowed, PolicyAllows, ClaimOf
          <5> QED
            BY <5>5, <5>6
        <4> QED
          BY <2>2, <4>1, <4>2, FinishSettles
      <3>4. Ledger!Shape
        BY <3>1, <3>2 DEF Ledger!Shape
      <3> QED
        BY <3>1, <3>3, <3>4 DEF Ledger!Next, Ledger!SettleBatch
    <2>3. ASSUME NEW caller \in Callers, NEW id \in Ids, ReleaseSuspended(caller, id)
          PROVE  Ledger!Release(id)
      <3> DEFINE a == allocations[id]
      <3>1. /\ Committed.allocations = allocations /\ Committed.paidTo = paidTo
            /\ Committed'.allocations = allocations' /\ Committed'.paidTo = paidTo'
            /\ verdict' = verdict /\ a.state = "SUSPENDED" /\ PolicyAllows(a.recipient)
            /\ allocations' = [allocations EXCEPT ![id].state = "RELEASED"]
            /\ paidTo' = [paidTo EXCEPT ![id][a.recipient] = @ + a.amount]
        BY <2>3 DEF ReleaseSuspended, Transfer, Committed, World
      <3>2. allocations \in [Ids -> Allocations] /\ paidTo \in [Ids -> [Recipients -> Nat]]
        BY DEF LedgerInv, BatchInv, TypeOK
      <3>3. \A o \in Ids \ {id} : allocations'[o] = allocations[o] /\ paidTo'[o] = paidTo[o]
        BY <3>1, <3>2
      <3>4. /\ ClaimOf(a).status = "HELD" /\ ClaimOf(a).recipient = a.recipient
            /\ ClaimOf(allocations'[id]).recipient = a.recipient
            /\ ClaimOf(allocations'[id]).amount = a.amount
            /\ ClaimOf(allocations'[id]) = [ClaimOf(a) EXCEPT !.status = "SETTLED"]
        BY <3>1, <3>2 DEF ClaimOf, StatusOf, Allocations
      <3>5. paidTo'[id] = [paidTo[id] EXCEPT ![a.recipient] = @ + a.amount]
        BY <3>1, <3>2
      <3>6. Ledger!Releases(id)
        BY <3>1, <3>4, <3>5
           DEF Ledger!Releases, Ledger!Pays, Ledger!Allowed, PolicyAllows
      <3>7. Ledger!Shape
        BY <3>1, <3>2 DEF Ledger!Shape
      <3>8. \A o \in Ids \ {id} : Ledger!Unchanged(o)
        BY <3>1, <3>3 DEF Ledger!Unchanged
      <3> QED
        BY <3>1, <3>6, <3>7, <3>8 DEF Ledger!Release
    <2>4. ASSUME Seen' = Seen, NEW p \in Policies, NEW r \in Recipients, NEW v \in Verdicts,
                 VerdictChange(p, r, v)
          PROVE  Ledger!PolicyChange
      <3>1. verdict'[VaultPolicy] \in [Recipients -> Verdicts]
        BY <2>4 DEF VerdictChange, LedgerInv, BatchInv, TypeOK, Policies
      <3> QED
        BY <2>4, <3>1 DEF Ledger!PolicyChange, Seen, Verdicts
    <2> QED
      BY <2>1, <2>2, <2>3, <2>4, UnseenSteps DEF Ledger!Next
  <1> QED
    BY InitLedger, LedgerAlways, <1>1, <1>2, PTL DEF Spec, LedgerSpec, Ledger!Spec

=============================================================================
