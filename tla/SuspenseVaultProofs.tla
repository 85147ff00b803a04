------------------------- MODULE SuspenseVaultProofs -------------------------
(***************************************************************************)
(* Theorems about the vault, for every set of allocations, recipients,     *)
(* calls and amounts.  Type correctness, the coverage of a batch and the   *)
(* absence of aborts hold whatever the calls are; that an allocation is    *)
(* paid exactly once needs calls that name no allocation twice.            *)
(***************************************************************************)
EXTENDS SuspenseVaultRefinement, TLAPS

\* How many items of the running call have passed the first loop.
Checked == IF pc = "checking" THEN next - 1 ELSE Size

\* The loop counter stays in the batch, and the checked items are payable.
LoopInv ==
    pc # "idle" =>
       /\ next \in 1 .. Size + 1
       /\ pc = "deciding" => next <= Size
       /\ \A k \in 1 .. Checked :
             call.recipients[k] \in Recipients /\ call.amounts[k] # 0

\* required holds the partial sums of the amounts, so it never decreases.
FundingInv ==
    pc # "idle" =>
       /\ required[0] = 0
       /\ \A k \in 1 .. Checked : required[k] = required[k - 1] + call.amounts[k]
       /\ \A j, k \in 0 .. Checked : j <= k => required[j] <= required[k]

\* Nothing has been written or suspended while the first loop runs.
CheckingInv == pc = "checking" => World = snapshot /\ held = 0

BatchInv == TypeOK /\ LoopInv /\ FundingInv /\ CheckingInv /\ BatchCovered

-----------------------------------------------------------------------------

\* The arrays of a call that passed the length test are read inside their bounds.
LEMMA CallTypes ==
    ASSUME NEW c \in Calls, SameLengths(c)
    PROVE  /\ Len(c.ids) \in 1 .. MaxBatch
           /\ \A k \in 1 .. Len(c.ids) :
                 /\ c.ids[k] \in Ids
                 /\ c.recipients[k] \in Addresses
                 /\ c.amounts[k] \in Amounts
  BY VaultConstants DEF SameLengths

\* The world of a vault that was never used is well typed.
LEMMA EmptyWorldTypes == EmptyWorld \in Worlds /\ NoFunding \in [0 .. MaxBatch -> Amounts]
  BY VaultConstants DEF EmptyWorld, Worlds, NoFunding, Allocations, NoAllocation,
     NoPayment, Addresses, Amounts, States

LEMMA InitBatch == Init => BatchInv
  <1> SUFFICES ASSUME Init PROVE BatchInv
    OBVIOUS
  <1>1. TypeOK
    BY EmptyWorldTypes, VaultConstants DEF Init, TypeOK, EmptyWorld, Worlds, Amounts, Outcomes
  <1> QED
    BY <1>1 DEF Init, BatchInv, LoopInv, FundingInv, CheckingInv, BatchCovered

\* A revert and a commit leave an idle vault, well typed.
LEMMA ClearTypes ==
    ASSUME TypeOK, ClearFrame, allocations' \in [Ids -> Allocations],
           vaultBalance' \in Amounts, paidTo' \in [Ids -> [Recipients -> Nat]],
           verdict' = verdict, outcome' \in Outcomes
    PROVE  BatchInv'
  BY EmptyWorldTypes, VaultConstants
     DEF TypeOK, ClearFrame, BatchInv, LoopInv, FundingInv, CheckingInv, BatchCovered

LEMMA RevertTypes ==
    ASSUME TypeOK, NEW reason \in Outcomes, Revert(reason), verdict' = verdict
    PROVE  BatchInv'
  <1>1. /\ ClearFrame
        /\ outcome' \in Outcomes
        /\ allocations' \in [Ids -> Allocations]
        /\ vaultBalance' \in Amounts
        /\ paidTo' \in [Ids -> [Recipients -> Nat]]
    BY DEF TypeOK, Revert, Worlds
  <1> QED
    BY <1>1, ClearTypes

\* Inside a transaction the call is one the type invariant knows the shape of.
LEMMA RunningCall ==
    ASSUME TypeOK, pc # "idle"
    PROVE  /\ call \in Calls
           /\ SameLengths(call)
           /\ Size \in 1 .. MaxBatch
           /\ \A k \in 1 .. Size :
                 /\ call.ids[k] \in Ids
                 /\ call.recipients[k] \in Addresses
                 /\ call.amounts[k] \in Amounts
  <1>1. call \in Calls /\ SameLengths(call)
    BY DEF TypeOK
  <1> QED
    BY <1>1, CallTypes DEF Size

\* The numbers of the vault are natural, and the balance fits its width.
LEMMA Numbers ==
    ASSUME TypeOK
    PROVE  /\ vaultBalance \in Nat /\ vaultBalance <= MaxUint
           /\ held \in Nat /\ next \in Nat /\ MaxUint \in Nat /\ MaxBatch \in Nat
           /\ \A k \in 0 .. MaxBatch : required[k] \in Nat
           /\ \A id \in Ids : allocations[id].amount \in Nat
           /\ \A id \in Ids, r \in Recipients : paidTo[id][r] \in Nat
  BY VaultConstants DEF TypeOK, Amounts, Allocations

\* A transfer keeps the books well typed.
LEMMA TransferTypes ==
    ASSUME TypeOK, NEW id \in Ids, NEW r, NEW amount \in Nat,
           amount <= vaultBalance, Transfer(id, r, amount)
    PROVE  vaultBalance' \in Amounts /\ paidTo' \in [Ids -> [Recipients -> Nat]]
  <1>1. vaultBalance' \in Amounts
    BY Numbers DEF Transfer, Amounts
  <1>2. paidTo \in [Ids -> [Recipients -> Nat]]
    BY DEF TypeOK
  <1>3. [paidTo[id] EXCEPT ![r] = @ + amount] \in [Recipients -> Nat]
    <2>1. paidTo[id] \in [Recipients -> Nat]
      BY <1>2
    <2>2. \A x \in Recipients : paidTo[id][x] \in Nat /\ paidTo[id][x] + amount \in Nat
      BY <2>1
    <2> QED
      BY <2>1, <2>2
  <1>4. paidTo' = [paidTo EXCEPT ![id] = [paidTo[id] EXCEPT ![r] = @ + amount]]
    BY <1>2 DEF Transfer
  <1> QED
    BY <1>1, <1>2, <1>3, <1>4

\* Writing a state keeps the allocations well typed.
LEMMA StateTypes ==
    ASSUME TypeOK, NEW id \in Ids, NEW state \in States
    PROVE  [allocations EXCEPT ![id].state = state] \in [Ids -> Allocations]
  <1>1. allocations[id] \in Allocations
    BY DEF TypeOK
  <1>2. [allocations[id] EXCEPT !.state = state] \in Allocations
    BY <1>1 DEF Allocations
  <1> QED
    BY <1>2 DEF TypeOK

LEMMA CheckItemBatch == BatchInv /\ CheckItem => BatchInv'
  <1> SUFFICES ASSUME BatchInv, CheckItem PROVE BatchInv'
    OBVIOUS
  <1>1. /\ Size \in 1 .. MaxBatch /\ Size' = Size /\ next \in 1 .. Size
        /\ call.ids[next] \in Ids
        /\ call.recipients[next] \in Addresses
        /\ call.amounts[next] \in Amounts
    BY RunningCall DEF BatchInv, TypeOK, LoopInv, CheckItem, Size
  <1>2. /\ required \in [0 .. MaxBatch -> Amounts]
        /\ Funding \in Amounts
        /\ required'= [required EXCEPT ![next] = Funding]
        /\ next' = next + 1 /\ pc' = "checking" /\ pc = "checking"
        /\ call' = call
    <2>1. required[next - 1] \in Nat /\ call.amounts[next] \in Nat /\ MaxUint \in Nat
      BY <1>1, Numbers DEF BatchInv, Amounts
    <2>2. Funding \in Amounts
      BY <2>1 DEF CheckItem, Funding, Amounts
    <2> QED
      BY <2>2 DEF BatchInv, TypeOK, CheckItem
  <1>3. TypeOK'
    <2>1. required' \in [0 .. MaxBatch -> Amounts]
      BY <1>1, <1>2
    <2>2. next' \in 1 .. MaxBatch + 1
      BY <1>1, <1>2, VaultConstants
    <2> QED
      BY <1>1, <1>2, <2>1, <2>2 DEF BatchInv, TypeOK, CheckItem, world
  <1>4. LoopInv'
    BY <1>1, <1>2, VaultConstants
       DEF BatchInv, LoopInv, CheckItem, ItemInvalid, Checked, Addresses
  <1>5. FundingInv'
    <2>1. \A k \in 0 .. next - 1 : required'[k] = required[k]
      BY <1>1, <1>2, VaultConstants
    <2>2. required'[next] = required[next - 1] + call.amounts[next]
      BY <1>1, <1>2, VaultConstants DEF Funding
    <2>3. \A k \in 0 .. next - 1 : required[k] \in Nat /\ required[k] <= required[next - 1]
      BY <1>1, <1>2, VaultConstants DEF BatchInv, FundingInv, Checked, Amounts
    <2>4. required'[0] = 0
      BY <1>1, <1>2, <2>1 DEF BatchInv, FundingInv
    <2>5. \A k \in 1 .. next : required'[k] = required'[k - 1] + call.amounts[k]
      BY <1>1, <1>2, <2>1, <2>2 DEF BatchInv, FundingInv, Checked
    <2>6. \A j, k \in 0 .. next : j <= k => required'[j] <= required'[k]
      BY <1>1, <1>2, <2>1, <2>2, <2>3 DEF BatchInv, FundingInv, Checked, Amounts
    <2> QED
      BY <1>1, <1>2, <2>4, <2>5, <2>6 DEF FundingInv, Checked
  <1>6. BatchCovered' /\ CheckingInv'
    BY <1>2 DEF BatchInv, BatchCovered, CheckingInv, CheckItem, World, world
  <1> QED
    BY <1>3, <1>4, <1>5, <1>6 DEF BatchInv

\* The steps of the second loop keep the call and what the first loop found.
LEMMA SecondLoopKeeps ==
    ASSUME BatchInv, pc \in {"creating", "deciding"}, call' = call,
           required' = required, pc' \in {"creating", "deciding"},
           next' \in 1 .. Size + 1, pc' = "deciding" => next' <= Size
    PROVE  LoopInv' /\ FundingInv' /\ CheckingInv'
  BY DEF BatchInv, LoopInv, FundingInv, CheckingInv, Checked, Size

LEMMA AcceptBatchBatch == BatchInv /\ AcceptBatch => BatchInv'
  <1> SUFFICES ASSUME BatchInv, AcceptBatch PROVE BatchInv'
    OBVIOUS
  <1>1. Size \in 1 .. MaxBatch /\ Size' = Size
    BY RunningCall DEF BatchInv, AcceptBatch, Size, frame
  <1>5. Checked = Size /\ Checked' = Size
    BY <1>1 DEF AcceptBatch, Checked
  <1>2. TypeOK'
    <2>1. next' \in 1 .. MaxBatch + 1
      BY VaultConstants DEF AcceptBatch
    <2> QED
      BY <2>1 DEF BatchInv, TypeOK, AcceptBatch, world, frame
  <1>3. LoopInv' /\ FundingInv' /\ CheckingInv'
    BY <1>1, <1>5 DEF BatchInv, LoopInv, FundingInv, CheckingInv, AcceptBatch, frame
  <1>4. BatchCovered'
    <2>1. required[0] = 0 /\ required[Size] \in Nat /\ held = 0
      BY <1>1, Numbers DEF BatchInv, FundingInv, CheckingInv, AcceptBatch
    <2>2. /\ next' = 1 /\ vaultBalance' = vaultBalance /\ required' = required /\ held' = held
          /\ vaultBalance >= required[Size]
      BY DEF AcceptBatch, world, frame
    <2> QED
      BY <1>1, <2>1, <2>2, Numbers DEF BatchInv, BatchCovered
  <1> QED
    BY <1>2, <1>3, <1>4 DEF BatchInv

LEMMA BeginBatch ==
    ASSUME BatchInv, NEW caller \in Callers, NEW c \in Calls,
           BeginDistribute(caller, c)
    PROVE  BatchInv'
  <1>1. Size' \in 1 .. MaxBatch
    BY CallTypes DEF BeginDistribute, Size
  <1>2. TypeOK'
    BY EmptyWorldTypes, VaultConstants
       DEF BatchInv, TypeOK, BeginDistribute, World, Worlds, world
  <1>3. required'[0] = 0 /\ Checked' = 0
    BY VaultConstants DEF BeginDistribute, NoFunding, Checked
  <1>4. LoopInv' /\ FundingInv' /\ CheckingInv' /\ BatchCovered'
    BY <1>1, <1>3 DEF BeginDistribute, LoopInv, FundingInv, CheckingInv, BatchCovered, World, world
  <1> QED
    BY <1>2, <1>4 DEF BatchInv

LEMMA RejectItemBatch == BatchInv /\ RejectItem => BatchInv'
  BY RevertTypes DEF BatchInv, RejectItem, Outcomes

LEMMA RejectUnfundedBatch == BatchInv /\ RejectUnfunded => BatchInv'
  BY RevertTypes DEF BatchInv, RejectUnfunded, Outcomes

LEMMA AbortBatchBatch == BatchInv /\ AbortBatch => BatchInv'
  BY RevertTypes DEF BatchInv, AbortBatch, Outcomes

LEMMA FinishBatch == BatchInv /\ FinishDistribute => BatchInv'
  BY ClearTypes DEF BatchInv, TypeOK, FinishDistribute, Commit, world, Outcomes

\* What the second loop reads of its item.
LEMMA CurrentItem ==
    ASSUME BatchInv, pc \in {"creating", "deciding"}, next <= Size
    PROVE  /\ Size \in 1 .. MaxBatch /\ next \in 1 .. Size
           /\ call.ids[next] \in Ids
           /\ call.recipients[next] \in Recipients
           /\ call.amounts[next] \in Amounts
           /\ required[next] = required[next - 1] + call.amounts[next]
           /\ required[Size] \in Nat /\ required[next] \in Nat /\ required[next - 1] \in Nat
           /\ required[next] <= required[Size]
           /\ vaultBalance >= required[Size] - required[next - 1] + held
           /\ call.amounts[next] <= vaultBalance
  <1>1. /\ Size \in 1 .. MaxBatch /\ next \in 1 .. Size
        /\ call.ids[next] \in Ids
        /\ call.amounts[next] \in Amounts
    BY RunningCall DEF BatchInv, LoopInv
  <1>2. Checked = Size
    BY DEF Checked
  <1>3. /\ call.recipients[next] \in Recipients
        /\ required[next] = required[next - 1] + call.amounts[next]
        /\ required[next] <= required[Size]
    BY <1>1, <1>2 DEF BatchInv, LoopInv, FundingInv
  <1>4. /\ required[Size] \in Nat /\ required[next] \in Nat /\ required[next - 1] \in Nat
        /\ held \in Nat /\ vaultBalance \in Nat
    BY <1>1, Numbers DEF BatchInv
  <1>5. vaultBalance >= required[Size] - required[next - 1] + held
    BY DEF BatchInv, BatchCovered
  <1> QED
    BY <1>1, <1>3, <1>4, <1>5, VaultConstants DEF Amounts

LEMMA CreateItemBatch == BatchInv /\ CreateItem => BatchInv'
  <1> SUFFICES ASSUME BatchInv, CreateItem PROVE BatchInv'
    OBVIOUS
  <1>1. /\ next \in 1 .. Size /\ Size \in 1 .. MaxBatch /\ Size' = Size
        /\ [recipient |-> call.recipients[next], amount |-> call.amounts[next],
            state |-> "READY"] \in Allocations
    BY CurrentItem DEF CreateItem, Allocations, Addresses, States, frame, Size
  <1>2. TypeOK'
    BY <1>1 DEF BatchInv, TypeOK, CreateItem, frame
  <1>3. LoopInv' /\ FundingInv' /\ CheckingInv'
    <2>1. /\ pc \in {"creating", "deciding"} /\ pc' \in {"creating", "deciding"}
          /\ call' = call /\ required' = required
          /\ next' \in 1 .. Size + 1 /\ next' <= Size
      BY <1>1, VaultConstants DEF CreateItem, frame
    <2> QED
      BY <2>1, SecondLoopKeeps
  <1>4. BatchCovered'
    BY <1>1 DEF BatchInv, BatchCovered, CreateItem, frame
  <1> QED
    BY <1>2, <1>3, <1>4 DEF BatchInv

LEMMA SuspendItemBatch == BatchInv /\ SuspendItem => BatchInv'
  <1> SUFFICES ASSUME BatchInv, SuspendItem PROVE BatchInv'
    OBVIOUS
  <1>1. next \in 1 .. Size /\ Size \in 1 .. MaxBatch /\ Size' = Size
    BY CurrentItem DEF SuspendItem, BatchInv, LoopInv, Size
  <1>2. /\ call.ids[next] \in Ids /\ call.amounts[next] \in Nat
        /\ required[next] = required[next - 1] + call.amounts[next]
        /\ required[Size] \in Nat /\ required[next - 1] \in Nat
        /\ vaultBalance >= required[Size] - required[next - 1] + held
    BY <1>1, CurrentItem, VaultConstants DEF SuspendItem, Amounts
  <1>3. TypeOK'
    <2>1. allocations' \in [Ids -> Allocations]
      BY <1>2, StateTypes DEF BatchInv, SuspendItem, States
    <2>2. held' \in Nat /\ next' \in 1 .. MaxBatch + 1
      BY <1>1, <1>2, Numbers DEF BatchInv, SuspendItem
    <2> QED
      BY <2>1, <2>2 DEF BatchInv, TypeOK, SuspendItem
  <1>4. LoopInv' /\ FundingInv' /\ CheckingInv'
    BY <1>1, SecondLoopKeeps DEF SuspendItem
  <1>5. BatchCovered'
    BY <1>1, <1>2, Numbers DEF BatchInv, BatchCovered, SuspendItem
  <1> QED
    BY <1>3, <1>4, <1>5 DEF BatchInv

LEMMA PayItemBatch == BatchInv /\ PayItem => BatchInv'
  <1> SUFFICES ASSUME BatchInv, PayItem PROVE BatchInv'
    OBVIOUS
  <1> DEFINE r == call.recipients[next]
             amount == call.amounts[next]
             id == call.ids[next]
  <1>1. next \in 1 .. Size /\ Size \in 1 .. MaxBatch /\ Size' = Size
    BY CurrentItem DEF PayItem, BatchInv, LoopInv, Size, frame
  <1>2. /\ id \in Ids /\ r \in Recipients /\ amount \in Nat
        /\ required[next] = required[next - 1] + amount
        /\ required[Size] \in Nat /\ required[next - 1] \in Nat
        /\ vaultBalance >= required[Size] - required[next - 1] + held
        /\ amount <= vaultBalance
    BY <1>1, CurrentItem, VaultConstants DEF PayItem, Amounts
  <1>3. TypeOK'
    <2>1. allocations' \in [Ids -> Allocations]
      BY <1>2, StateTypes DEF BatchInv, PayItem, States
    <2>2. vaultBalance' \in Amounts /\ paidTo' \in [Ids -> [Recipients -> Nat]]
      BY <1>2, TransferTypes DEF BatchInv, PayItem
    <2>3. next' \in 1 .. MaxBatch + 1
      BY <1>1, Numbers DEF BatchInv, PayItem
    <2> QED
      BY <2>1, <2>2, <2>3 DEF BatchInv, TypeOK, PayItem, frame
  <1>4. LoopInv' /\ FundingInv' /\ CheckingInv'
    BY <1>1, SecondLoopKeeps DEF PayItem, frame
  <1>5. BatchCovered'
    BY <1>1, <1>2, Numbers DEF BatchInv, BatchCovered, PayItem, Transfer, frame
  <1> QED
    BY <1>3, <1>4, <1>5 DEF BatchInv

\* Between transactions there is no batch: only the types are at stake.
LEMMA IdleBatch ==
    ASSUME TypeOK', pc' = "idle"
    PROVE  BatchInv'
  BY DEF BatchInv, LoopInv, FundingInv, CheckingInv, BatchCovered

LEMMA RefuseTypes ==
    ASSUME BatchInv, pc = "idle", NEW reason \in Outcomes, Refuse(reason),
           verdict' = verdict
    PROVE  BatchInv'
  BY IdleBatch DEF BatchInv, TypeOK, Refuse, world, frame

LEMMA ReleaseBatch ==
    ASSUME BatchInv, NEW caller \in Callers, NEW id \in Ids,
           ReleaseSuspended(caller, id) \/ RefuseRelease(caller, id)
    PROVE  BatchInv'
  <1>1. CASE RefuseRelease(caller, id)
    BY <1>1, RefuseTypes DEF RefuseRelease, Outcomes
  <1>2. CASE ReleaseSuspended(caller, id)
    <2> DEFINE a == allocations[id]
    <2>1. a.amount \in Nat /\ a.amount <= vaultBalance
      BY <1>2, Numbers DEF BatchInv, ReleaseSuspended, TransferSucceeds
    <2>2. allocations' \in [Ids -> Allocations]
      BY <1>2, StateTypes DEF BatchInv, ReleaseSuspended, States
    <2>3. vaultBalance' \in Amounts /\ paidTo' \in [Ids -> [Recipients -> Nat]]
      BY <1>2, <2>1, TransferTypes DEF BatchInv, ReleaseSuspended
    <2>5. TypeOK'
      BY <1>2, <2>2, <2>3 DEF BatchInv, TypeOK, ReleaseSuspended, frame, Outcomes
    <2> QED
      BY <1>2, <2>5, IdleBatch DEF ReleaseSuspended
  <1> QED
    BY <1>1, <1>2

LEMMA EnvironmentBatch ==
    ASSUME BatchInv,
           \/ \E p \in Policies, r \in Recipients, v \in Verdicts : VerdictChange(p, r, v)
           \/ \E amount \in Deposits : Deposit(amount)
           \/ \E amount \in Burns : Burn(amount)
    PROVE  BatchInv'
  <1>1. ASSUME NEW p \in Policies, NEW r \in Recipients, NEW v \in Verdicts,
               VerdictChange(p, r, v)
        PROVE  BatchInv'
    <2>1. verdict' \in [Policies -> [Recipients -> Verdicts]]
      BY <1>1 DEF BatchInv, TypeOK, VerdictChange
    <2> QED
      BY <1>1, <2>1, IdleBatch DEF BatchInv, TypeOK, VerdictChange, world, frame
  <1>2. ASSUME NEW amount \in Deposits, Deposit(amount)
        PROVE  BatchInv'
    <2>1. vaultBalance' \in Amounts
      BY <1>2, VaultConstants DEF BatchInv, TypeOK, Deposit, Amounts
    <2> QED
      BY <1>2, <2>1, IdleBatch DEF BatchInv, TypeOK, Deposit, frame
  <1>3. ASSUME NEW amount \in Burns, Burn(amount)
        PROVE  BatchInv'
    <2>1. vaultBalance' \in Amounts
      BY <1>3, VaultConstants DEF BatchInv, TypeOK, Burn, Amounts
    <2> QED
      BY <1>3, <2>1, IdleBatch DEF BatchInv, TypeOK, Burn, frame
  <1> QED
    BY <1>1, <1>2, <1>3

LEMMA StutterBatch == BatchInv /\ UNCHANGED vars => BatchInv'
  <1> SUFFICES ASSUME BatchInv, UNCHANGED vars PROVE BatchInv'
    OBVIOUS
  <1>1. /\ allocations' = allocations /\ vaultBalance' = vaultBalance /\ paidTo' = paidTo
        /\ verdict' = verdict /\ pc' = pc /\ call' = call /\ next' = next
        /\ required' = required /\ held' = held /\ snapshot' = snapshot
        /\ outcome' = outcome
    BY DEF vars, world, frame
  <1>2. Size' = Size /\ Checked' = Checked /\ World' = World
    BY <1>1 DEF Size, Checked, World
  <1>3. TypeOK' /\ BatchCovered' /\ CheckingInv'
    BY <1>1, <1>2 DEF BatchInv, TypeOK, BatchCovered, CheckingInv
  <1>4. LoopInv' /\ FundingInv'
    BY <1>1, <1>2 DEF BatchInv, LoopInv, FundingInv
  <1> QED
    BY <1>3, <1>4 DEF BatchInv

LEMMA StepBatch == BatchInv /\ [Next]_vars => BatchInv'
  <1> SUFFICES ASSUME BatchInv, [Next]_vars PROVE BatchInv'
    OBVIOUS
  <1>1. ASSUME NEW caller \in Callers, NEW c \in Calls, BeginDistribute(caller, c)
        PROVE  BatchInv'
    BY <1>1, BeginBatch
  <1>2. ASSUME NEW caller \in Callers, NEW c \in Calls, RefuseDistribute(caller, c)
        PROVE  BatchInv'
    BY <1>2, RefuseTypes DEF RefuseDistribute, Outcomes
  <1>3. CASE DistributeStep
    BY <1>3, CheckItemBatch, RejectItemBatch, AcceptBatchBatch, RejectUnfundedBatch,
       CreateItemBatch, SuspendItemBatch, PayItemBatch, AbortBatchBatch, FinishBatch
       DEF DistributeStep
  <1>4. ASSUME NEW caller \in Callers, NEW id \in Ids,
               ReleaseSuspended(caller, id) \/ RefuseRelease(caller, id)
        PROVE  BatchInv'
    BY <1>4, ReleaseBatch
  <1>5. CASE UNCHANGED vars
    BY <1>5, StutterBatch
  <1> QED
    BY <1>1, <1>2, <1>3, <1>4, <1>5, EnvironmentBatch DEF Next

-----------------------------------------------------------------------------

\* Every variable of the vault keeps its type, whatever calls are made.
THEOREM TypeCorrect == Spec => []TypeOK
  <1>1. BatchInv => TypeOK
    BY DEF BatchInv
  <1> QED
    BY InitBatch, StepBatch, <1>1, PTL DEF Spec

\* The loop that pays always has the tokens for the rest of the batch and for
\* what the batch has suspended (distribute, lines 94-151), whatever the batch.
THEOREM BatchesCovered == Spec => []BatchCovered
  <1>1. BatchInv => BatchCovered
    BY DEF BatchInv
  <1> QED
    BY InitBatch, StepBatch, <1>1, PTL DEF Spec

\* An accepted batch commits, unless the token's own policy refuses a recipient
\* the vault's policy allows: with one policy, as deployed, no verdict for one
\* recipient can undo the payments of the others.
THEOREM NoAborts == Spec => BlockedNeverAborts
  <1>1. BatchInv /\ [Next]_vars =>
           [(pc \in {"creating", "deciding"} /\ pc' = "idle") =>
               outcome' = "ok" \/ TokenDisagrees(call.recipients[next])]_vars
    <2> SUFFICES ASSUME BatchInv, Next, pc \in {"creating", "deciding"}, pc' = "idle"
                 PROVE  outcome' = "ok" \/ TokenDisagrees(call.recipients[next])
      OBVIOUS
    <2>1. CASE AbortBatch
      <3>1. next <= Size
        BY <2>1 DEF BatchInv, LoopInv, AbortBatch
      <3>2. call.amounts[next] <= vaultBalance /\ call.amounts[next] \in Nat /\ vaultBalance \in Nat
        BY <3>1, CurrentItem, VaultConstants DEF BatchInv, TypeOK, Amounts
      <3> QED
        BY <2>1, <3>2 DEF AbortBatch, PolicyAllows, TransferSucceeds, TokenDisagrees
    <2>2. CASE FinishDistribute
      BY <2>2 DEF FinishDistribute, Commit
    <2>3. CASE CreateItem \/ SuspendItem \/ PayItem
      BY <2>3 DEF CreateItem, SuspendItem, PayItem
    <2>4. CASE CheckItem \/ RejectItem \/ AcceptBatch \/ RejectUnfunded
      BY <2>4 DEF CheckItem, RejectItem, AcceptBatch, RejectUnfunded
    <2> QED
      BY <2>1, <2>2, <2>3, <2>4
         DEF Next, DistributeStep, BeginDistribute, RefuseDistribute,
             ReleaseSuspended, RefuseRelease, VerdictChange, Deposit, Burn
  <1> QED
    BY InitBatch, StepBatch, <1>1, PTL DEF Spec, BlockedNeverAborts

=============================================================================
