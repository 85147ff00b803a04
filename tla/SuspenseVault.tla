---------------------------- MODULE SuspenseVault ----------------------------
(***************************************************************************)
(* contracts/SuspenseVault.sol: the contract that pays a batch of          *)
(* allocations, suspends the ones the Cleanverse policy blocks, and later  *)
(* releases a suspended allocation when the policy lets it through.        *)
(*                                                                         *)
(* A transaction of distribute is modelled in the steps of its two loops,  *)
(* so that a revert in the middle, and what it must undo, is a behaviour   *)
(* of the model.  The EVM runs one transaction at a time: the other        *)
(* actions are enabled only when pc = "idle" (nonReentrant adds that the   *)
(* token cannot call back either).                                         *)
(*                                                                         *)
(* The token and the two policies (the one the vault asks, the one the     *)
(* token asks) are seen as the vault sees them: answers and a balance.     *)
(***************************************************************************)
EXTENDS Integers, Sequences

CONSTANTS
    Ids,          \* allocation identifiers (bytes32)
    Recipients,   \* addresses that can be paid
    ZeroAddress,  \* address(0)
    Owner,        \* the address given to Ownable
    Callers,      \* addresses that call the vault
    Calls,        \* the arguments distribute is called with
    MaxBatch,     \* BOUND: no array of a call is longer
    MaxUint,      \* type(uint256).max
    VaultPolicy,  \* the policy the vault asks
    TokenPolicy,  \* the policy the token asks in _update
    Deposits,     \* BOUND: amounts the vault can be funded with at a time
    Burns,        \* BOUND: amounts a minter can burn from the vault at a time
    MaxBalance    \* BOUND: no deposit takes the vault above it

Addresses == Recipients \union {ZeroAddress}
Policies == {VaultPolicy, TokenPolicy}
Amounts == 0 .. MaxUint

ASSUME VaultConstants ==
    /\ ZeroAddress \notin Recipients
    /\ MaxBatch \in Nat
    /\ MaxUint \in Nat
    /\ MaxBalance \in Amounts
    /\ Deposits \subseteq Nat
    /\ Burns \subseteq Nat
    /\ \A c \in Calls :
          /\ c.ids \in Seq(Ids)
          /\ c.recipients \in Seq(Addresses)
          /\ c.amounts \in Seq(Amounts)
          /\ Len(c.ids) <= MaxBatch

VARIABLES
    allocations,   \* the storage mapping
    vaultBalance,  \* token.balanceOf(vault)
    paidTo,        \* tokens moved for each allocation, to each recipient
    verdict,       \* what each policy would answer for each recipient
    pc,            \* where the running transaction is
    call,          \* its arguments
    next,          \* its loop counter
    required,      \* requiredFunding after each iteration of the first loop
    held,          \* amounts this transaction has suspended so far
    snapshot,      \* what a revert restores
    outcome        \* how the last transaction ended

world == <<allocations, vaultBalance, paidTo>>
frame == <<call, required, held, snapshot>>
vars == <<world, verdict, pc, frame, next, outcome>>

States == {"NONE", "READY", "PAID", "SUSPENDED", "RELEASED"}
Verdicts == {"ALLOW", "DENY", "REVERT"}
Outcomes ==
    {"none", "ok", "OwnableUnauthorizedAccount", "InvalidArrayLengths",
     "InvalidAllocation", "DuplicateAllocation", "Panic",
     "InsufficientFunding", "NotSuspended", "StillBlocked",
     "TransferReverted"}
Allocations == [recipient : Addresses, amount : Amounts, state : States]
Worlds == [allocations : [Ids -> Allocations],
           vaultBalance : Amounts,
           paidTo : [Ids -> [Recipients -> Nat]]]

NoAllocation == [recipient |-> ZeroAddress, amount |-> 0, state |-> "NONE"]
NoPayment == [r \in Recipients |-> 0]
NoCall == [ids |-> <<>>, recipients |-> <<>>, amounts |-> <<>>]
NoFunding == [k \in 0 .. MaxBatch |-> 0]

World == [allocations |-> allocations, vaultBalance |-> vaultBalance,
          paidTo |-> paidTo]
EmptyWorld == [allocations |-> [id \in Ids |-> NoAllocation],
               vaultBalance |-> 0,
               paidTo |-> [id \in Ids |-> NoPayment]]

Init ==
    /\ allocations = EmptyWorld.allocations
    /\ vaultBalance = 0
    /\ paidTo = EmptyWorld.paidTo
    /\ verdict \in [Policies -> [Recipients -> Verdicts]]
    /\ pc = "idle"
    /\ call = NoCall
    /\ next = 1
    /\ required = NoFunding
    /\ held = 0
    /\ snapshot = EmptyWorld
    /\ outcome = "none"

-----------------------------------------------------------------------------
(* The call frame, and the ways a transaction ends.                        *)

ClearFrame ==
    /\ pc' = "idle"
    /\ call' = NoCall
    /\ next' = 1
    /\ required' = NoFunding
    /\ held' = 0
    /\ snapshot' = EmptyWorld

Commit ==
    /\ ClearFrame
    /\ outcome' = "ok"

Revert(reason) ==
    /\ ClearFrame
    /\ outcome' = reason
    /\ allocations' = snapshot.allocations
    /\ vaultBalance' = snapshot.vaultBalance
    /\ paidTo' = snapshot.paidTo

Refuse(reason) ==
    /\ outcome' = reason
    /\ UNCHANGED <<world, pc, frame, next>>

-----------------------------------------------------------------------------
(* What the vault asks of others.                                          *)

\* Mutation: a policy that reverts counts as one that allows.
PolicyAllowsOnRevert(r) == verdict[VaultPolicy][r] # "DENY"

\* _policyAllows: a false answer and a revert are caught alike.
PolicyAllows(r) == verdict[VaultPolicy][r] = "ALLOW"

\* token.safeTransfer from the vault: the token asks its own policy first.
TransferSucceeds(r, amount) ==
    /\ verdict[TokenPolicy][r] = "ALLOW"
    /\ vaultBalance >= amount

Transfer(id, r, amount) ==
    /\ vaultBalance' = vaultBalance - amount
    /\ paidTo' = [paidTo EXCEPT ![id][r] = @ + amount]

-----------------------------------------------------------------------------
(* distribute.                                                             *)

Size == Len(call.ids)
SameLengths(c) ==
    /\ Len(c.ids) # 0
    /\ Len(c.recipients) = Len(c.ids)
    /\ Len(c.amounts) = Len(c.ids)

RefuseDistribute(caller, c) ==
    /\ pc = "idle"
    /\ \/ caller # Owner /\ Refuse("OwnableUnauthorizedAccount")
       \/ caller = Owner /\ ~SameLengths(c) /\ Refuse("InvalidArrayLengths")
    /\ UNCHANGED verdict

BeginDistribute(caller, c) ==
    /\ pc = "idle"
    /\ caller = Owner
    /\ SameLengths(c)
    /\ pc' = "checking"
    /\ call' = c
    /\ next' = 1
    /\ required' = NoFunding
    /\ held' = 0
    /\ snapshot' = World
    /\ UNCHANGED <<world, verdict, outcome>>

ItemInvalid ==
    call.recipients[next] = ZeroAddress \/ call.amounts[next] = 0
\* Mutation: only PAID is taken for a duplicate.
ItemPaid == allocations[call.ids[next]].state = "PAID"

ItemTaken == allocations[call.ids[next]].state # "NONE"
Funding == required[next - 1] + call.amounts[next]

\* Mutation: the sum is not checked for overflow.
CheckItemUnchecked ==
    /\ pc = "checking"
    /\ next <= Size
    /\ ~ItemInvalid
    /\ ~ItemTaken
    /\ required' = [required EXCEPT ![next] = Funding]
    /\ next' = next + 1
    /\ UNCHANGED <<world, verdict, pc, call, held, snapshot, outcome>>

\* One iteration of the first loop that passes.
CheckItem ==
    /\ pc = "checking"
    /\ next <= Size
    /\ ~ItemInvalid
    /\ ~ItemTaken
    /\ Funding <= MaxUint
    /\ required' = [required EXCEPT ![next] = Funding]
    /\ next' = next + 1
    /\ UNCHANGED <<world, verdict, pc, call, held, snapshot, outcome>>

\* One that does not: the first failing test of the iteration decides.
RejectItem ==
    /\ pc = "checking"
    /\ next <= Size
    /\ \/ ItemInvalid /\ Revert("InvalidAllocation")
       \/ ~ItemInvalid /\ ItemTaken /\ Revert("DuplicateAllocation")
       \/ ~ItemInvalid /\ ~ItemTaken /\ Funding > MaxUint /\ Revert("Panic")
    /\ UNCHANGED verdict

\* Mutation: the funding test leaves the last item out.
AcceptBatchShort ==
    /\ pc = "checking"
    /\ next = Size + 1
    /\ vaultBalance >= required[Size - 1]
    /\ pc' = "creating"
    /\ next' = 1
    /\ UNCHANGED <<world, verdict, frame, outcome>>

AcceptBatch ==
    /\ pc = "checking"
    /\ next = Size + 1
    /\ vaultBalance >= required[Size]
    /\ pc' = "creating"
    /\ next' = 1
    /\ UNCHANGED <<world, verdict, frame, outcome>>

RejectUnfunded ==
    /\ pc = "checking"
    /\ next = Size + 1
    /\ vaultBalance < required[Size]
    /\ Revert("InsufficientFunding")
    /\ UNCHANGED verdict

\* The second loop: write READY, ...
CreateItem ==
    /\ pc = "creating"
    /\ next <= Size
    /\ allocations' = [allocations EXCEPT ![call.ids[next]] =
                         [recipient |-> call.recipients[next],
                          amount |-> call.amounts[next],
                          state |-> "READY"]]
    /\ pc' = "deciding"
    /\ UNCHANGED <<vaultBalance, paidTo, verdict, frame, next, outcome>>

\* Mutation: the suspended allocation is written over, not updated.
SuspendItemBlank ==
    /\ pc = "deciding"
    /\ ~PolicyAllows(call.recipients[next])
    /\ allocations' = [allocations EXCEPT ![call.ids[next]] =
                         [NoAllocation EXCEPT !.state = "SUSPENDED"]]
    /\ held' = held + call.amounts[next]
    /\ pc' = "creating"
    /\ next' = next + 1
    /\ UNCHANGED <<vaultBalance, paidTo, verdict, call, required, snapshot,
                   outcome>>

\* ... then suspend and continue, ...
SuspendItem ==
    /\ pc = "deciding"
    /\ ~PolicyAllows(call.recipients[next])
    /\ allocations' = [allocations EXCEPT ![call.ids[next]].state = "SUSPENDED"]
    /\ held' = held + call.amounts[next]
    /\ pc' = "creating"
    /\ next' = next + 1
    /\ UNCHANGED <<vaultBalance, paidTo, verdict, call, required, snapshot,
                   outcome>>

\* Mutation: a paid item stays READY.
PayItemReady ==
    /\ pc = "deciding"
    /\ PolicyAllows(call.recipients[next])
    /\ TransferSucceeds(call.recipients[next], call.amounts[next])
    /\ Transfer(call.ids[next], call.recipients[next], call.amounts[next])
    /\ pc' = "creating"
    /\ next' = next + 1
    /\ UNCHANGED <<allocations, verdict, frame, outcome>>

\* ... or pay.
PayItem ==
    /\ pc = "deciding"
    /\ PolicyAllows(call.recipients[next])
    /\ TransferSucceeds(call.recipients[next], call.amounts[next])
    /\ allocations' = [allocations EXCEPT ![call.ids[next]].state = "PAID"]
    /\ Transfer(call.ids[next], call.recipients[next], call.amounts[next])
    /\ pc' = "creating"
    /\ next' = next + 1
    /\ UNCHANGED <<verdict, frame, outcome>>

\* Mutation: the failed transfer is ignored, and the item marked PAID.
AbortIgnored ==
    /\ pc = "deciding"
    /\ PolicyAllows(call.recipients[next])
    /\ ~TransferSucceeds(call.recipients[next], call.amounts[next])
    /\ allocations' = [allocations EXCEPT ![call.ids[next]].state = "PAID"]
    /\ pc' = "creating"
    /\ next' = next + 1
    /\ UNCHANGED <<vaultBalance, paidTo, verdict, frame, outcome>>

\* Mutation: the failed transfer ends the batch without undoing it.
AbortKeeps ==
    /\ pc = "deciding"
    /\ PolicyAllows(call.recipients[next])
    /\ ~TransferSucceeds(call.recipients[next], call.amounts[next])
    /\ Commit
    /\ UNCHANGED <<world, verdict>>

\* A transfer the token refuses reverts the whole batch.
AbortBatch ==
    /\ pc = "deciding"
    /\ PolicyAllows(call.recipients[next])
    /\ ~TransferSucceeds(call.recipients[next], call.amounts[next])
    /\ Revert("TransferReverted")
    /\ UNCHANGED verdict

FinishDistribute ==
    /\ pc = "creating"
    /\ next = Size + 1
    /\ Commit
    /\ UNCHANGED <<world, verdict>>

-----------------------------------------------------------------------------
(* release.  It has no loop: one step.                                     *)

\* Mutation: any allocation on record can be released.
ReleaseAny(caller, id) ==
    LET a == allocations[id] IN
    /\ pc = "idle"
    /\ caller = Owner
    /\ a.state # "NONE"
    /\ PolicyAllows(a.recipient)
    /\ TransferSucceeds(a.recipient, a.amount)
    /\ allocations' = [allocations EXCEPT ![id].state = "RELEASED"]
    /\ Transfer(id, a.recipient, a.amount)
    /\ outcome' = "ok"
    /\ UNCHANGED <<verdict, pc, frame, next>>

ReleaseSuspended(caller, id) ==
    LET a == allocations[id] IN
    /\ pc = "idle"
    /\ caller = Owner
    /\ a.state = "SUSPENDED"
    /\ PolicyAllows(a.recipient)
    /\ TransferSucceeds(a.recipient, a.amount)
    /\ allocations' = [allocations EXCEPT ![id].state = "RELEASED"]
    /\ Transfer(id, a.recipient, a.amount)
    /\ outcome' = "ok"
    /\ UNCHANGED <<verdict, pc, frame, next>>

RefuseRelease(caller, id) ==
    LET a == allocations[id]
        suspended == a.state = "SUSPENDED" IN
    /\ pc = "idle"
    /\ \/ caller # Owner /\ Refuse("OwnableUnauthorizedAccount")
       \/ caller = Owner /\ ~suspended /\ Refuse("NotSuspended")
       \/ /\ caller = Owner /\ suspended /\ ~PolicyAllows(a.recipient)
          /\ Refuse("StillBlocked")
       \/ /\ caller = Owner /\ suspended /\ PolicyAllows(a.recipient)
          /\ ~TransferSucceeds(a.recipient, a.amount)
          /\ Refuse("TransferReverted")
    /\ UNCHANGED verdict

-----------------------------------------------------------------------------
(* What others do between two transactions of the vault.                   *)

\* Cleanverse changes its mind about a recipient (an A-Pass is frozen,
\* reactivated, or its check starts to revert).
VerdictChange(p, r, v) ==
    /\ pc = "idle"
    /\ verdict' = [verdict EXCEPT ![p][r] = v]
    /\ UNCHANGED <<world, pc, frame, next, outcome>>

\* mint to the vault, or a plain transfer to it
Deposit(amount) ==
    /\ pc = "idle"
    /\ vaultBalance + amount <= MaxBalance
    /\ vaultBalance' = vaultBalance + amount
    /\ UNCHANGED <<allocations, paidTo, verdict, pc, frame, next, outcome>>

\* burn from the vault: the token lets a minter burn from any address
Burn(amount) ==
    /\ pc = "idle"
    /\ vaultBalance >= amount
    /\ vaultBalance' = vaultBalance - amount
    /\ UNCHANGED <<allocations, paidTo, verdict, pc, frame, next, outcome>>

DistributeStep ==
    \/ CheckItem \/ RejectItem \/ AcceptBatch \/ RejectUnfunded
    \/ CreateItem \/ SuspendItem \/ PayItem \/ AbortBatch \/ FinishDistribute

Next ==
    \/ \E caller \in Callers, c \in Calls :
          BeginDistribute(caller, c) \/ RefuseDistribute(caller, c)
    \/ DistributeStep
    \/ \E caller \in Callers, id \in Ids :
          ReleaseSuspended(caller, id) \/ RefuseRelease(caller, id)
    \/ \E p \in Policies, r \in Recipients, v \in Verdicts : VerdictChange(p, r, v)
    \/ \E amount \in Deposits : Deposit(amount)
    \/ \E amount \in Burns : Burn(amount)

Spec == Init /\ [][Next]_vars

-----------------------------------------------------------------------------
(* Properties.                                                             *)

\* What the storage holds as far as anyone outside the transaction can see.
Committed == IF pc = "idle" THEN World ELSE snapshot

Distinct(c) ==
    \A j, k \in 1 .. Len(c.ids) : c.ids[j] = c.ids[k] => j = k
DistinctCalls == \A c \in Calls : Distinct(c)

\* Every variable keeps its type.
TypeOK ==
    /\ allocations \in [Ids -> Allocations]
    /\ vaultBalance \in Amounts
    /\ paidTo \in [Ids -> [Recipients -> Nat]]
    /\ verdict \in [Policies -> [Recipients -> Verdicts]]
    /\ pc \in {"idle", "checking", "creating", "deciding"}
    /\ call \in Calls \union {NoCall}
    /\ pc # "idle" => call \in Calls /\ SameLengths(call)
    /\ next \in 1 .. MaxBatch + 1
    /\ required \in [0 .. MaxBatch -> Amounts]
    /\ held \in Nat
    /\ snapshot \in Worlds
    /\ outcome \in Outcomes

\* The tokens that left the vault for an allocation are exactly its amount,
\* to its recipient, once it is PAID or RELEASED, and none before: no order of
\* batches, reverts and releases pays an allocation twice, or to anyone else.
PaidExactlyOnce ==
    \A id \in Ids, r \in Recipients :
       paidTo[id][r] =
          IF /\ allocations[id].state \in {"PAID", "RELEASED"}
             /\ r = allocations[id].recipient
          THEN allocations[id].amount
          ELSE 0

\* Once the funding test has passed, the vault covers what is left of the batch
\* and everything the batch has suspended: the loop that pays never runs out of
\* tokens, and a batch ends with its own suspended amounts still in the vault.
BatchCovered ==
    pc \in {"creating", "deciding"} =>
       vaultBalance >= (required[Size] - required[next - 1]) + held

Moves(old, new) ==
    \/ new = old
    \/ old = NoAllocation /\ new.state \in {"PAID", "SUSPENDED"}
    \/ old.state = "SUSPENDED" /\ new = [old EXCEPT !.state = "RELEASED"]
OneWayStep ==
    \A id \in Ids : Moves(Committed.allocations[id], Committed'.allocations[id])

\* An allocation is settled by one transaction, keeps its identifier, recipient
\* and amount for ever, and moves on only from SUSPENDED to RELEASED; READY is
\* never seen from outside.  (SuspenseVault.sol's enum; the protected invariant
\* "same allocation ID and amount persist".)
Lifecycle == [][OneWayStep]_vars

\* The token refuses, by its own policy, a recipient the vault's policy allows.
TokenDisagrees(r) ==
    verdict[VaultPolicy][r] = "ALLOW" /\ verdict[TokenPolicy][r] # "ALLOW"

\* "One blocked is not all blocked": once a batch is accepted, no verdict of the
\* policy, a revert included, and no lack of tokens make the transaction fail;
\* only a token that asks another policy, and gets another answer, does.
BlockedNeverAborts ==
    [][(pc \in {"creating", "deciding"} /\ pc' = "idle") =>
          outcome' = "ok" \/ TokenDisagrees(call.recipients[next])]_vars

\* Every item of a batch that commits is on record, with the recipient and the
\* amount the caller gave.
ItemsOnRecord ==
    [][(pc = "creating" /\ pc' = "idle") =>
          \A k \in 1 .. Size :
             LET a == allocations'[call.ids[k]]
             IN  a.recipient = call.recipients[k] /\ a.amount = call.amounts[k]]_vars

=============================================================================
