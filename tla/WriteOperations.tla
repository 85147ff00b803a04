--------------------------- MODULE WriteOperations ---------------------------
(***************************************************************************)
(* The write endpoints, api/fund.js, api/distribute.js and api/release.js, *)
(* with the write context and the replay keys they share: serverless       *)
(* invocations that run concurrently, keep their only common memory in     *)
(* Redis and on the chain, and can lose any answer from either.            *)
(*                                                                         *)
(* A request advances from one await to the next.  The chain executes a    *)
(* transaction of the vault in one step (SuspenseVault.tla justifies it);  *)
(* every allocation is of one token, as the server asks.                   *)
(***************************************************************************)
EXTENDS ReplayKeys, Sequences

CONSTANTS
    Requests,    \* invocations of the three handlers
    Cohort,      \* DEMO_COHORT: the holders, in order
    Bodies,      \* what the requests may ask
    Earlier,     \* operations that may have been distributed before
    NoTarget,    \* a release body without an allocationId
    MaxFunds     \* BOUND: tokens in the vault

Holders == {Cohort[i] : i \in 1 .. Len(Cohort)}
Allocs == Operations \X Holders

ASSUME WriteConstants ==
    /\ IsFiniteSet(Requests)
    /\ Scopes \subseteq {"fund", "distribute", "release"}
    /\ Cohort \in Seq(Holders) /\ Len(Cohort) > 0
    /\ \A i, j \in 1 .. Len(Cohort) : Cohort[i] = Cohort[j] => i = j
    /\ Earlier \subseteq Operations
    /\ NoTarget \notin Allocs
    /\ MaxFunds \in Nat
    /\ Bodies \subseteq [kind : Scopes, op : Operations,
                         target : Allocs \union {NoTarget}, dryRun : BOOLEAN]

VARIABLES
    pc,        \* the await each request is at
    body,      \* what it asks
    previewed, \* how many holders it has previewed
    shortfall, \* how many tokens it found the vault to lack (fund)
    answer,    \* what it answers, or will when the key is marked FAILED
    cause,     \* what made its try block throw
    tx,        \* the transaction each request has sent
    alloc,     \* allocation states of the vault
    paid,      \* tokens paid for each allocation
    funds,     \* tokens in the vault
    verdict    \* the policy's answer for each holder

server == <<pc, body, previewed, shortfall, answer, cause>>
chain == <<alloc, paid, funds, verdict>>
vars == <<server, redis, tx, chain>>

Verdicts == {"ALLOW", "DENY", "REVERT"}
Running == {"preflight", "reserve", "context", "balance", "signer", "simulate",
            "lookup", "preview", "mark", "send", "wait", "confirm", "reread",
            "funded", "failing"}
Answers == {"none", "REFUSED", "DUPLICATE_OPERATION_ID", "REPLAY_UNAVAILABLE",
            "CHAIN_MISMATCH", "UNCAUGHT", "INVALID_REQUEST", "SIGNER",
            "NOT_SUSPENDED", "STILL_BLOCKED", "FAILED", "DRY_RUN", "OK"}
Causes == {"none", "policyRevert", "rpc", "wouldRevert", "txReverted"}

NoBody == [kind |-> "none", op |-> NoTarget, target |-> NoTarget, dryRun |-> FALSE]
Key(r) == <<body[r].kind, body[r].op>>
Batch(op) == {op} \X Holders

Init ==
    /\ pc = [r \in Requests |-> "idle"]
    /\ body = [r \in Requests |-> NoBody]
    /\ previewed = [r \in Requests |-> 0]
    /\ shortfall = [r \in Requests |-> 0]
    /\ answer = [r \in Requests |-> "none"]
    /\ cause = [r \in Requests |-> "none"]
    /\ InitKeys
    /\ tx = [r \in Requests |-> "none"]
    /\ \E settled \in SUBSET Earlier :
          alloc \in {f \in [Allocs -> {"NONE", "PAID", "SUSPENDED"}] :
                        \A a \in Allocs : f[a] = "NONE" <=> a[1] \notin settled}
    /\ paid = [a \in Allocs |-> IF alloc[a] = "PAID" THEN 1 ELSE 0]
    /\ funds \in 0 .. MaxFunds
    /\ verdict \in [Holders -> Verdicts]

-----------------------------------------------------------------------------
(* Moving a request.                                                       *)

Step(r, to) == pc' = [pc EXCEPT ![r] = to]

Goes(r, to) ==
    /\ Step(r, to)
    /\ UNCHANGED <<body, previewed, shortfall, answer, cause>>

\* The handler answers and returns.
Answer(r, a) ==
    /\ Step(r, "done")
    /\ answer' = [answer EXCEPT ![r] = a]
    /\ UNCHANGED <<body, previewed, shortfall, cause>>

\* The handler will mark its key FAILED, then answer.
Fail(r, a) ==
    /\ Step(r, "failing")
    /\ answer' = [answer EXCEPT ![r] = a]
    /\ UNCHANGED <<body, previewed, shortfall, cause>>

\* The try block throws: the catch block does the same.
Throw(r, why) ==
    /\ Step(r, "failing")
    /\ answer' = [answer EXCEPT ![r] = "FAILED"]
    /\ cause' = [cause EXCEPT ![r] = why]
    /\ UNCHANGED <<body, previewed, shortfall>>

RpcFails(r) == "rpc" \in Faults /\ Throw(r, "rpc")

-----------------------------------------------------------------------------
(* buildWriteContext.                                                      *)

Receive(r) ==
    /\ pc[r] = "idle"
    /\ Step(r, "preflight")
    /\ \E b \in Bodies : body' = [body EXCEPT ![r] = b]
    /\ UNCHANGED <<previewed, shortfall, answer, cause, redis, tx, chain>>

\* Method, origin, session, rate, vault address, UUID and write gate, none of
\* which touches what is modelled here: the request passes or it does not.
Preflight(r) ==
    /\ pc[r] = "preflight"
    /\ \/ Answer(r, "REFUSED")
       \/ Goes(r, IF body[r].dryRun THEN "context" ELSE "reserve")
    /\ UNCHANGED <<redis, tx, chain>>

ReserveOperationId(r) ==
    LET k == Key(r) IN
    /\ pc[r] = "reserve"
    /\ \/ Reserved(k) /\ Goes(r, "context")
       \/ Duplicate(k) /\ Answer(r, "DUPLICATE_OPERATION_ID")
       \/ Unavailable(k) /\ Answer(r, "REPLAY_UNAVAILABLE")
    /\ UNCHANGED <<tx, chain>>

\* getContracts and the chain id, outside any try block: a failure leaves the
\* key as it is.  Then what the handler does before it needs a signer.
GetContext(r) ==
    LET b == body[r]
        noTarget == b.kind = "release" /\ b.target = NoTarget IN
    /\ pc[r] = "context"
    /\ \/ /\ "rpc" \in Faults
          /\ \/ Answer(r, "UNCAUGHT")
             \/ Answer(r, "CHAIN_MISMATCH")
       \/ noTarget /\ b.dryRun /\ Answer(r, "INVALID_REQUEST")
       \/ noTarget /\ ~b.dryRun /\ Fail(r, "INVALID_REQUEST")
       \/ b.kind = "fund" /\ Goes(r, "balance")
       \/ b.kind # "fund" /\ ~noTarget /\ b.dryRun /\ Answer(r, "DRY_RUN")
       \/ b.kind # "fund" /\ ~noTarget /\ ~b.dryRun /\ Goes(r, "signer")
    /\ UNCHANGED <<redis, tx, chain>>

\* fund: decimals, symbol and balance of the vault, and the shortfall to mint.
\* A dry run ends here, as does a request that finds the vault funded.
ReadBalance(r) ==
    LET lacking == IF funds >= Len(Cohort) THEN 0 ELSE Len(Cohort) - funds IN
    /\ pc[r] = "balance"
    /\ \/ body[r].dryRun /\ "rpc" \in Faults /\ Answer(r, "FAILED")
       \/ body[r].dryRun /\ Answer(r, "DRY_RUN")
       \/ ~body[r].dryRun /\ RpcFails(r)
       \/ ~body[r].dryRun /\ lacking = 0 /\ Goes(r, "funded")
       \/ /\ ~body[r].dryRun /\ lacking > 0
          /\ Step(r, "signer")
          /\ shortfall' = [shortfall EXCEPT ![r] = lacking]
          /\ UNCHANGED <<body, previewed, answer, cause>>
    /\ UNCHANGED <<redis, tx, chain>>

\* The demo signer's key is configured for this instance, or not.
GetSigner(r) ==
    /\ pc[r] = "signer"
    /\ \/ Fail(r, "SIGNER")
       \/ Goes(r, CASE body[r].kind = "fund" -> "simulate"
                    [] body[r].kind = "distribute" -> "preview"
                    [] body[r].kind = "release" -> "lookup")
    /\ UNCHANGED <<redis, tx, chain>>

-----------------------------------------------------------------------------
(* The reads before a write.                                               *)

\* release: contract.allocations(allocationId)
LookUp(r) ==
    LET suspended == alloc[body[r].target] = "SUSPENDED" IN
    /\ pc[r] = "lookup"
    /\ \/ RpcFails(r)
       \/ ~suspended /\ Fail(r, "NOT_SUSPENDED")
       \/ suspended /\ Goes(r, "preview")
    /\ UNCHANGED <<redis, tx, chain>>

\* distribute: canTransfer for the next holder.  The answer goes into the reply
\* only; a policy that reverts makes the await throw.
PreviewHolder(r) ==
    LET holder == Cohort[previewed[r] + 1]
        last == previewed[r] + 1 = Len(Cohort) IN
    /\ pc[r] = "preview"
    /\ body[r].kind = "distribute"
    /\ \/ RpcFails(r)
       \/ verdict[holder] = "REVERT" /\ Throw(r, "policyRevert")
       \/ /\ verdict[holder] # "REVERT"
          /\ Step(r, IF last THEN "mark" ELSE "preview")
          /\ previewed' = [previewed EXCEPT ![r] = @ + 1]
          /\ UNCHANGED <<body, shortfall, answer, cause>>
    /\ UNCHANGED <<redis, tx, chain>>

\* release: canTransfer for the allocation's recipient
PreviewRelease(r) ==
    LET v == verdict[body[r].target[2]] IN
    /\ pc[r] = "preview"
    /\ body[r].kind = "release"
    /\ \/ RpcFails(r)
       \/ v = "REVERT" /\ Throw(r, "policyRevert")
       \/ v = "DENY" /\ Fail(r, "STILL_BLOCKED")
       \/ v = "ALLOW" /\ Goes(r, "mark")
    /\ UNCHANGED <<redis, tx, chain>>

\* fund: token.mint.staticCall, which reverts for a signer that may not mint.
SimulateMint(r) ==
    /\ pc[r] = "simulate"
    /\ \/ RpcFails(r)
       \/ Throw(r, "wouldRevert")
       \/ Goes(r, "mark")
    /\ UNCHANGED <<redis, tx, chain>>

-----------------------------------------------------------------------------
(* The vault's view of a transaction: SuspenseVault, one token each.       *)

Distributable(op) ==
    /\ \A a \in Batch(op) : alloc[a] = "NONE"
    /\ funds >= Cardinality(Holders)

\* Mutation: the vault does not need the tokens it releases.
ReleasableUnfunded(a) ==
    /\ alloc[a] = "SUSPENDED"
    /\ verdict[a[2]] = "ALLOW"

\* Mutation: an allocation can be released again.
ReleasableAgain(a) ==
    /\ alloc[a] \in {"SUSPENDED", "RELEASED"}
    /\ verdict[a[2]] = "ALLOW"
    /\ funds >= 1

Releasable(a) ==
    /\ alloc[a] = "SUSPENDED"
    /\ verdict[a[2]] = "ALLOW"
    /\ funds >= 1

\* What the chain may do with a transaction now.  The vault's own it executes or
\* refuses; a mint may go either way: whether the signer is a minter and whether
\* the token's policy admits the vault is not modelled.
Executable(b) ==
    /\ b.kind = "distribute" => Distributable(b.op)
    /\ b.kind = "release" => Releasable(b.target)
Refusable(b) == b.kind = "fund" \/ ~Executable(b)

-----------------------------------------------------------------------------
(* Marking, sending, waiting.                                              *)

\* Mutation: the key is not marked before the transaction is sent.
SendUnmarked(r) ==
    /\ pc[r] = "mark"
    /\ Goes(r, "send")
    /\ UNCHANGED <<redis, tx, chain>>

MarkSubmitted(r) ==
    /\ pc[r] = "mark"
    /\ Goes(r, "send")
    /\ UpdateOperationState(Key(r), "SUBMITTED")
    /\ UNCHANGED <<tx, chain>>

\* Mutation: the handler does not wait for the receipt.
SendOnly(r) ==
    /\ pc[r] = "send"
    /\ Executable(body[r])
    /\ Goes(r, "confirm")
    /\ tx' = [tx EXCEPT ![r] = "pending"]
    /\ UNCHANGED <<redis, chain>>

\* The wallet estimates gas first, so what would revert now is not sent.  The
\* node may take a transaction and the call still fail.
Send(r) ==
    /\ pc[r] = "send"
    /\ \/ /\ Refusable(body[r])
          /\ Throw(r, "wouldRevert")
          /\ tx' = tx
       \/ /\ Executable(body[r])
          /\ Goes(r, "wait")
          /\ tx' = [tx EXCEPT ![r] = "pending"]
       \/ /\ RpcFails(r)
          /\ \/ tx' = tx
             \/ Executable(body[r]) /\ tx' = [tx EXCEPT ![r] = "pending"]
    /\ UNCHANGED <<redis, chain>>

\* Mutation: a receipt with status 0 is taken for a success.
WaitAnyStatus(r) ==
    /\ pc[r] = "wait"
    /\ \/ tx[r] \in {"mined", "reverted"} /\ Goes(r, "confirm")
       \/ RpcFails(r)
    /\ UNCHANGED <<redis, tx, chain>>

Wait(r) ==
    /\ pc[r] = "wait"
    /\ \/ tx[r] = "mined" /\ Goes(r, "confirm")
       \/ tx[r] = "reverted" /\ Throw(r, "txReverted")
       \/ RpcFails(r)
    /\ UNCHANGED <<redis, tx, chain>>

\* distribute and release answer at once; fund reads the balance once more.
MarkConfirmed(r) ==
    /\ pc[r] = "confirm"
    /\ IF body[r].kind = "fund" THEN Goes(r, "reread") ELSE Answer(r, "OK")
    /\ UpdateOperationState(Key(r), "CONFIRMED")
    /\ UNCHANGED <<tx, chain>>

\* fund: a balance that cannot be read makes the confirmed mint a FAILED one.
ReadBalanceAgain(r) ==
    /\ pc[r] = "reread"
    /\ Answer(r, "OK") \/ RpcFails(r)
    /\ UNCHANGED <<redis, tx, chain>>

\* fund: the vault had enough, and nothing is sent.
MarkFunded(r) ==
    /\ pc[r] = "funded"
    /\ Answer(r, "OK")
    /\ UpdateOperationState(Key(r), "CONFIRMED")
    /\ UNCHANGED <<tx, chain>>

\* The catch block, and the early returns that mark the key first.
MarkFailed(r) ==
    /\ pc[r] = "failing"
    /\ Goes(r, "done")
    /\ UpdateOperationState(Key(r), "FAILED")
    /\ UNCHANGED <<tx, chain>>

-----------------------------------------------------------------------------
(* The chain, the policy, and the platform.                                *)

MineDistribute(r) ==
    LET op == body[r].op
        allowed == {a \in Batch(op) : verdict[a[2]] = "ALLOW"} IN
    /\ tx[r] = "pending"
    /\ body[r].kind = "distribute"
    /\ Distributable(op)
    /\ alloc' = [a \in Allocs |->
                    IF a \notin Batch(op) THEN alloc[a]
                    ELSE IF a \in allowed THEN "PAID" ELSE "SUSPENDED"]
    /\ paid' = [a \in Allocs |-> IF a \in allowed THEN paid[a] + 1 ELSE paid[a]]
    /\ funds' = funds - Cardinality(allowed)
    /\ tx' = [tx EXCEPT ![r] = "mined"]
    /\ UNCHANGED <<server, redis, verdict>>

MineRelease(r) ==
    LET a == body[r].target IN
    /\ tx[r] = "pending"
    /\ body[r].kind = "release"
    /\ Releasable(a)
    /\ alloc' = [alloc EXCEPT ![a] = "RELEASED"]
    /\ paid' = [paid EXCEPT ![a] = @ + 1]
    /\ funds' = funds - 1
    /\ tx' = [tx EXCEPT ![r] = "mined"]
    /\ UNCHANGED <<server, redis, verdict>>

\* Mints what the request found lacking when it read the balance.
MineMint(r) ==
    /\ tx[r] = "pending"
    /\ body[r].kind = "fund"
    /\ funds + shortfall[r] <= MaxFunds
    /\ funds' = funds + shortfall[r]
    /\ tx' = [tx EXCEPT ![r] = "mined"]
    /\ UNCHANGED <<server, redis, alloc, paid, verdict>>

\* Mined with status 0: the vault or the token reverts.
MineReverted(r) ==
    /\ tx[r] = "pending"
    /\ Refusable(body[r])
    /\ tx' = [tx EXCEPT ![r] = "reverted"]
    /\ UNCHANGED <<server, redis, chain>>

\* Displaced by another transaction with the same nonce, or forgotten.
Drop(r) ==
    /\ tx[r] = "pending"
    /\ "rpc" \in Faults
    /\ tx' = [tx EXCEPT ![r] = "dropped"]
    /\ UNCHANGED <<server, redis, chain>>

VerdictChange(h, v) ==
    /\ verdict' = [verdict EXCEPT ![h] = v]
    /\ UNCHANGED <<server, redis, tx, alloc, paid, funds>>

\* Somebody else mints or transfers a token to the vault.
Deposit ==
    /\ funds < MaxFunds
    /\ funds' = funds + 1
    /\ UNCHANGED <<server, redis, tx, alloc, paid, verdict>>

Expire(k) ==
    /\ ExpireKey(k)
    /\ UNCHANGED <<server, tx, chain>>

\* The platform stops an invocation that takes too long.
Kill(r) ==
    /\ "kill" \in Faults
    /\ pc[r] \in Running
    /\ pc' = [pc EXCEPT ![r] = "killed"]
    /\ UNCHANGED <<body, previewed, shortfall, answer, cause, redis, tx, chain>>

Handler(r) ==
    \/ Preflight(r) \/ ReserveOperationId(r) \/ GetContext(r) \/ GetSigner(r)
    \/ LookUp(r) \/ PreviewHolder(r) \/ PreviewRelease(r) \/ MarkSubmitted(r)
    \/ Send(r) \/ Wait(r) \/ MarkConfirmed(r) \/ MarkFailed(r)
    \/ ReadBalance(r) \/ SimulateMint(r) \/ ReadBalanceAgain(r) \/ MarkFunded(r)

Mine(r) == MineMint(r) \/ MineDistribute(r) \/ MineRelease(r) \/ MineReverted(r)

Next ==
    \/ \E r \in Requests : Receive(r) \/ Handler(r) \/ Kill(r) \/ Mine(r) \/ Drop(r)
    \/ \E k \in Keys : Expire(k)
    \/ \E h \in Holders, v \in Verdicts : VerdictChange(h, v)
    \/ Deposit

Spec == Init /\ [][Next]_vars

\* Redis lets keys expire.  Nothing else is fair: an invocation can be killed
\* or stuck in tx.wait(), and nothing makes the chain mine or a client ask again.
FairSpec == Spec /\ \A k \in Keys : WF_vars(Expire(k))

-----------------------------------------------------------------------------
(* Properties.                                                             *)

\* Every variable keeps its type.
TypeOK ==
    /\ pc \in [Requests -> Running \union {"idle", "done", "killed"}]
    /\ body \in [Requests -> Bodies \union {NoBody}]
    /\ previewed \in [Requests -> 0 .. Len(Cohort)]
    /\ shortfall \in [Requests -> 0 .. Len(Cohort)]
    /\ answer \in [Requests -> Answers]
    /\ cause \in [Requests -> Causes]
    /\ replay \in [Keys -> {Absent} \union [state : OpStates, expires : BOOLEAN]]
    /\ expiries \in [Keys -> 0 .. Cardinality(Requests)]
    /\ tx \in [Requests -> {"none", "pending", "mined", "reverted", "dropped"}]
    /\ alloc \in [Allocs -> {"NONE", "PAID", "SUSPENDED", "RELEASED"}]
    /\ paid \in [Allocs -> Nat]
    /\ funds \in 0 .. MaxFunds
    /\ verdict \in [Holders -> Verdicts]

Sent(k) == {r \in Requests : tx[r] # "none" /\ Key(r) = k}
MinedFor(k) == {r \in Sent(k) : tx[r] = "mined"}

\* An operationId sends one transaction for each time it could be reserved:
\* two invocations never both send for one reservation, whatever Redis or the
\* network loses (reserveOperationId, SET NX).
OneTxPerReservation ==
    \A k \in Keys : Cardinality(Sent(k)) <= 1 + expiries[k]

\* Requests that found the vault funded: they succeed without a transaction.
FundedFor(k) ==
    {r \in Requests : k[1] = "fund" /\ Key(r) = k /\ answer[r] = "OK" /\ tx[r] = "none"}

\* A key says CONFIRMED only if a transaction of its operation was mined and
\* succeeded, not a lost, pending or reverted one; or if it asked for funds and
\* a request of it found the vault funded.
ConfirmedMeansMined ==
    \A k \in Keys :
       replay[k].state = "CONFIRMED" => MinedFor(k) \union FundedFor(k) # {}

\* A caller that is told 200 can rely on it: every holder of the batch has an
\* allocation, or the allocation is released, and stays so.
OkMeansSettled ==
    \A r \in Requests : answer[r] = "OK" =>
       /\ body[r].kind = "distribute" => \A a \in Batch(body[r].op) : alloc[a] # "NONE"
       /\ body[r].kind = "release" => alloc[body[r].target] = "RELEASED"

\* If Redis does not fail and the key has not expired, it never says RESERVED of
\* an operation whose transaction is out.  Once it has expired it can be reserved
\* again, and then says RESERVED beside the first transaction.
SentMeansMarked ==
    "redis" \notin Faults =>
       \A r \in Requests :
          tx[r] # "none" /\ expiries[Key(r)] = 0 =>
             replay[Key(r)].state \in {"SUBMITTED", "CONFIRMED", "FAILED"}

\* "FAILED on tx error", where the error is not a lost answer: if no call of the
\* node fails and the key has not expired, a key says FAILED only when every
\* transaction of its operation has been reverted, and none is still to be mined.
FailedMeansOver ==
    "rpc" \notin Faults =>
       \A k \in Keys :
          replay[k].state = "FAILED" /\ expiries[k] = 0 =>
             \A r \in Sent(k) : tx[r] = "reverted"

\* A key that was reserved and never finished (a killed invocation, a chain
\* mismatch, a lost answer) does not block its operationId for ever.
KeysExpire ==
    \A k \in Keys : (replay[k] # Absent) ~> (replay[k] = Absent)

\* The vault the endpoints share, seen as the ledger of SettlementLedger.
Ledger == INSTANCE SettlementLedger WITH
    Ids <- Allocs,
    Recipients <- Holders,
    NoRecipient <- NoTarget,
    claims <- [a \in Allocs |->
                 [recipient |-> IF alloc[a] = "NONE" THEN NoTarget ELSE a[2],
                  amount |-> IF alloc[a] = "NONE" THEN 0 ELSE 1,
                  status |-> CASE alloc[a] = "NONE" -> "NONE"
                               [] alloc[a] = "SUSPENDED" -> "HELD"
                               [] OTHER -> "SETTLED"]],
    paidTo <- [a \in Allocs |-> [h \in Holders |-> IF h = a[2] THEN paid[a] ELSE 0]],
    verdict <- verdict

\* A batch is settled or held at once and only held allocations are released,
\* each paid once, whatever two operators send at the same time and whatever
\* their invocations believe.
LedgerSteps == [][Ledger!Next]_<<alloc, paid, verdict>>

\* "FAILED on tx error": a key says FAILED only if no transaction of its
\* operation took effect.
FailedMeansNoEffect ==
    \A k \in Keys : replay[k].state = "FAILED" => MinedFor(k) = {}

\* A policy revert for one holder is a suspended allocation, not the failure of
\* the whole distribution.
PolicyRevertSuspends ==
    \A r \in Requests : body[r].kind = "distribute" => cause[r] # "policyRevert"

=============================================================================
