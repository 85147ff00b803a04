----------------------------- MODULE RuntimeDeploy -----------------------------
(***************************************************************************)
(* api/deploy-runtime-vault.js: the armed endpoint that deploys a runtime  *)
(* vault from an account that must never have sent a transaction.  The     *)
(* invocations run concurrently; the account and Redis are what they       *)
(* share.                                                                  *)
(***************************************************************************)
EXTENDS ReplayKeys

CONSTANT Requests    \* invocations of the handler

ASSUME DeployConstants ==
    /\ Scopes = {"deploy-runtime-vault"}
    /\ IsFiniteSet(Requests)

VARIABLES
    pc,     \* the await each invocation is at
    key,    \* its replay key
    answer, \* what it answers, or will when the key is marked FAILED
    used,   \* transactions of the account before the endpoint existed
    tx,     \* the deployment each invocation has sent
    nonce,  \* and its nonce
    late    \* history: invocations since whose arrival the node has always
            \* known of a deployment

server == <<pc, key, answer>>
chain == <<used, tx, nonce>>
vars == <<server, redis, chain, late>>

Running == {"preflight", "reserve", "signer", "nonce", "balance", "deploy",
            "mark", "wait", "confirm", "verify", "failing"}
Answers == {"none", "REFUSED", "DUPLICATE_OPERATION_ID", "REPLAY_UNAVAILABLE",
            "DEPLOYMENT_FAILED", "OK"}
TxStates == {"none", "pending", "evicted", "mined", "reverted"}

Init ==
    /\ pc = [r \in Requests |-> "idle"]
    /\ key \in [Requests -> Keys]
    /\ answer = [r \in Requests |-> "none"]
    /\ used \in {0, 1}
    /\ tx = [r \in Requests |-> "none"]
    /\ nonce = [r \in Requests |-> 0]
    /\ late = {}
    /\ InitKeys

\* The deployments that are in a block, and those the node knows of.
Included == {r \in Requests : tx[r] \in {"mined", "reverted"}}
Known == {r \in Requests : tx[r] = "pending"} \union Included

\* Mutation: the nonce is that of the latest block.
NonceLatest == used + Cardinality(Included)

\* getTransactionCount(signer, 'pending')
Nonce == used + Cardinality(Known)

-----------------------------------------------------------------------------

Step(r, to) ==
    /\ pc' = [pc EXCEPT ![r] = to]
    /\ UNCHANGED <<key, answer, used>>

Goes(r, to) == Step(r, to) /\ late' = late

Answer(r, a) ==
    /\ pc' = [pc EXCEPT ![r] = "done"]
    /\ answer' = [answer EXCEPT ![r] = a]
    /\ UNCHANGED <<key, used, late>>

\* The try block throws, for its own tests or because an await failed.
Throw(r) ==
    /\ pc' = [pc EXCEPT ![r] = "failing"]
    /\ answer' = [answer EXCEPT ![r] = "DEPLOYMENT_FAILED"]
    /\ UNCHANGED <<key, used, late>>

RpcFails(r) == "rpc" \in Faults /\ Throw(r)

Receive(r) ==
    /\ pc[r] = "idle"
    /\ Step(r, "preflight")
    /\ late' = IF Known = {} THEN late ELSE late \union {r}
    /\ UNCHANGED <<redis, tx, nonce>>

\* Method, origin, session, rate, arm, signer key and UUID.
Preflight(r) ==
    /\ pc[r] = "preflight"
    /\ Answer(r, "REFUSED") \/ Goes(r, "reserve")
    /\ UNCHANGED <<redis, tx, nonce>>

ReserveOperationId(r) ==
    /\ pc[r] = "reserve"
    /\ \/ Reserved(key[r]) /\ Goes(r, "signer")
       \/ Duplicate(key[r]) /\ Answer(r, "DUPLICATE_OPERATION_ID")
       \/ Unavailable(key[r]) /\ Answer(r, "REPLAY_UNAVAILABLE")
    /\ UNCHANGED <<tx, nonce>>

\* The signer and the chain are the expected ones, or not.
CheckSigner(r) ==
    /\ pc[r] = "signer"
    /\ Goes(r, "nonce") \/ Throw(r)
    /\ UNCHANGED <<redis, tx, nonce>>

CheckNonce(r) ==
    /\ pc[r] = "nonce"
    /\ \/ Nonce = 0 /\ Goes(r, "balance")
       \/ Nonce # 0 /\ Throw(r)
       \/ RpcFails(r)
    /\ UNCHANGED <<redis, tx, nonce>>

CheckBalance(r) ==
    /\ pc[r] = "balance"
    /\ Goes(r, "deploy") \/ Throw(r)
    /\ UNCHANGED <<redis, tx, nonce>>

\* The wallet asks for the nonce again, and the node accepts the transaction.
Accept(r) ==
    /\ tx' = [tx EXCEPT ![r] = "pending"]
    /\ nonce' = [nonce EXCEPT ![r] = Nonce]

\* factory.deploy, whose answer may be lost.
Deploy(r) ==
    /\ pc[r] = "deploy"
    /\ \/ Goes(r, "mark") /\ Accept(r)
       \/ RpcFails(r) /\ (Accept(r) \/ UNCHANGED <<tx, nonce>>)
    /\ UNCHANGED redis

MarkSubmitted(r) ==
    /\ pc[r] = "mark"
    /\ Goes(r, "wait")
    /\ UpdateOperationState(key[r], "SUBMITTED")
    /\ UNCHANGED <<tx, nonce>>

\* Mutation: a receipt with status 0 is taken for a success.
WaitAnyStatus(r) ==
    /\ pc[r] = "wait"
    /\ \/ tx[r] \in {"mined", "reverted"} /\ Goes(r, "confirm")
       \/ RpcFails(r)
    /\ UNCHANGED <<redis, tx, nonce>>

Wait(r) ==
    /\ pc[r] = "wait"
    /\ \/ tx[r] = "mined" /\ Goes(r, "confirm")
       \/ tx[r] = "reverted" /\ Throw(r)
       \/ RpcFails(r)
    /\ UNCHANGED <<redis, tx, nonce>>

MarkConfirmed(r) ==
    /\ pc[r] = "confirm"
    /\ Goes(r, "verify")
    /\ UpdateOperationState(key[r], "CONFIRMED")
    /\ UNCHANGED <<tx, nonce>>

\* The reads after the receipt: owner, token, policy and code.
VerifyDeployment(r) ==
    /\ pc[r] = "verify"
    /\ Answer(r, "OK") \/ RpcFails(r)
    /\ UNCHANGED <<redis, tx, nonce>>

MarkFailed(r) ==
    /\ pc[r] = "failing"
    /\ Goes(r, "done")
    /\ UpdateOperationState(key[r], "FAILED")
    /\ UNCHANGED <<tx, nonce>>

-----------------------------------------------------------------------------

\* The deployment next in the account's order is mined, or runs out of gas: one
\* the node still has, or one it lost and another node kept.  A pending one with
\* the same nonce is displaced.
Mine(r) ==
    /\ tx[r] \in {"pending", "evicted"}
    /\ nonce[r] = used + Cardinality(Included)
    /\ \E status \in {"mined", "reverted"} :
          tx' = [q \in Requests |->
                   IF q = r THEN status
                   ELSE IF tx[q] = "pending" /\ nonce[q] = nonce[r] THEN "evicted"
                   ELSE tx[q]]
    /\ UNCHANGED <<server, redis, used, nonce, late>>

\* The node loses a pending deployment, or another node answers that never had
\* it; those that wait behind it no longer count either.
Evict(r) ==
    /\ "rpc" \in Faults
    /\ tx[r] = "pending"
    /\ tx' = [q \in Requests |->
                 IF tx[q] = "pending" /\ nonce[q] >= nonce[r] THEN "evicted" ELSE tx[q]]
    /\ late' = IF Known' = {} THEN {} ELSE late
    /\ UNCHANGED <<server, redis, used, nonce>>

Kill(r) ==
    /\ "kill" \in Faults
    /\ pc[r] \in Running
    /\ pc' = [pc EXCEPT ![r] = "killed"]
    /\ UNCHANGED <<key, answer, redis, chain, late>>

Expire(k) ==
    /\ ExpireKey(k)
    /\ UNCHANGED <<server, chain, late>>

Handler(r) ==
    \/ Preflight(r) \/ ReserveOperationId(r) \/ CheckSigner(r) \/ CheckNonce(r)
    \/ CheckBalance(r) \/ Deploy(r) \/ MarkSubmitted(r) \/ Wait(r)
    \/ MarkConfirmed(r) \/ VerifyDeployment(r) \/ MarkFailed(r)

Next ==
    \/ \E r \in Requests : Receive(r) \/ Handler(r) \/ Mine(r) \/ Evict(r) \/ Kill(r)
    \/ \E k \in Keys : Expire(k)

Spec == Init /\ [][Next]_vars

-----------------------------------------------------------------------------
(* Properties.                                                             *)

\* Every variable keeps its type; a key that is there has its expiry.
TypeOK ==
    /\ pc \in [Requests -> Running \union {"idle", "done", "killed"}]
    /\ key \in [Requests -> Keys]
    /\ answer \in [Requests -> Answers]
    /\ replay \in [Keys -> {Absent} \union [state : OpStates, expires : {TRUE}]]
    /\ expiries \in [Keys -> 0 .. Cardinality(Requests)]
    /\ used \in {0, 1}
    /\ tx \in [Requests -> TxStates]
    /\ nonce \in [Requests -> 0 .. 1 + Cardinality(Requests)]
    /\ late \subseteq Requests

\* Whatever becomes of the answers, a key that says CONFIRMED is one a vault
\* was deployed for.
ConfirmedMeansDeployed ==
    \A k \in Keys : replay[k].state = "CONFIRMED" =>
       \E r \in Requests : key[r] = k /\ tx[r] = "mined"

\* While the node knows of a deployment, pending, mined or reverted, no invocation
\* that has arrived since it first did deploys another, under any operationId.
\* Not so when it loses a pending one: the pending nonce is then zero again.
LateNeverDeploys == \A r \in late : tx[r] = "none"

=============================================================================
