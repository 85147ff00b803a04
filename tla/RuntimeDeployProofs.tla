-------------------------- MODULE RuntimeDeployProofs --------------------------
(***************************************************************************)
(* Theorems about the runtime vault deployer, for any number of            *)
(* invocations and of operationIds.                                        *)
(***************************************************************************)
EXTENDS RuntimeDeploy, ReplayKeysProofs

Early == {"idle", "preflight", "reserve"}

TypesInv ==
    /\ pc \in [Requests -> Running \union {"idle", "done", "killed"}]
    /\ key \in [Requests -> Keys]
    /\ answer \in [Requests -> Answers]
    /\ KeysInv
    /\ used \in {0, 1}
    /\ tx \in [Requests -> TxStates]
    /\ nonce \in [Requests -> 0 .. 1 + Cardinality(Requests)]
    /\ late \subseteq Requests

\* The invocations that have called reserveOperationId.  Each reserved its key
\* at most once, which bounds how often the key can expire.
Attempted(k) == {r \in Requests : key[r] = k /\ pc[r] \notin Early}
CountInv == \A k \in Keys : Reservations(k) <= Cardinality(Attempted(k))

\* Whoever marks a key CONFIRMED has seen its deployment mined.
SeenInv == \A r \in Requests : pc[r] = "confirm" => tx[r] = "mined"

\* An invocation has sent nothing before it deploys.
Unsent == Early \union {"signer", "nonce", "balance", "deploy"}
SentInv == \A r \in Requests : pc[r] \in Unsent => tx[r] = "none"

\* An invocation since whose arrival the node has always known of a deployment
\* never gets past the nonce check: it does know of one.
LateInv ==
    \A r \in late :
       /\ Known # {}
       /\ tx[r] = "none"
       /\ pc[r] \in Early \union {"signer", "nonce", "failing", "done", "killed"}

DeployInv ==
    TypesInv /\ CountInv /\ SeenInv /\ SentInv /\ ConfirmedMeansDeployed /\ LateInv

USE DeployConstants

LEMMA InitDeploy == Init => DeployInv
  <1> SUFFICES ASSUME Init PROVE DeployInv
    OBVIOUS
  <1>1. TypesInv
    <2>1. KeysInv
      BY InitKeysInv DEF Init
    <2> QED
      BY <2>1, FS_CardinalityType DEF Init, TypesInv, Answers, Running, TxStates
  <1>2. CountInv
    <2> SUFFICES ASSUME NEW k \in Keys PROVE Reservations(k) <= Cardinality(Attempted(k))
      BY DEF CountInv
    <2>1. Reservations(k) = 0
      BY InitKeysInv DEF Init
    <2> QED
      BY <2>1, SmallerSet DEF Attempted
  <1>3. SeenInv /\ SentInv /\ ConfirmedMeansDeployed /\ LateInv
    BY DEF Init, SeenInv, SentInv, ConfirmedMeansDeployed, LateInv, InitKeys, Absent
  <1> QED
    BY <1>1, <1>2, <1>3 DEF DeployInv

-----------------------------------------------------------------------------
(* What each kind of step does to the parts of the invariant.              *)

\* Nobody comes back before its reservation.
LEMMA CountKept ==
    ASSUME CountInv, TypesInv, TypesInv', key' = key,
           \A r \in Requests : pc[r] \notin Early => pc'[r] \notin Early,
           \A k \in Keys : Reservations(k)' = Reservations(k)
    PROVE  CountInv'
  <1> SUFFICES ASSUME NEW k \in Keys
               PROVE  Reservations(k)' <= Cardinality(Attempted(k)')
    BY DEF CountInv
  <1>1. Attempted(k) \in SUBSET Attempted(k)' /\ Attempted(k)' \in SUBSET Requests
    BY DEF Attempted
  <1>2. /\ Cardinality(Attempted(k)) \in Nat /\ Cardinality(Attempted(k)') \in Nat
        /\ Cardinality(Attempted(k)) <= Cardinality(Attempted(k)')
    BY <1>1, SmallerSet
  <1>3. Reservations(k) <= Cardinality(Attempted(k)) /\ Reservations(k) \in Nat
    BY ReservationsType DEF CountInv, TypesInv
  <1> QED
    BY <1>2, <1>3

\* The node still knows of a deployment, and the late do not deploy.
LEMMA LateKept ==
    ASSUME LateInv, late' = late, TypesInv,
           Known # {} => Known' # {},
           \A r \in late :
              /\ tx'[r] = "none"
              /\ pc'[r] \in Early \union {"signer", "nonce", "failing", "done", "killed"}
    PROVE  LateInv'
  BY DEF LateInv, TypesInv

\* A deployment that was mined stays so, and so does what the keys say of it.
LEMMA DeployedKept ==
    ASSUME ConfirmedMeansDeployed, key' = key,
           \A r \in Requests : tx[r] = "mined" => tx'[r] = "mined",
           \A k \in Keys : replay'[k].state = "CONFIRMED" => replay[k].state = "CONFIRMED"
    PROVE  ConfirmedMeansDeployed'
  BY DEF ConfirmedMeansDeployed

\* A step of one invocation that leaves Redis and its deployment alone.
LEMMA OwnStep ==
    ASSUME DeployInv, NEW r \in Requests, NEW to \in Running \union {"done", "killed"},
           pc' = [pc EXCEPT ![r] = to], to \in Early => pc[r] \in Early,
           to \in Unsent => pc[r] \in Unsent, key' = key, used' = used, late' = late, UNCHANGED <<redis, tx, nonce>>,
           answer' \in [Requests -> Answers],
           to = "confirm" => tx[r] = "mined",
           r \in late => to \in Early \union {"signer", "nonce", "failing", "done", "killed"}
    PROVE  DeployInv'
  <1>1. TypesInv'
    BY DEF DeployInv, TypesInv, KeysInv, redis
  <1>2. \A k \in Keys : Reservations(k)' = Reservations(k)
    BY DEF Reservations, redis
  <1>3. \A q \in Requests : pc[q] \notin Early => pc'[q] \notin Early
    BY DEF DeployInv, TypesInv
  <1>4. CountInv'
    BY <1>1, <1>2, <1>3, CountKept DEF DeployInv
  <1>5. SeenInv' /\ SentInv'
    BY DEF DeployInv, SeenInv, SentInv, TypesInv
  <1>6. ConfirmedMeansDeployed'
    BY DeployedKept DEF DeployInv, redis
  <1>7. \A q \in late :
           /\ tx'[q] = "none"
           /\ pc'[q] \in Early \union {"signer", "nonce", "failing", "done", "killed"}
    BY DEF DeployInv, LateInv, TypesInv
  <1>8. Known' = Known
    BY DEF Known, Included
  <1>9. LateInv'
    BY <1>7, <1>8, LateKept DEF DeployInv
  <1> QED
    BY <1>1, <1>4, <1>5, <1>6, <1>9 DEF DeployInv

LEMMA AnswerType ==
    ASSUME TypesInv, NEW r \in Requests
    PROVE  \A a \in Answers : [answer EXCEPT ![r] = a] \in [Requests -> Answers]
  BY DEF TypesInv

\* A late invocation finds another's deployment under its own nonce.
LEMMA LateFindsNonce ==
    ASSUME DeployInv, NEW r \in late
    PROVE  Nonce # 0
  <1>1. Known # {} /\ Known \in SUBSET Requests
    BY DEF DeployInv, LateInv, Known, Included
  <1>2. Cardinality(Known) \in Nat /\ Cardinality(Known) # 0
    BY <1>1, SmallerSet, FS_EmptySet
  <1> QED
    BY <1>2 DEF Nonce, DeployInv, TypesInv

-----------------------------------------------------------------------------
(* The actions.                                                            *)

LEMMA StepReceive ==
    ASSUME DeployInv, NEW r \in Requests, Receive(r) PROVE DeployInv'
  <1> USE DEF Receive, Step
  <1>1. TypesInv'
    BY DEF DeployInv, TypesInv, KeysInv, redis, Running
  <1>2. CountInv'
    <2>1. \A k \in Keys : Reservations(k)' = Reservations(k)
      BY DEF Reservations, redis
    <2>2. \A q \in Requests : pc[q] \notin Early => pc'[q] \notin Early
      BY DEF DeployInv, TypesInv, Early
    <2> QED
      BY <1>1, <2>1, <2>2, CountKept DEF DeployInv
  <1>3. SeenInv' /\ SentInv'
    BY DEF DeployInv, SeenInv, SentInv, TypesInv, Early, Unsent
  <1>4. ConfirmedMeansDeployed'
    BY DeployedKept DEF DeployInv, redis
  <1>5. LateInv'
    <2>1. pc'[r] = "preflight" /\ \A q \in Requests \ {r} : pc'[q] = pc[q]
      BY DEF DeployInv, TypesInv
    <2>2. Known' = Known
      BY DEF Known, Included
    <2>3. SeenInv /\ LateInv /\ late \subseteq Requests
      BY DEF DeployInv, TypesInv
    <2>4. r \in late' => Known # {}
      BY <2>3 DEF LateInv
    <2> SUFFICES ASSUME NEW q \in late'
                 PROVE  /\ Known # {} /\ tx[q] = "none"
                        /\ pc'[q] \in Early \union {"signer", "nonce", "failing", "done", "killed"}
      BY <2>2 DEF LateInv
    <2>5. CASE q # r
      BY <2>1, <2>3, <2>5 DEF LateInv
    <2>6. CASE q = r
      BY <2>1, <2>4, <2>6 DEF Early, Unsent, DeployInv, SentInv
    <2> QED
      BY <2>5, <2>6
  <1> QED
    BY <1>1, <1>2, <1>3, <1>4, <1>5 DEF DeployInv

LEMMA StepPreflight ==
    ASSUME DeployInv, NEW r \in Requests, Preflight(r) PROVE DeployInv'
  <1> USE DEF Preflight, Answer, Goes, Step, Answers
  <1>1. \/ pc' = [pc EXCEPT ![r] = "done"]
        \/ pc' = [pc EXCEPT ![r] = "reserve"]
    OBVIOUS
  <1>2. answer' \in [Requests -> Answers]
    BY AnswerType DEF DeployInv, TypesInv
  <1> QED
    BY <1>1, <1>2, OwnStep DEF Early, Unsent, Running

LEMMA StepCheckSigner ==
    ASSUME DeployInv, NEW r \in Requests, CheckSigner(r) PROVE DeployInv'
  <1> USE DEF CheckSigner, Throw, Goes, Step, Answers
  <1>1. \/ pc' = [pc EXCEPT ![r] = "nonce"]
        \/ pc' = [pc EXCEPT ![r] = "failing"]
    OBVIOUS
  <1>2. answer' \in [Requests -> Answers]
    BY AnswerType DEF DeployInv, TypesInv
  <1> QED
    BY <1>1, <1>2, OwnStep DEF Early, Unsent, Running

\* The invocations that pass are not late.
LEMMA StepCheckNonce ==
    ASSUME DeployInv, NEW r \in Requests, CheckNonce(r) PROVE DeployInv'
  <1> USE DEF CheckNonce, RpcFails, Throw, Goes, Step, Answers
  <1>1. \/ pc' = [pc EXCEPT ![r] = "balance"] /\ r \notin late
        \/ pc' = [pc EXCEPT ![r] = "failing"]
    BY LateFindsNonce
  <1>2. answer' \in [Requests -> Answers]
    BY AnswerType DEF DeployInv, TypesInv
  <1> QED
    BY <1>1, <1>2, OwnStep DEF Early, Unsent, Running

LEMMA StepCheckBalance ==
    ASSUME DeployInv, NEW r \in Requests, CheckBalance(r) PROVE DeployInv'
  <1> USE DEF CheckBalance, Throw, Goes, Step, Answers
  <1>1. \/ pc' = [pc EXCEPT ![r] = "deploy"]
        \/ pc' = [pc EXCEPT ![r] = "failing"]
    OBVIOUS
  <1>2. answer' \in [Requests -> Answers]
    BY AnswerType DEF DeployInv, TypesInv
  <1>3. r \notin late
    BY DEF DeployInv, LateInv, Early
  <1> QED
    BY <1>1, <1>2, <1>3, OwnStep DEF Early, Unsent, Running

LEMMA StepWait ==
    ASSUME DeployInv, NEW r \in Requests, Wait(r) PROVE DeployInv'
  <1> USE DEF Wait, RpcFails, Throw, Goes, Step, Answers
  <1>1. \/ pc' = [pc EXCEPT ![r] = "confirm"] /\ tx[r] = "mined"
        \/ pc' = [pc EXCEPT ![r] = "failing"]
    OBVIOUS
  <1>2. answer' \in [Requests -> Answers]
    BY AnswerType DEF DeployInv, TypesInv
  <1>3. r \notin late
    BY DEF DeployInv, LateInv, Early
  <1> QED
    BY <1>1, <1>2, <1>3, OwnStep DEF Early, Unsent, Running

LEMMA StepVerifyDeployment ==
    ASSUME DeployInv, NEW r \in Requests, VerifyDeployment(r) PROVE DeployInv'
  <1> USE DEF VerifyDeployment, RpcFails, Answer, Throw, Step, Answers
  <1>1. \/ pc' = [pc EXCEPT ![r] = "done"]
        \/ pc' = [pc EXCEPT ![r] = "failing"]
    OBVIOUS
  <1>2. answer' \in [Requests -> Answers]
    BY AnswerType DEF DeployInv, TypesInv
  <1> QED
    BY <1>1, <1>2, OwnStep DEF Early, Unsent, Running

LEMMA StepKill ==
    ASSUME DeployInv, NEW r \in Requests, Kill(r) PROVE DeployInv'
  <1>1. /\ pc' = [pc EXCEPT ![r] = "killed"]
        /\ UNCHANGED <<key, answer, redis, used, tx, nonce, late>>
    BY DEF Kill, chain
  <1> QED
    BY <1>1, OwnStep DEF Early, Unsent, Running, DeployInv, TypesInv

\* The requests that have called reserveOperationId are one more, and so may be
\* the reservations.
LEMMA StepReserve ==
    ASSUME DeployInv, NEW r \in Requests, ReserveOperationId(r) PROVE DeployInv'
  <1>0. PICK k \in Keys : k = key[r]
    BY DEF DeployInv, TypesInv
  <1>1. pc[r] = "reserve" /\ KeysInv
    BY DEF ReserveOperationId, DeployInv, TypesInv
  <1>2. PICK to \in {"signer", "done"} : pc' = [pc EXCEPT ![r] = to]
    BY DEF ReserveOperationId, Goes, Step, Answer
  <1>3. UNCHANGED <<key, used, tx, nonce, late>> /\ answer' \in [Requests -> Answers]
    <2>1. \/ answer' = answer
          \/ \E a \in Answers : answer' = [answer EXCEPT ![r] = a]
      BY DEF ReserveOperationId, Goes, Step, Answer, Answers
    <2> QED
      BY <2>1, AnswerType DEF ReserveOperationId, Goes, Step, Answer, DeployInv, TypesInv
  <1>4. \/ Reserve(k) /\ UNCHANGED expiries
        \/ UNCHANGED redis
    BY <1>0 DEF ReserveOperationId, Reserved, Duplicate, Unavailable, redis
  <1>5. /\ KeysInv'
        /\ \A j \in Keys \ {k} : replay'[j] = replay[j]
        /\ \A j \in Keys \ {k} : Reservations(j)' = Reservations(j)
        /\ Reservations(k)' \in {Reservations(k), Reservations(k) + 1}
        /\ replay'[k] = replay[k] \/ replay'[k].state = "RESERVED"
    <2>1. CASE Reserve(k) /\ UNCHANGED expiries
      <3>1. replay'[k] = [state |-> "RESERVED", expires |-> TRUE]
        BY <1>1, <2>1, ReserveCounts
      <3>2. replay'[k].state = "RESERVED"
        BY <3>1
      <3> QED
        BY <1>1, <2>1, <3>2, ReserveCounts
    <2>2. CASE UNCHANGED redis
      <3>1. replay' = replay /\ expiries' = expiries
        BY <2>2 DEF redis
      <3>2. \A j \in Keys : Reservations(j)' = Reservations(j)
        BY <3>1 DEF Reservations
      <3>3. KeysInv'
        BY <1>1, <3>1 DEF KeysInv
      <3> QED
        BY <1>1, <3>1, <3>2, <3>3
    <2> QED
      BY <1>4, <2>1, <2>2
  <1>6. TypesInv'
    BY <1>2, <1>3, <1>5 DEF DeployInv, TypesInv, Running
  <1>7. CountInv'
    <2>1. /\ Attempted(k)' = Attempted(k) \union {r} /\ r \notin Attempted(k)
          /\ \A j \in Keys \ {k} : Attempted(j)' = Attempted(j)
      BY <1>0, <1>1, <1>2, <1>3 DEF Attempted, DeployInv, TypesInv, Early
    <2>2. IsFiniteSet(Attempted(k)) /\ Cardinality(Attempted(k)) \in Nat
      <3>1. Attempted(k) \in SUBSET Requests
        BY DEF Attempted
      <3> QED
        BY <3>1, SmallerSet
    <2>3. Cardinality(Attempted(k)') = Cardinality(Attempted(k)) + 1
      BY <2>1, <2>2, OneMore
    <2>4. Reservations(k) <= Cardinality(Attempted(k)) /\ Reservations(k) \in Nat
      BY <1>1, ReservationsType DEF DeployInv, CountInv
    <2>5. Reservations(k)' <= Cardinality(Attempted(k)')
      BY <2>2, <2>3, <2>4, <1>5
    <2>6. ASSUME NEW j \in Keys \ {k} PROVE Reservations(j)' <= Cardinality(Attempted(j)')
      <3>1. Reservations(j) <= Cardinality(Attempted(j))
        BY DEF DeployInv, CountInv
      <3> QED
        BY <1>5, <2>1, <3>1
    <2> SUFFICES ASSUME NEW j \in Keys PROVE Reservations(j)' <= Cardinality(Attempted(j)')
      BY DEF CountInv
    <2> QED
      BY <2>5, <2>6
  <1>8. SeenInv' /\ SentInv'
    BY <1>1, <1>2, <1>3 DEF DeployInv, SeenInv, SentInv, TypesInv, Early, Unsent
  <1>9. ConfirmedMeansDeployed'
    <2>1. \A j \in Keys : replay'[j].state = "CONFIRMED" => replay[j].state = "CONFIRMED"
      BY <1>5
    <2> QED
      BY <2>1, <1>3, DeployedKept DEF DeployInv
  <1>10. LateInv'
    <2>1. \A q \in late : /\ tx'[q] = "none"
             /\ pc'[q] \in Early \union {"signer", "nonce", "failing", "done", "killed"}
      BY <1>2, <1>3 DEF DeployInv, LateInv, TypesInv
    <2>2. Known' = Known
      BY <1>3 DEF Known, Included
    <2> QED
      BY <2>1, <2>2, <1>3, LateKept DEF DeployInv
  <1> QED
    BY <1>6, <1>7, <1>8, <1>9, <1>10 DEF DeployInv

\* A mark of the key by an invocation that goes on; CONFIRMED is marked by one
\* whose deployment is mined.
LEMMA StepMark ==
    ASSUME DeployInv, NEW r \in Requests, NEW state \in OpStates,
           NEW to \in {"wait", "verify", "done"},
           pc[r] \notin Early, pc' = [pc EXCEPT ![r] = to],
           UpdateOperationState(key[r], state), UNCHANGED <<key, answer, used, tx, nonce, late>>,
           state = "CONFIRMED" => tx[r] = "mined",
           r \in late => to = "done"
    PROVE  DeployInv'
  <1>0. PICK k \in Keys : k = key[r]
    BY DEF DeployInv, TypesInv
  <1>1. KeysInv
    BY DEF DeployInv, TypesInv
  <1>2. /\ KeysInv'
        /\ \A j \in Keys \ {k} : replay'[j] = replay[j]
        /\ replay'[k] = replay[k] \/ replay'[k].state = state
        /\ \A j \in Keys : Reservations(j)' = Reservations(j)
    BY <1>0, <1>1, UpdateKeepsReservations
  <1>3. TypesInv'
    BY <1>2 DEF DeployInv, TypesInv, Running
  <1>4. CountInv'
    <2>1. \A q \in Requests : pc[q] \notin Early => pc'[q] \notin Early
      BY DEF DeployInv, TypesInv, Early
    <2> QED
      BY <1>2, <1>3, <2>1, CountKept DEF DeployInv
  <1>5. SeenInv' /\ SentInv'
    BY DEF DeployInv, SeenInv, SentInv, TypesInv, Early, Unsent
  <1>6. ConfirmedMeansDeployed'
    BY <1>0, <1>2 DEF DeployInv, ConfirmedMeansDeployed
  <1>7. LateInv'
    <2>1. \A q \in late : /\ tx'[q] = "none"
             /\ pc'[q] \in Early \union {"signer", "nonce", "failing", "done", "killed"}
      BY DEF DeployInv, LateInv, TypesInv
    <2>2. Known' = Known
      BY DEF Known, Included
    <2> QED
      BY <2>1, <2>2, LateKept DEF DeployInv
  <1> QED
    BY <1>3, <1>4, <1>5, <1>6, <1>7 DEF DeployInv

LEMMA StepMarks ==
    ASSUME DeployInv, NEW r \in Requests,
           MarkSubmitted(r) \/ MarkConfirmed(r) \/ MarkFailed(r)
    PROVE  DeployInv'
  <1> USE DEF Goes, Step, OpStates, Early
  <1>1. CASE MarkSubmitted(r)
    <2>1. r \notin late
      BY <1>1 DEF MarkSubmitted, DeployInv, LateInv
    <2> QED
      BY <1>1, <2>1, StepMark DEF MarkSubmitted
  <1>2. CASE MarkConfirmed(r)
    <2>1. r \notin late /\ tx[r] = "mined"
      BY <1>2 DEF MarkConfirmed, DeployInv, LateInv, SeenInv
    <2> QED
      BY <1>2, <2>1, StepMark DEF MarkConfirmed
  <1>3. CASE MarkFailed(r)
    BY <1>3, StepMark DEF MarkFailed
  <1> QED
    BY <1>1, <1>2, <1>3

\* The node accepts the deployment, whatever becomes of its answer.
LEMMA StepDeploy ==
    ASSUME DeployInv, NEW r \in Requests, Deploy(r) PROVE DeployInv'
  <1>1. /\ pc[r] = "deploy" /\ UNCHANGED <<key, used, late, redis>>
        /\ Accept(r) \/ UNCHANGED <<tx, nonce>>
        /\ \/ pc' = [pc EXCEPT ![r] = "mark"] /\ answer' = answer
           \/ pc' = [pc EXCEPT ![r] = "failing"]
    BY DEF Deploy, RpcFails, Throw, Goes, Step
  <1>2. r \notin late
    BY <1>1 DEF DeployInv, LateInv, Early
  <1>3. answer' \in [Requests -> Answers]
    BY AnswerType DEF Deploy, RpcFails, Throw, Goes, Step, DeployInv, TypesInv, Answers
  <1>0. tx' \in {tx, [tx EXCEPT ![r] = "pending"]}
    BY <1>1 DEF Accept
  <1>9. nonce' \in [Requests -> 0 .. 1 + Cardinality(Requests)]
    <2>1. Nonce \in 0 .. 1 + Cardinality(Requests)
      <3>1. Known \in SUBSET Requests
        BY DEF Known, Included
      <3>2. /\ Cardinality(Known) \in Nat /\ Cardinality(Requests) \in Nat
            /\ Cardinality(Known) <= Cardinality(Requests)
        BY <3>1, SmallerSet, FS_CardinalityType
      <3>3. used \in {0, 1}
        BY DEF DeployInv, TypesInv
      <3> QED
        BY <3>2, <3>3 DEF Nonce
    <2> QED
      BY <1>1, <2>1 DEF Accept, DeployInv, TypesInv
  <1>4. TypesInv'
    BY <1>0, <1>1, <1>3, <1>9 DEF DeployInv, TypesInv, KeysInv, redis, Running, TxStates
  <1>5. CountInv'
    <2>1. \A k \in Keys : Reservations(k)' = Reservations(k)
      BY <1>1 DEF Reservations, redis
    <2>2. \A q \in Requests : pc[q] \notin Early => pc'[q] \notin Early
      BY <1>1 DEF DeployInv, TypesInv, Early
    <2> QED
      BY <1>1, <1>4, <2>1, <2>2, CountKept DEF DeployInv
  <1>6. SeenInv' /\ SentInv'
    BY <1>0, <1>1 DEF DeployInv, SeenInv, SentInv, TypesInv, Early, Unsent
  <1>10. tx[r] = "none"
    BY <1>1 DEF DeployInv, SentInv, Unsent
  <1>7. ConfirmedMeansDeployed'
    <2>1. \A q \in Requests : tx[q] = "mined" => tx'[q] = "mined"
      BY <1>0, <1>10 DEF DeployInv, TypesInv
    <2> QED
      BY <1>1, <2>1, DeployedKept DEF DeployInv, redis
  <1>8. LateInv'
    <2>1. \A q \in late : tx'[q] = tx[q] /\ pc'[q] = pc[q]
      BY <1>0, <1>1, <1>2 DEF DeployInv, TypesInv
    <2>2. \A q \in Known : tx'[q] = tx[q]
      BY <1>0, <1>10 DEF DeployInv, TypesInv, Known, Included
    <2>3. Known # {} => Known' # {}
      BY <2>2 DEF Known, Included
    <2> QED
      BY <1>1, <2>1, <2>3, LateKept DEF DeployInv, LateInv
  <1> QED
    BY <1>4, <1>5, <1>6, <1>7, <1>8 DEF DeployInv

\* What happens to the account's transactions between the steps of invocations:
\* what is in a block stays there, and nothing is sent.
LEMMA ChainStep ==
    ASSUME DeployInv, UNCHANGED <<pc, key, answer, redis, used, nonce>>,
           tx' \in [Requests -> TxStates],
           \A q \in Requests : tx[q] \in {"none", "mined"} => tx'[q] = tx[q],
           LateInv', late' \subseteq late
    PROVE  DeployInv'
  <1>1. TypesInv'
    BY DEF DeployInv, TypesInv, KeysInv, redis
  <1>2. CountInv'
    <2>1. \A k \in Keys : Reservations(k)' = Reservations(k)
      BY DEF Reservations, redis
    <2> QED
      BY <1>1, <2>1, CountKept DEF DeployInv
  <1>3. SeenInv' /\ SentInv'
    BY DEF DeployInv, SeenInv, SentInv
  <1>4. ConfirmedMeansDeployed'
    BY DeployedKept DEF DeployInv, redis
  <1> QED
    BY <1>1, <1>2, <1>3, <1>4 DEF DeployInv

\* What is mined is known from then on.
LEMMA StepMine ==
    ASSUME DeployInv, NEW r \in Requests, Mine(r) PROVE DeployInv'
  <1>1. PICK status \in {"mined", "reverted"} :
           tx' = [q \in Requests |->
                    IF q = r THEN status
                    ELSE IF tx[q] = "pending" /\ nonce[q] = nonce[r] THEN "evicted"
                    ELSE tx[q]]
    BY DEF Mine
  <1>2. tx[r] \in {"pending", "evicted"} /\ UNCHANGED <<pc, key, answer, redis, used, nonce, late>>
    BY DEF Mine, server
  <1>3. tx' \in [Requests -> TxStates]
    BY <1>1 DEF DeployInv, TypesInv, TxStates
  <1>4. \A q \in Requests : tx[q] \in {"none", "mined"} => tx'[q] = tx[q]
    BY <1>1, <1>2
  <1>5. r \in Known'
    BY <1>1 DEF Known, Included
  <1>6. LateInv'
    BY <1>2, <1>4, <1>5, LateKept DEF DeployInv, LateInv, TypesInv
  <1> QED
    BY <1>2, <1>3, <1>4, <1>6, ChainStep

\* When the node knows of no deployment any more, nobody is late.
LEMMA StepEvict ==
    ASSUME DeployInv, NEW r \in Requests, Evict(r) PROVE DeployInv'
  <1>1. /\ tx' = [q \in Requests |->
                    IF tx[q] = "pending" /\ nonce[q] >= nonce[r] THEN "evicted" ELSE tx[q]]
        /\ late' = IF Known' = {} THEN {} ELSE late
        /\ UNCHANGED <<pc, key, answer, redis, used, nonce>>
    BY DEF Evict, server
  <1>2. tx' \in [Requests -> TxStates]
    BY <1>1 DEF DeployInv, TypesInv, TxStates
  <1>3. \A q \in Requests : tx[q] \in {"none", "mined"} => tx'[q] = tx[q]
    BY <1>1
  <1>4. LateInv'
    BY <1>1, <1>3 DEF DeployInv, LateInv, TypesInv
  <1> QED
    BY <1>1, <1>2, <1>3, <1>4, ChainStep

LEMMA StepExpire ==
    ASSUME DeployInv, NEW k \in Keys, Expire(k) PROVE DeployInv'
  <1>1. UNCHANGED <<pc, key, answer, used, tx, nonce, late>> /\ ExpireKey(k) /\ KeysInv
    BY DEF Expire, server, chain, DeployInv, TypesInv
  <1>2. /\ KeysInv' /\ replay'[k] = Absent
        /\ \A j \in Keys \ {k} : replay'[j] = replay[j]
        /\ \A j \in Keys : Reservations(j)' = Reservations(j)
    BY <1>1, ExpiryKeepsReservations
  <1>3. TypesInv'
    BY <1>1, <1>2 DEF DeployInv, TypesInv
  <1>4. CountInv'
    BY <1>1, <1>2, <1>3, CountKept DEF DeployInv
  <1>5. SeenInv' /\ SentInv'
    BY <1>1 DEF DeployInv, SeenInv, SentInv
  <1>6. ConfirmedMeansDeployed'
    BY <1>1, <1>2 DEF DeployInv, ConfirmedMeansDeployed, Absent
  <1>7. LateInv'
    <2>1. Known' = Known
      BY <1>1 DEF Known, Included
    <2> QED
      BY <1>1, <2>1, LateKept DEF DeployInv, LateInv
  <1> QED
    BY <1>3, <1>4, <1>5, <1>6, <1>7 DEF DeployInv

LEMMA StepDeployInv == DeployInv /\ [Next]_vars => DeployInv'
  <1> SUFFICES ASSUME DeployInv, [Next]_vars PROVE DeployInv'
    OBVIOUS
  <1>1. CASE UNCHANGED vars
    <2>1. UNCHANGED <<pc, key, answer, replay, expiries, used, tx, nonce, late>>
      BY <1>1 DEF vars, server, redis, chain
    <2> QED
      BY <2>1 DEF DeployInv, TypesInv, KeysInv, CountInv, Reservations, Attempted, SeenInv,
                  SentInv, ConfirmedMeansDeployed, LateInv, Known, Included
  <1>2. ASSUME NEW r \in Requests, Receive(r) \/ Mine(r) \/ Evict(r) \/ Kill(r)
        PROVE  DeployInv'
    BY <1>2, StepReceive, StepMine, StepEvict, StepKill
  <1>3. ASSUME NEW r \in Requests, Handler(r)
        PROVE  DeployInv'
    BY <1>3, StepPreflight, StepReserve, StepCheckSigner, StepCheckNonce, StepCheckBalance,
       StepDeploy, StepMarks, StepWait, StepVerifyDeployment DEF Handler
  <1>4. ASSUME NEW k \in Keys, Expire(k)
        PROVE  DeployInv'
    BY <1>4, StepExpire
  <1> QED
    BY <1>1, <1>2, <1>3, <1>4 DEF Next

LEMMA DeployInvAlways == Spec => []DeployInv
  BY InitDeploy, StepDeployInv, PTL DEF Spec

-----------------------------------------------------------------------------
(* The theorems.                                                           *)

\* Every variable of the deployer keeps its type and every replay key that is
\* there its expiry (reserveOperationId sets EX, updateOperationState KEEPTTL);
\* no key expires more often than invocations could reserve it.
THEOREM DeployerTypeCorrect == Spec => []TypeOK
  <1>1. DeployInv => TypeOK
    <2> SUFFICES ASSUME DeployInv PROVE TypeOK
      OBVIOUS
    <2>1. expiries \in [Keys -> 0 .. Cardinality(Requests)]
      <3> SUFFICES ASSUME NEW k \in Keys PROVE expiries[k] \in 0 .. Cardinality(Requests)
        BY DEF DeployInv, TypesInv, KeysInv
      <3>1. Attempted(k) \in SUBSET Requests
        BY DEF Attempted
      <3>2. /\ Cardinality(Attempted(k)) \in Nat /\ Cardinality(Requests) \in Nat
            /\ Cardinality(Attempted(k)) <= Cardinality(Requests)
        BY <3>1, SmallerSet, FS_CardinalityType
      <3>3. expiries[k] \in Nat /\ expiries[k] <= Reservations(k) /\ Reservations(k) \in Nat
        BY ReservationsType DEF DeployInv, TypesInv, KeysInv, Reservations
      <3> QED
        BY <3>2, <3>3 DEF DeployInv, CountInv
    <2>2. replay \in [Keys -> {Absent} \union [state : OpStates, expires : {TRUE}]]
      BY DEF DeployInv, TypesInv, KeysInv, Entries
    <2> QED
      BY <2>1, <2>2 DEF DeployInv, TypesInv, TypeOK
  <1> QED
    BY <1>1, DeployInvAlways, PTL

\* A replay key of the deployer says CONFIRMED only when a deployment of its
\* operationId was mined: the handler marks it after wait() returned a receipt,
\* and no failure of Redis, of an RPC call or of the invocation changes that.
THEOREM ConfirmedDeployment == Spec => []ConfirmedMeansDeployed
  <1>1. DeployInv => ConfirmedMeansDeployed
    BY DEF DeployInv
  <1> QED
    BY <1>1, DeployInvAlways, PTL

\* An invocation since whose arrival the node has always known of a deployment,
\* pending or in a block, sends none: the signer's pending nonce is not zero,
\* whatever Redis has forgotten.  If the node loses a pending one and knows of no
\* other, this no longer binds the invocations that are there.
THEOREM LateInvocationsRefused == Spec => []LateNeverDeploys
  <1>1. DeployInv => LateNeverDeploys
    BY DEF DeployInv, LateInv, LateNeverDeploys
  <1> QED
    BY <1>1, DeployInvAlways, PTL

=============================================================================
