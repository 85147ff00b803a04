------------------------- MODULE WriteOperationsProofs -------------------------
(***************************************************************************)
(* Theorems about the write endpoints, for any number of invocations, of   *)
(* operationIds and of holders, whatever of Redis, the chain and the       *)
(* platform may fail.                                                      *)
(***************************************************************************)
EXTENDS WriteOperations, ReplayKeysProofs, SequenceTheorems

\* Where a request has not called reserveOperationId, ...
Early == {"idle", "preflight", "reserve"}

\* ... where it holds a reservation it has not used, ...
Holding == {"context", "balance", "signer", "simulate", "lookup", "preview",
            "mark", "send", "funded"}

\* ... or will say of it that it failed, ...
Using == Holding \union {"failing"}

\* ... where it has previewed nobody, ...
Fresh == Early \union {"context", "balance", "signer"}

\* ... and where only a request that is no dry run can be.
Armed == {"reserve", "signer", "simulate", "lookup", "preview", "mark", "send",
          "wait", "confirm", "reread", "funded", "failing"}

TypesInv ==
    /\ pc \in [Requests -> Running \union {"idle", "done", "killed"}]
    /\ body \in [Requests -> Bodies \union {NoBody}]
    /\ previewed \in [Requests -> 0 .. Len(Cohort)]
    /\ shortfall \in [Requests -> 0 .. Len(Cohort)]
    /\ answer \in [Requests -> Answers]
    /\ cause \in [Requests -> Causes]
    /\ KeysInv
    /\ tx \in [Requests -> {"none", "pending", "mined", "reverted", "dropped"}]
    /\ alloc \in [Allocs -> {"NONE", "PAID", "SUSPENDED", "RELEASED"}]
    /\ paid \in [Allocs -> Nat]
    /\ funds \in 0 .. MaxFunds
    /\ verdict \in [Holders -> Verdicts]

\* What the place of a request tells of what it asks.
PlaceOK(r) ==
    LET b == body[r] IN
    /\ pc[r] # "idle" => b \in Bodies
    /\ pc[r] \in Armed => ~b.dryRun
    /\ pc[r] \in {"balance", "simulate", "reread", "funded"} => b.kind = "fund"
    /\ pc[r] = "lookup" => b.kind = "release"
    /\ pc[r] \in Holding \ {"context"} /\ b.kind = "release" => b.target \in Allocs
    /\ pc[r] \in Fresh => previewed[r] = 0
    /\ pc[r] = "preview" /\ b.kind = "distribute" => previewed[r] < Len(Cohort)

\* What it tells of its transaction, and what a transaction tells of it.
TxOK(r) ==
    LET b == body[r] IN
    /\ pc[r] \in Early \union Holding => tx[r] = "none"
    /\ pc[r] = "wait" => tx[r] # "none"
    /\ pc[r] \in {"confirm", "reread"} => tx[r] = "mined"
    /\ pc[r] = "failing" => "rpc" \in Faults \/ tx[r] \in {"none", "reverted"}
    /\ tx[r] # "none" =>
          /\ b \in Bodies /\ ~b.dryRun
          /\ b.kind = "release" => b.target \in Allocs

\* A request that says OK is over, and was mined unless it asked for funds.
AnswerOK(r) ==
    answer[r] = "OK" => pc[r] = "done" /\ (tx[r] = "mined" \/ body[r].kind = "fund")

\* What a transaction that was mined did to the vault stays so.
SettledOK(r) ==
    LET b == body[r] IN
    tx[r] = "mined" =>
       /\ b.kind = "distribute" => \A a \in Batch(b.op) : alloc[a] # "NONE"
       /\ b.kind = "release" => alloc[b.target] = "RELEASED"

RequestsInv == \A r \in Requests : PlaceOK(r) /\ TxOK(r) /\ AnswerOK(r) /\ SettledOK(r)

\* The invocations that have called reserveOperationId, or could do without.
\* Each reserved its key at most once, which bounds how often the key expires.
Attempted(k) == {r \in Requests : Key(r) = k /\ pc[r] \notin Early}
CountInv == \A k \in Keys : Reservations(k) <= Cardinality(Attempted(k))

\* The invocations that used the reservation they made of a key, or still can.
Winners(k) ==
    {r \in Requests : /\ Key(r) = k
                      /\ ~body[r].dryRun
                      /\ pc[r] \in Using \/ tx[r] # "none"}
WinnersInv == \A k \in Keys : Cardinality(Winners(k)) <= Reservations(k)

\* If Redis does not fail, the key of an invocation about to send is marked.
MarkedInv ==
    "redis" \notin Faults =>
       \A r \in Requests :
          /\ pc[r] = "send" \/ tx[r] # "none"
          /\ expiries[Key(r)] = 0
          => replay[Key(r)].state \in {"SUBMITTED", "CONFIRMED", "FAILED"}

\* If the node does not fail, the invocation that marked a key FAILED was the
\* only one to use its reservation.
FailedInv ==
    "rpc" \notin Faults =>
       \A k \in Keys :
          replay[k].state = "FAILED" /\ expiries[k] = 0 =>
             \A r \in Winners(k) : tx[r] = "reverted"

WriteInv ==
    /\ TypesInv /\ RequestsInv /\ CountInv /\ WinnersInv
    /\ MarkedInv /\ FailedInv /\ ConfirmedMeansMined

USE WriteConstants

-----------------------------------------------------------------------------
(* The constants and the initial states.                                   *)

LEMMA BodyType ==
    ASSUME NEW b \in Bodies
    PROVE  /\ b.kind \in Scopes /\ b.kind \in {"fund", "distribute", "release"}
           /\ b.op \in Operations /\ b.dryRun \in BOOLEAN
           /\ b.target \in Allocs \union {NoTarget}
           /\ <<b.kind, b.op>> \in Keys
  BY DEF Keys

\* An idle request asks nothing that has a key.
LEMMA KeyOfBody ==
    ASSUME TypesInv, NEW r \in Requests, body[r] \in Bodies
    PROVE  \E k \in Keys : k = Key(r)
  BY BodyType DEF Key

LEMMA CohortFinite ==
    /\ IsFiniteSet(Holders) /\ Cardinality(Holders) \in Nat
    /\ Len(Cohort) \in Nat \ {0}
    /\ \A i \in 1 .. Len(Cohort) : Cohort[i] \in Holders
  <1>1. Len(Cohort) \in Nat \ {0}
    BY LenProperties
  <1>2. [i \in 1 .. Len(Cohort) |-> Cohort[i]] \in Surjection(1 .. Len(Cohort), Holders)
    BY DEF Surjection, Holders
  <1>3. IsFiniteSet(1 .. Len(Cohort))
    BY <1>1, FS_Interval
  <1>4. IsFiniteSet(Holders)
    BY <1>2, <1>3, FS_Surjection
  <1> QED
    BY <1>1, <1>4, FS_CardinalityType DEF Holders

\* The holders paid by a distribution are no more than the cohort.
LEMMA BatchSize ==
    ASSUME NEW op, NEW T \in SUBSET Batch(op)
    PROVE  Cardinality(T) \in Nat /\ Cardinality(T) <= Cardinality(Holders)
  <1>1. [a \in T |-> a[2]] \in Injection(T, Holders)
    BY DEF Injection, IsInjective, Batch
  <1>2. IsFiniteSet(T) /\ Cardinality(T) <= Cardinality(Holders)
    BY <1>1, CohortFinite, FS_Injection
  <1> QED
    BY <1>2, FS_CardinalityType

LEMMA BatchAllocs == \A op \in Operations : Batch(op) \subseteq Allocs
  BY DEF Batch, Allocs

LEMMA InitWrite == Init => WriteInv
  <1> SUFFICES ASSUME Init PROVE WriteInv
    OBVIOUS
  <1>1. KeysInv /\ \A k \in Keys : Reservations(k) = 0
    BY InitKeysInv DEF Init
  <1>2. alloc \in [Allocs -> {"NONE", "PAID", "SUSPENDED", "RELEASED"}]
    BY DEF Init
  <1>3. TypesInv
    BY <1>1, <1>2, CohortFinite DEF Init, TypesInv, Running, Answers, Causes
  <1>4. RequestsInv
    BY DEF Init, RequestsInv, PlaceOK, TxOK, AnswerOK, SettledOK, Armed, Fresh, Early, Holding
  <1>5. CountInv
    <2> SUFFICES ASSUME NEW k \in Keys PROVE Reservations(k) <= Cardinality(Attempted(k))
      BY DEF CountInv
    <2>1. Attempted(k) \in SUBSET Requests
      BY DEF Attempted
    <2> QED
      BY <1>1, <2>1, SmallerSet
  <1>6. WinnersInv
    <2> SUFFICES ASSUME NEW k \in Keys PROVE Cardinality(Winners(k)) <= Reservations(k)
      BY DEF WinnersInv
    <2>1. Winners(k) = {}
      BY DEF Winners, Init, Using, Holding
    <2> QED
      BY <1>1, <2>1, FS_EmptySet
  <1>7. MarkedInv /\ FailedInv /\ ConfirmedMeansMined
    BY DEF Init, InitKeys, Absent, MarkedInv, FailedInv, ConfirmedMeansMined
  <1> QED
    BY <1>3, <1>4, <1>5, <1>6, <1>7 DEF WriteInv

-----------------------------------------------------------------------------
(* What keeps each part of the invariant.                                  *)

\* Nobody comes back before its reservation, ...
LEMMA CountKept ==
    ASSUME CountInv, KeysInv,
           \A q \in Requests : pc[q] \notin Early => pc'[q] \notin Early /\ body'[q] = body[q],
           \A k \in Keys : Reservations(k)' = Reservations(k)
    PROVE  CountInv'
  <1> SUFFICES ASSUME NEW k \in Keys
               PROVE  Reservations(k)' <= Cardinality(Attempted(k)')
    BY DEF CountInv
  <1>1. Attempted(k) \in SUBSET Attempted(k)' /\ Attempted(k)' \in SUBSET Requests
    BY DEF Attempted, Key
  <1>2. /\ Cardinality(Attempted(k)) \in Nat /\ Cardinality(Attempted(k)') \in Nat
        /\ Cardinality(Attempted(k)) <= Cardinality(Attempted(k)')
    BY <1>1, SmallerSet
  <1>3. Reservations(k) <= Cardinality(Attempted(k)) /\ Reservations(k) \in Nat
    BY ReservationsType DEF CountInv
  <1> QED
    BY <1>2, <1>3

\* ... nobody holds a reservation it did not make, ...
LEMMA WinnersKept ==
    ASSUME WinnersInv, KeysInv,
           \A k \in Keys : Winners(k)' \subseteq Winners(k),
           \A k \in Keys : Reservations(k)' = Reservations(k)
    PROVE  WinnersInv'
  <1> SUFFICES ASSUME NEW k \in Keys
               PROVE  Cardinality(Winners(k)') <= Reservations(k)'
    BY DEF WinnersInv
  <1>1. Winners(k) \in SUBSET Requests /\ Winners(k)' \in SUBSET Winners(k)
    BY DEF Winners
  <1>2. /\ Cardinality(Winners(k)) \in Nat /\ Cardinality(Winners(k)') \in Nat
        /\ Cardinality(Winners(k)') <= Cardinality(Winners(k))
    BY <1>1, SmallerSet
  <1>3. Cardinality(Winners(k)) <= Reservations(k) /\ Reservations(k) \in Nat
    BY ReservationsType DEF WinnersInv
  <1> QED
    BY <1>2, <1>3

\* ... what reverted stays so, ...
LEMMA FailedKept ==
    ASSUME FailedInv,
           \A q \in Requests : tx[q] = "reverted" => tx'[q] = "reverted",
           \A k \in Keys : replay'[k].state = "FAILED" /\ expiries'[k] = 0 =>
              /\ replay[k].state = "FAILED" /\ expiries[k] = 0
              /\ Winners(k)' \subseteq Winners(k)
    PROVE  FailedInv'
  <1> SUFFICES ASSUME "rpc" \notin Faults, NEW k \in Keys,
                      replay'[k].state = "FAILED", expiries'[k] = 0,
                      NEW r \in Winners(k)'
               PROVE  tx'[r] = "reverted"
    BY DEF FailedInv
  <1>1. r \in Winners(k) /\ r \in Requests
    BY DEF Winners
  <1> QED
    BY <1>1 DEF FailedInv

\* ... the grounds of a key that says CONFIRMED stay, ...
LEMMA ConfirmedKept ==
    ASSUME ConfirmedMeansMined,
           \A q \in Requests : tx[q] = "mined" => tx'[q] = "mined" /\ body'[q] = body[q],
           \A q \in Requests : answer[q] = "OK" /\ tx[q] = "none" =>
              answer'[q] = "OK" /\ tx'[q] = "none" /\ body'[q] = body[q],
           \A k \in Keys : replay'[k].state = "CONFIRMED" =>
              replay[k].state = "CONFIRMED" \/ (MinedFor(k) \union FundedFor(k))' # {}
    PROVE  ConfirmedMeansMined'
  <1> SUFFICES ASSUME NEW k \in Keys, replay[k].state = "CONFIRMED"
               PROVE  MinedFor(k)' \union FundedFor(k)' # {}
    BY DEF ConfirmedMeansMined
  <1>1. MinedFor(k) \union FundedFor(k) # {}
    BY DEF ConfirmedMeansMined
  <1>2. MinedFor(k) \subseteq MinedFor(k)' /\ FundedFor(k) \subseteq FundedFor(k)'
    BY DEF MinedFor, Sent, FundedFor, Key
  <1> QED
    BY <1>1, <1>2

\* ... and so does what the other requests found.
LEMMA RequestsKept ==
    ASSUME RequestsInv, NEW r \in Requests,
           \A q \in Requests \ {r} :
              /\ pc'[q] = pc[q] /\ body'[q] = body[q] /\ previewed'[q] = previewed[q]
              /\ answer'[q] = answer[q] /\ tx'[q] = tx[q],
           \A a \in Allocs : /\ alloc[a] # "NONE" => alloc'[a] # "NONE"
                             /\ alloc[a] = "RELEASED" => alloc'[a] = "RELEASED",
           PlaceOK(r)', TxOK(r)', AnswerOK(r)', SettledOK(r)'
    PROVE  RequestsInv'
  <1> SUFFICES ASSUME NEW q \in Requests \ {r}
               PROVE  PlaceOK(q)' /\ TxOK(q)' /\ AnswerOK(q)' /\ SettledOK(q)'
    BY DEF RequestsInv
  <1>1. PlaceOK(q)' /\ TxOK(q)' /\ AnswerOK(q)'
    BY DEF RequestsInv, PlaceOK, TxOK, AnswerOK
  <1>2. SettledOK(q)'
    <2> SUFFICES ASSUME tx[q] = "mined"
                 PROVE  /\ body[q].kind = "distribute" =>
                             \A a \in Batch(body[q].op) : alloc'[a] # "NONE"
                        /\ body[q].kind = "release" => alloc'[body[q].target] = "RELEASED"
      BY DEF SettledOK
    <2>1. /\ body[q] \in Bodies
          /\ body[q].kind = "release" => body[q].target \in Allocs
      BY DEF RequestsInv, TxOK
    <2>2. Batch(body[q].op) \subseteq Allocs
      BY <2>1, BodyType, BatchAllocs
    <2> QED
      BY <2>1, <2>2 DEF RequestsInv, SettledOK
  <1> QED
    BY <1>1, <1>2

-----------------------------------------------------------------------------
(* Steps of one invocation.                                                *)

\* It goes to an await or its end, and only its own record changes.
Moves(r, to) ==
    /\ pc' = [pc EXCEPT ![r] = to]
    /\ body' = body
    /\ previewed' \in [Requests -> 0 .. Len(Cohort)]
    /\ shortfall' \in [Requests -> 0 .. Len(Cohort)]
    /\ answer' \in [Requests -> Answers]
    /\ cause' \in [Requests -> Causes]
    /\ \A q \in Requests \ {r} : previewed'[q] = previewed[q] /\ answer'[q] = answer[q]

LEMMA GoesMoves ==
    ASSUME TypesInv, NEW r \in Requests, NEW to, Goes(r, to)
    PROVE  Moves(r, to) /\ answer' = answer /\ previewed' = previewed
  BY DEF Goes, Step, Moves, TypesInv

LEMMA AnswerMoves ==
    ASSUME TypesInv, NEW r \in Requests, NEW a \in Answers, Answer(r, a)
    PROVE  Moves(r, "done") /\ answer'[r] = a
  BY DEF Answer, Step, Moves, TypesInv

LEMMA FailMoves ==
    ASSUME TypesInv, NEW r \in Requests, NEW a \in Answers, Fail(r, a)
    PROVE  Moves(r, "failing") /\ answer'[r] = a
  BY DEF Fail, Step, Moves, TypesInv

LEMMA ThrowMoves ==
    ASSUME TypesInv, NEW r \in Requests, NEW why \in Causes, Throw(r, why)
    PROVE  Moves(r, "failing") /\ answer'[r] = "FAILED"
  BY DEF Throw, Step, Moves, TypesInv, Answers

\* What a step says of its own request, when it leaves its transaction alone.
LEMMA OwnRequest ==
    ASSUME TypesInv, RequestsInv, NEW r \in Requests, pc[r] \in Running,
           NEW to \in Running \union {"done", "killed"}, Moves(r, to),
           tx' = tx, alloc' = alloc,
           PlaceOK(r)',
           to \in Early \union Holding => pc[r] \in Early \union Holding,
           to = "wait" => tx[r] # "none",
           to \in {"confirm", "reread"} => tx[r] = "mined",
           to = "failing" => "rpc" \in Faults \/ tx[r] \in {"none", "reverted"},
           answer'[r] \in {"OK"} =>
              \/ answer'[r] = answer[r]
              \/ to = "done" /\ (tx[r] = "mined" \/ body[r].kind = "fund")
    PROVE  RequestsInv'
  <1>1. pc'[r] = to /\ body' = body
    BY DEF Moves, TypesInv
  <1>2. \A q \in Requests \ {r} :
           /\ pc'[q] = pc[q] /\ body'[q] = body[q] /\ previewed'[q] = previewed[q]
           /\ answer'[q] = answer[q] /\ tx'[q] = tx[q]
    BY DEF Moves, TypesInv
  <1>3. TxOK(r)'
    BY <1>1 DEF RequestsInv, TxOK
  <1>4. AnswerOK(r)'
    <2>1. answer[r] # "OK"
      BY DEF RequestsInv, AnswerOK, Running
    <2> QED
      BY <1>1, <2>1 DEF AnswerOK
  <1>5. SettledOK(r)'
    BY <1>1 DEF RequestsInv, SettledOK
  <1> QED
    BY <1>2, <1>3, <1>4, <1>5, RequestsKept

\* A step that leaves Redis, the chain and the transactions alone.
LEMMA OwnStep ==
    ASSUME WriteInv, NEW r \in Requests, pc[r] \in Running,
           NEW to \in Running \union {"done", "killed"}, Moves(r, to),
           UNCHANGED <<redis, tx, chain>>,
           PlaceOK(r)',
           to \in Early => pc[r] \in Early,
           to \in Holding => pc[r] \in Holding \/ (pc[r] \in Early /\ body[r].dryRun),
           to \notin {"send", "wait"},
           to \in {"confirm", "reread"} => tx[r] = "mined",
           to = "failing" =>
              /\ pc[r] \in Holding \union {"wait", "reread"}
              /\ "rpc" \in Faults \/ tx[r] \in {"none", "reverted"},
           answer'[r] = "OK" =>
              \/ answer'[r] = answer[r]
              \/ to = "done" /\ (tx[r] = "mined" \/ body[r].kind = "fund")
    PROVE  WriteInv'
  <1> USE DEF WriteInv
  <1>1. TypesInv'
    BY DEF TypesInv, Moves, KeysInv, redis, chain
  <1>2. /\ pc'[r] = to /\ \A q \in Requests \ {r} : pc'[q] = pc[q] /\ answer'[q] = answer[q]
        /\ UNCHANGED <<body, replay, expiries, tx, alloc>>
    BY DEF TypesInv, Moves, redis, chain
  <1>3. \A k \in Keys : Reservations(k)' = Reservations(k)
    BY <1>2 DEF Reservations
  <1>4. RequestsInv'
    BY <1>2, OwnRequest
  <1>5. CountInv'
    <2>1. \A q \in Requests : pc[q] \notin Early => pc'[q] \notin Early /\ body'[q] = body[q]
      BY <1>2
    <2> QED
      BY <1>3, <2>1, CountKept DEF TypesInv
  <1>6. \A k \in Keys : Winners(k)' \subseteq Winners(k)
    BY <1>2 DEF Winners, Using, Key, RequestsInv, TxOK
  <1>7. WinnersInv'
    BY <1>3, <1>6, WinnersKept DEF TypesInv
  <1>8. MarkedInv' /\ FailedInv'
    BY <1>2, <1>6, FailedKept DEF MarkedInv, Key
  <1>9. ConfirmedMeansMined'
    <2>1. answer[r] # "OK"
      BY DEF RequestsInv, AnswerOK, Running
    <2> QED
      BY <1>2, <2>1, ConfirmedKept
  <1> QED
    BY <1>1, <1>4, <1>5, <1>7, <1>8, <1>9

-----------------------------------------------------------------------------
(* The actions that leave Redis, the chain and the transactions alone.     *)

LEMMA StepKill ==
    ASSUME WriteInv, NEW r \in Requests, Kill(r) PROVE WriteInv'
  <1>1. pc[r] \in Running /\ Moves(r, "killed") /\ answer' = answer
    BY DEF Kill, Moves, WriteInv, TypesInv
  <1>2. UNCHANGED <<redis, tx, chain>>
    BY DEF Kill
  <1>3. PlaceOK(r)'
    BY <1>1 DEF PlaceOK, Moves, Armed, Fresh, Early, Holding, Running, WriteInv, RequestsInv, TypesInv
  <1> QED
    BY <1>1, <1>2, <1>3, OwnStep DEF Early, Holding

\* An end of a request that says anything but OK.
LEMMA StepEnds ==
    ASSUME WriteInv, NEW r \in Requests, pc[r] \in Running,
           NEW a \in Answers \ {"OK"}, Answer(r, a), UNCHANGED <<redis, tx, chain>>
    PROVE  WriteInv'
  <1>1. Moves(r, "done") /\ answer'[r] = a
    BY AnswerMoves DEF WriteInv
  <1>2. PlaceOK(r)'
    BY <1>1 DEF PlaceOK, Moves, Armed, Fresh, Early, Holding, Running, WriteInv, RequestsInv, TypesInv
  <1> QED
    BY <1>1, <1>2, OwnStep DEF Early, Holding

\* A failure whose key will be marked: dry runs have no key.
LEMMA StepFails ==
    ASSUME WriteInv, NEW r \in Requests, pc[r] \in Running, ~body[r].dryRun,
           \/ pc[r] \in Holding
           \/ pc[r] = "wait" /\ tx[r] = "reverted"
           \/ pc[r] \in {"wait", "reread"} /\ "rpc" \in Faults,
           \/ \E a \in Answers \ {"OK"} : Fail(r, a)
           \/ \E why \in Causes : Throw(r, why),
           UNCHANGED <<redis, tx, chain>>
    PROVE  WriteInv'
  <1>1. Moves(r, "failing") /\ answer'[r] # "OK"
    BY FailMoves, ThrowMoves DEF WriteInv
  <1>2. PlaceOK(r)'
    BY <1>1 DEF PlaceOK, Moves, Armed, Fresh, Early, Holding, Running, WriteInv, RequestsInv, TypesInv
  <1>3. "rpc" \in Faults \/ tx[r] \in {"none", "reverted"}
    BY DEF WriteInv, RequestsInv, TxOK
  <1> QED
    BY <1>1, <1>2, <1>3, OwnStep DEF Early, Holding, Running

LEMMA StepRpcFails ==
    ASSUME WriteInv, NEW r \in Requests, pc[r] \in Running, ~body[r].dryRun,
           pc[r] \in Holding \union {"wait", "reread"},
           RpcFails(r), UNCHANGED <<redis, tx, chain>>
    PROVE  WriteInv'
  BY StepFails DEF RpcFails, Causes

\* The next await of a request that has not sent anything yet, or has seen its
\* transaction mined.
LEMMA StepGoes ==
    ASSUME WriteInv, NEW r \in Requests, pc[r] \in Running,
           NEW to \in Running, Goes(r, to), UNCHANGED <<redis, tx, chain>>,
           LET b == body[r] IN
              /\ to \in Armed => ~b.dryRun
              /\ to \in {"balance", "simulate", "reread", "funded"} => b.kind = "fund"
              /\ to = "lookup" => b.kind = "release"
              /\ to \in Holding \ {"context"} /\ b.kind = "release" => b.target \in Allocs
              /\ to = "preview" /\ b.kind = "distribute" => previewed[r] < Len(Cohort),
           to \in Early => pc[r] \in Early,
           to \in Fresh => pc[r] \in Fresh,
           to \in Holding => pc[r] \in Holding \/ (pc[r] \in Early /\ body[r].dryRun),
           to \notin {"send", "wait", "failing"},
           to \in {"confirm", "reread"} => tx[r] = "mined"
    PROVE  WriteInv'
  <1>1. Moves(r, to) /\ answer' = answer /\ previewed' = previewed
    BY GoesMoves DEF WriteInv
  <1>2. PlaceOK(r)'
    BY <1>1 DEF PlaceOK, Moves, Running, WriteInv, RequestsInv, TypesInv
  <1> QED
    BY <1>1, <1>2, OwnStep

\* Facts about a request that is under way.
LEMMA UnderWay ==
    ASSUME WriteInv, NEW r \in Requests, pc[r] \in Running
    PROVE  /\ body[r] \in Bodies /\ body[r].dryRun \in BOOLEAN
           /\ body[r].kind \in {"fund", "distribute", "release"}
           /\ PlaceOK(r) /\ TxOK(r)
  BY BodyType DEF WriteInv, RequestsInv, PlaceOK, Running

LEMMA StepPreflight ==
    ASSUME WriteInv, NEW r \in Requests, Preflight(r) PROVE WriteInv'
  <1>1. pc[r] = "preflight" /\ pc[r] \in Running /\ UNCHANGED <<redis, tx, chain>>
    BY DEF Preflight, Running
  <1>2. CASE Answer(r, "REFUSED")
    BY <1>1, <1>2, StepEnds DEF Answers
  <1>3. CASE body[r].dryRun /\ Goes(r, "context")
    BY <1>1, <1>3, StepGoes DEF Running, Armed, Early, Fresh, Holding
  <1>4. CASE ~body[r].dryRun /\ Goes(r, "reserve")
    BY <1>1, <1>4, StepGoes DEF Running, Armed, Early, Fresh, Holding
  <1> QED
    BY <1>2, <1>3, <1>4 DEF Preflight

LEMMA StepGetContext ==
    ASSUME WriteInv, NEW r \in Requests, GetContext(r) PROVE WriteInv'
  <1> DEFINE b == body[r]
             noTarget == b.kind = "release" /\ b.target = NoTarget
  <1>1. /\ pc[r] = "context" /\ pc[r] \in Running /\ UNCHANGED <<redis, tx, chain>>
        /\ b \in Bodies /\ b.dryRun \in BOOLEAN /\ b.kind \in {"fund", "distribute", "release"}
        /\ b.target \in Allocs \union {NoTarget}
    BY UnderWay, BodyType DEF GetContext, Running
  <1>2. CASE \E a \in {"UNCAUGHT", "CHAIN_MISMATCH", "INVALID_REQUEST", "DRY_RUN"} : Answer(r, a)
    BY <1>1, <1>2, StepEnds DEF Answers
  <1>3. CASE ~b.dryRun /\ Fail(r, "INVALID_REQUEST")
    BY <1>1, <1>3, StepFails DEF Answers, Holding
  <1>4. CASE b.kind = "fund" /\ Goes(r, "balance")
    BY <1>1, <1>4, StepGoes DEF Running, Armed, Early, Fresh, Holding
  <1>5. CASE b.kind # "fund" /\ ~noTarget /\ ~b.dryRun /\ Goes(r, "signer")
    BY <1>1, <1>5, StepGoes DEF Running, Armed, Early, Fresh, Holding
  <1> QED
    BY <1>1, <1>2, <1>3, <1>4, <1>5 DEF GetContext

LEMMA StepReadBalance ==
    ASSUME WriteInv, NEW r \in Requests, ReadBalance(r) PROVE WriteInv'
  <1> DEFINE lacking == IF funds >= Len(Cohort) THEN 0 ELSE Len(Cohort) - funds
  <1>1. /\ pc[r] = "balance" /\ pc[r] \in Running /\ UNCHANGED <<redis, tx, chain>>
        /\ body[r] \in Bodies /\ PlaceOK(r)
    BY UnderWay DEF ReadBalance, Running
  <1>2. CASE \E a \in {"FAILED", "DRY_RUN"} : Answer(r, a)
    BY <1>1, <1>2, StepEnds DEF Answers
  <1>3. CASE ~body[r].dryRun /\ RpcFails(r)
    BY <1>1, <1>3, StepRpcFails DEF Holding
  <1>4. CASE ~body[r].dryRun /\ body[r].kind = "fund" /\ Goes(r, "funded")
    BY <1>1, <1>4, StepGoes DEF Running, Armed, Early, Fresh, Holding
  <1>5. CASE /\ ~body[r].dryRun /\ lacking > 0
             /\ Step(r, "signer")
             /\ shortfall' = [shortfall EXCEPT ![r] = lacking]
             /\ UNCHANGED <<body, previewed, answer, cause>>
    <2>1. lacking \in 0 .. Len(Cohort)
      BY CohortFinite DEF WriteInv, TypesInv
    <2>2. Moves(r, "signer") /\ answer' = answer
      BY <1>5, <2>1 DEF Moves, Step, WriteInv, TypesInv
    <2>3. PlaceOK(r)'
      BY <1>1, <1>5, <2>2 DEF PlaceOK, Moves, Armed, Fresh, Early, Holding, WriteInv, TypesInv
    <2> QED
      BY <1>1, <2>2, <2>3, OwnStep DEF Running, Early, Holding
  <1>6. body[r].kind = "fund"
    BY <1>1 DEF PlaceOK
  <1> QED
    BY <1>2, <1>3, <1>4, <1>5, <1>6 DEF ReadBalance

LEMMA StepGetSigner ==
    ASSUME WriteInv, NEW r \in Requests, GetSigner(r) PROVE WriteInv'
  <1>1. /\ pc[r] = "signer" /\ pc[r] \in Running /\ UNCHANGED <<redis, tx, chain>>
        /\ body[r].kind \in {"fund", "distribute", "release"}
        /\ ~body[r].dryRun /\ previewed[r] = 0
        /\ body[r].kind = "release" => body[r].target \in Allocs
    BY UnderWay DEF GetSigner, Running, PlaceOK, Armed, Fresh, Holding
  <1> USE DEF Running, Armed, Early, Fresh, Holding
  <1>2. CASE Fail(r, "SIGNER")
    BY <1>1, <1>2, StepFails DEF Answers, Holding
  <1>3. CASE body[r].kind = "fund" /\ Goes(r, "simulate")
    BY <1>1, <1>3, StepGoes
  <1>4. CASE body[r].kind = "distribute" /\ Goes(r, "preview")
    BY <1>1, <1>4, StepGoes, CohortFinite
  <1>5. CASE body[r].kind = "release" /\ Goes(r, "lookup")
    BY <1>1, <1>5, StepGoes
  <1> QED
    BY <1>1, <1>2, <1>3, <1>4, <1>5 DEF GetSigner

LEMMA StepLookUp ==
    ASSUME WriteInv, NEW r \in Requests, LookUp(r) PROVE WriteInv'
  <1>1. /\ pc[r] = "lookup" /\ pc[r] \in Running /\ UNCHANGED <<redis, tx, chain>>
        /\ body[r].kind = "release" /\ ~body[r].dryRun /\ body[r].target \in Allocs
    BY UnderWay DEF LookUp, Running, PlaceOK, Armed, Holding
  <1>2. CASE RpcFails(r)
    BY <1>1, <1>2, StepRpcFails DEF Holding
  <1>3. CASE Fail(r, "NOT_SUSPENDED")
    BY <1>1, <1>3, StepFails DEF Answers, Holding
  <1>4. CASE Goes(r, "preview")
    BY <1>1, <1>4, StepGoes DEF Running, Armed, Early, Fresh, Holding
  <1> QED
    BY <1>2, <1>3, <1>4 DEF LookUp

LEMMA StepPreviewHolder ==
    ASSUME WriteInv, NEW r \in Requests, PreviewHolder(r) PROVE WriteInv'
  <1> DEFINE to == IF previewed[r] + 1 = Len(Cohort) THEN "mark" ELSE "preview"
  <1>1. /\ pc[r] = "preview" /\ pc[r] \in Running /\ UNCHANGED <<redis, tx, chain>>
        /\ body[r].kind = "distribute" /\ ~body[r].dryRun /\ body[r] \in Bodies
        /\ previewed[r] < Len(Cohort) /\ previewed[r] \in 0 .. Len(Cohort)
    BY UnderWay DEF PreviewHolder, Running, PlaceOK, Armed, WriteInv, TypesInv
  <1>2. CASE RpcFails(r)
    BY <1>1, <1>2, StepRpcFails DEF Holding
  <1>3. CASE Throw(r, "policyRevert")
    BY <1>1, <1>3, StepFails DEF Causes, Holding
  <1>4. CASE /\ Step(r, to)
             /\ previewed' = [previewed EXCEPT ![r] = @ + 1]
             /\ UNCHANGED <<body, shortfall, answer, cause>>
    <2>1. previewed' \in [Requests -> 0 .. Len(Cohort)] /\ previewed'[r] = previewed[r] + 1
      BY <1>1, <1>4, CohortFinite DEF WriteInv, TypesInv
    <2>2. Moves(r, to) /\ answer' = answer
      BY <1>4, <2>1 DEF Moves, Step, WriteInv, TypesInv
    <2>3. PlaceOK(r)'
      BY <1>1, <2>1, <2>2, CohortFinite
         DEF PlaceOK, Moves, Armed, Fresh, Early, Holding, WriteInv, TypesInv
    <2> QED
      BY <1>1, <2>2, <2>3, OwnStep DEF Running, Early, Holding
  <1> QED
    BY <1>2, <1>3, <1>4 DEF PreviewHolder

LEMMA StepPreviewRelease ==
    ASSUME WriteInv, NEW r \in Requests, PreviewRelease(r) PROVE WriteInv'
  <1>1. /\ pc[r] = "preview" /\ pc[r] \in Running /\ UNCHANGED <<redis, tx, chain>>
        /\ body[r].kind = "release" /\ ~body[r].dryRun /\ body[r].target \in Allocs
    BY UnderWay DEF PreviewRelease, Running, PlaceOK, Armed, Holding
  <1>2. CASE RpcFails(r)
    BY <1>1, <1>2, StepRpcFails DEF Holding
  <1>3. CASE Throw(r, "policyRevert") \/ Fail(r, "STILL_BLOCKED")
    BY <1>1, <1>3, StepFails DEF Answers, Causes, Holding
  <1>4. CASE Goes(r, "mark")
    BY <1>1, <1>4, StepGoes DEF Running, Armed, Early, Fresh, Holding
  <1> QED
    BY <1>2, <1>3, <1>4 DEF PreviewRelease

LEMMA StepSimulateMint ==
    ASSUME WriteInv, NEW r \in Requests, SimulateMint(r) PROVE WriteInv'
  <1>1. /\ pc[r] = "simulate" /\ pc[r] \in Running /\ UNCHANGED <<redis, tx, chain>>
        /\ body[r].kind = "fund" /\ ~body[r].dryRun
    BY UnderWay DEF SimulateMint, Running, PlaceOK, Armed
  <1>2. CASE RpcFails(r)
    BY <1>1, <1>2, StepRpcFails DEF Holding
  <1>3. CASE Throw(r, "wouldRevert")
    BY <1>1, <1>3, StepFails DEF Causes, Holding
  <1>4. CASE Goes(r, "mark")
    BY <1>1, <1>4, StepGoes DEF Running, Armed, Early, Fresh, Holding
  <1> QED
    BY <1>2, <1>3, <1>4 DEF SimulateMint

LEMMA StepWait ==
    ASSUME WriteInv, NEW r \in Requests, Wait(r) PROVE WriteInv'
  <1>1. /\ pc[r] = "wait" /\ pc[r] \in Running /\ UNCHANGED <<redis, tx, chain>>
        /\ ~body[r].dryRun
    BY UnderWay DEF Wait, Running, PlaceOK, Armed
  <1>2. CASE RpcFails(r)
    BY <1>1, <1>2, StepRpcFails DEF Holding
  <1>3. CASE tx[r] = "reverted" /\ Throw(r, "txReverted")
    BY <1>1, <1>3, StepFails DEF Causes, Holding
  <1>4. CASE tx[r] = "mined" /\ Goes(r, "confirm")
    BY <1>1, <1>4, StepGoes DEF Running, Armed, Early, Fresh, Holding
  <1> QED
    BY <1>2, <1>3, <1>4 DEF Wait

LEMMA StepReadBalanceAgain ==
    ASSUME WriteInv, NEW r \in Requests, ReadBalanceAgain(r) PROVE WriteInv'
  <1>1. /\ pc[r] = "reread" /\ pc[r] \in Running /\ UNCHANGED <<redis, tx, chain>>
        /\ ~body[r].dryRun /\ tx[r] = "mined"
    BY UnderWay DEF ReadBalanceAgain, Running, PlaceOK, TxOK, Armed
  <1>2. CASE RpcFails(r)
    BY <1>1, <1>2, StepRpcFails DEF Holding
  <1>3. CASE Answer(r, "OK")
    <2>1. Moves(r, "done")
      BY <1>3, AnswerMoves DEF WriteInv, Answers
    <2>2. PlaceOK(r)'
      BY <1>1, <2>1, UnderWay DEF PlaceOK, Moves, Armed, Fresh, Early, Holding, WriteInv, TypesInv
    <2> QED
      BY <1>1, <2>1, <2>2, OwnStep DEF Early, Holding
  <1> QED
    BY <1>2, <1>3 DEF ReadBalanceAgain

-----------------------------------------------------------------------------
(* The actions that reach Redis.                                           *)

\* The invocation that reserves a key is one more that did, and the reservation
\* is its own.
LEMMA StepReserve ==
    ASSUME WriteInv, NEW r \in Requests, ReserveOperationId(r) PROVE WriteInv'
  <1> USE DEF WriteInv
  <1>1. /\ pc[r] = "reserve" /\ pc[r] \in Running /\ UNCHANGED <<tx, chain, body>>
        /\ body[r] \in Bodies /\ ~body[r].dryRun /\ tx[r] = "none" /\ previewed[r] = 0
        /\ answer[r] # "OK" /\ KeysInv
    BY UnderWay DEF ReserveOperationId, Running, PlaceOK, TxOK, AnswerOK, Armed, Early, Fresh,
                    Goes, Answer, TypesInv, RequestsInv
  <1>2. PICK k \in Keys : k = Key(r)
    BY <1>1, KeyOfBody
  <1>3. \/ Moves(r, "context") /\ answer' = answer /\ Reserve(k) /\ UNCHANGED expiries
        \/ Moves(r, "done") /\ answer'[r] # "OK" /\ Reserve(k) /\ UNCHANGED expiries
        \/ Moves(r, "done") /\ answer'[r] # "OK" /\ UNCHANGED redis
    <2>1. CASE Reserved(k) /\ Goes(r, "context")
      BY <2>1, GoesMoves DEF Reserved
    <2>2. CASE Duplicate(k) /\ Answer(r, "DUPLICATE_OPERATION_ID")
      BY <2>2, AnswerMoves DEF Duplicate, Answers
    <2>3. CASE Unavailable(k) /\ Answer(r, "REPLAY_UNAVAILABLE")
      BY <2>3, AnswerMoves DEF Unavailable, Answers, redis
    <2> QED
      BY <1>2, <2>1, <2>2, <2>3 DEF ReserveOperationId
  <1>4. PICK to \in {"context", "done"} : Moves(r, to)
    BY <1>3
  <1>5. /\ pc'[r] = to /\ \A q \in Requests \ {r} : pc'[q] = pc[q] /\ answer'[q] = answer[q]
        /\ answer'[r] # "OK" /\ alloc' = alloc
    BY <1>1, <1>3, <1>4 DEF Moves, TypesInv, chain
  <1>6. \/ Reserve(k) /\ UNCHANGED expiries
        \/ pc'[r] = "done" /\ UNCHANGED redis
    BY <1>3, <1>5 DEF Moves, TypesInv
  <1>7. /\ KeysInv'
        /\ \A j \in Keys \ {k} : replay'[j] = replay[j] /\ Reservations(j)' = Reservations(j)
        /\ \/ Reservations(k)' = Reservations(k) + 1
           \/ Reservations(k)' = Reservations(k) /\ pc'[r] = "done"
        /\ expiries' = expiries
        /\ \/ replay[k] = Absent /\ replay'[k].state = "RESERVED"
           \/ replay'[k] = replay[k]
    <2>1. CASE Reserve(k) /\ UNCHANGED expiries
      <3>1. replay'[k] = [state |-> "RESERVED", expires |-> TRUE]
        BY <1>1, <2>1, ReserveCounts
      <3>2. replay'[k].state = "RESERVED" /\ replay[k] = Absent
        BY <2>1, <3>1 DEF Reserve
      <3> QED
        BY <1>1, <2>1, <3>2, ReserveCounts
    <2>2. CASE pc'[r] = "done" /\ UNCHANGED redis
      <3>1. replay' = replay /\ expiries' = expiries
        BY <2>2 DEF redis
      <3>2. KeysInv' /\ \A j \in Keys : Reservations(j)' = Reservations(j)
        BY <1>1, <3>1 DEF KeysInv, Reservations
      <3> QED
        BY <2>2, <3>1, <3>2
    <2> QED
      BY <1>6, <2>1, <2>2
  <1>8. \A j \in Keys : Reservations(j) \in Nat
    BY <1>1, ReservationsType
  <1>9. TypesInv'
    BY <1>1, <1>4, <1>7 DEF TypesInv, Moves, chain, Running
  <1>10. RequestsInv'
    <2>1. PlaceOK(r)'
      BY <1>1, <1>4, <1>5 DEF PlaceOK, Moves, Armed, Fresh, Early, Holding, RequestsInv, TypesInv,
                              ReserveOperationId, Goes, Answer
    <2> QED
      BY <1>1, <1>4, <1>5, <2>1, OwnRequest DEF Early, Running
  <1>11. CountInv'
    <2>1. /\ Attempted(k)' = Attempted(k) \union {r} /\ r \notin Attempted(k)
          /\ \A j \in Keys \ {k} : Attempted(j)' = Attempted(j)
      BY <1>1, <1>2, <1>5 DEF Attempted, Early, Key
    <2>2. IsFiniteSet(Attempted(k)) /\ Cardinality(Attempted(k)) \in Nat
      <3>1. Attempted(k) \in SUBSET Requests
        BY DEF Attempted
      <3> QED
        BY <3>1, SmallerSet
    <2>3. Cardinality(Attempted(k)') = Cardinality(Attempted(k)) + 1
      BY <2>1, <2>2, OneMore
    <2>4. Reservations(k)' <= Cardinality(Attempted(k)')
      BY <2>2, <2>3, <1>7, <1>8 DEF CountInv
    <2>5. ASSUME NEW j \in Keys \ {k} PROVE Reservations(j)' <= Cardinality(Attempted(j)')
      <3>1. Reservations(j) <= Cardinality(Attempted(j))
        BY DEF CountInv
      <3> QED
        BY <1>7, <2>1, <3>1
    <2> QED
      BY <2>4, <2>5 DEF CountInv
  <1>12. WinnersInv'
    <2>1. /\ Winners(k)' \in SUBSET (Winners(k) \union {r})
          /\ pc'[r] = "done" => Winners(k)' \in SUBSET Winners(k)
          /\ \A j \in Keys \ {k} : Winners(j)' \in SUBSET Winners(j)
      BY <1>1, <1>2, <1>5 DEF Winners, Using, Holding, Key
    <2>2. \A j \in Keys : IsFiniteSet(Winners(j)) /\ Cardinality(Winners(j)) <= Reservations(j)
      <3>1. \A j \in Keys : Winners(j) \in SUBSET Requests
        BY DEF Winners
      <3> QED
        BY <3>1, SmallerSet DEF WinnersInv
    <2>3. /\ Cardinality(Winners(k)') <= Cardinality(Winners(k)) + 1
          /\ pc'[r] = "done" => Cardinality(Winners(k)') <= Cardinality(Winners(k))
          /\ Cardinality(Winners(k)) \in Nat /\ Cardinality(Winners(k)') \in Nat
      BY <2>1, <2>2, AtMostOneMore, SmallerSet
    <2>4. Cardinality(Winners(k)') <= Reservations(k)'
      BY <1>7, <1>8, <2>2, <2>3
    <2>5. ASSUME NEW j \in Keys \ {k} PROVE Cardinality(Winners(j)') <= Reservations(j)'
      <3>1. /\ Cardinality(Winners(j)') <= Cardinality(Winners(j))
            /\ Cardinality(Winners(j)) \in Nat /\ Cardinality(Winners(j)') \in Nat
        BY <2>1, <2>2, SmallerSet, FS_CardinalityType
      <3> QED
        BY <1>7, <1>8, <2>2, <3>1
    <2> QED
      BY <2>4, <2>5 DEF WinnersInv
  <1>13. MarkedInv'
    <2> SUFFICES ASSUME "redis" \notin Faults, NEW q \in Requests,
                        (pc[q] = "send" \/ tx[q] # "none") /\ expiries[Key(q)] = 0
                 PROVE  replay'[Key(q)].state \in {"SUBMITTED", "CONFIRMED", "FAILED"}
      BY <1>1, <1>5, <1>7 DEF MarkedInv, Key
    <2>1. replay[Key(q)].state \in {"SUBMITTED", "CONFIRMED", "FAILED"}
      BY DEF MarkedInv
    <2>2. PICK j \in Keys : j = Key(q)
      <3>1. body[q] \in Bodies
        BY DEF RequestsInv, PlaceOK, TxOK
      <3> QED
        BY <3>1, KeyOfBody
    <2> QED
      BY <1>7, <2>1, <2>2 DEF Absent
  <1>14. FailedInv'
    <2>1. ASSUME NEW j \in Keys, replay'[j].state = "FAILED"
          PROVE  Winners(j)' \subseteq Winners(j) /\ replay'[j] = replay[j]
      <3>1. j # k \/ (replay'[k] = replay[k] /\ pc'[r] = "done")
        <4>1. CASE Reserve(k)
          <5>1. replay'[k] = [state |-> "RESERVED", expires |-> TRUE]
            BY <1>1, <1>7, <4>1, ReserveCounts
          <5>2. replay'[k].state = "RESERVED"
            BY <5>1
          <5> QED
            BY <2>1, <5>2
        <4> QED
          BY <1>6, <4>1 DEF redis
      <3>2. replay'[j] = replay[j]
        BY <1>7, <3>1
      <3> QED
        BY <1>1, <1>2, <1>5, <3>1, <3>2 DEF Winners, Using, Holding, Key
    <2> QED
      BY <1>1, <1>7, <2>1, FailedKept
  <1>15. ConfirmedMeansMined'
    <2>1. \A j \in Keys : replay'[j].state = "CONFIRMED" => replay[j].state = "CONFIRMED"
      BY <1>7
    <2> QED
      BY <1>1, <1>5, <2>1, ConfirmedKept
  <1> QED
    BY <1>9, <1>10, <1>11, <1>12, <1>13, <1>14, <1>15

\* A request with an unused reservation finds its key until it has expired.
LEMMA HolderFindsKey ==
    ASSUME WriteInv, NEW r \in Requests, pc[r] \in Holding, ~body[r].dryRun,
           NEW k \in Keys, k = Key(r), expiries[k] = 0
    PROVE  replay[k] # Absent
  <1>1. r \in Winners(k) /\ Winners(k) \in SUBSET Requests
    BY DEF Winners, Using
  <1>2. Cardinality(Winners(k)) \in Nat /\ Cardinality(Winners(k)) # 0
    BY <1>1, SmallerSet, FS_EmptySet
  <1>3. Cardinality(Winners(k)) <= Reservations(k) /\ Reservations(k) \in Nat
    BY ReservationsType DEF WriteInv, WinnersInv, TypesInv
  <1> QED
    BY <1>2, <1>3 DEF Reservations

\* A mark of the key: before the send, after the receipt, or of a failure.
LEMMA StepMark ==
    ASSUME WriteInv, NEW r \in Requests, NEW state \in {"SUBMITTED", "CONFIRMED", "FAILED"},
           pc[r] \in Running \ Early, NEW to \in {"send", "reread", "done"}, Moves(r, to),
           UpdateOperationState(Key(r), state), UNCHANGED <<tx, chain>>,
           PlaceOK(r)',
           to = "send" => pc[r] = "mark",
           to = "reread" => tx[r] = "mined",
           answer'[r] = "OK" => to = "done" /\ (tx[r] = "mined" \/ body[r].kind = "fund"),
           state = "CONFIRMED" =>
              tx[r] = "mined" \/ (body[r].kind = "fund" /\ answer'[r] = "OK" /\ tx[r] = "none"),
           state = "FAILED" => pc[r] = "failing" /\ to = "done"
    PROVE  WriteInv'
  <1> USE DEF WriteInv
  <1>1. /\ body[r] \in Bodies /\ answer[r] # "OK" /\ KeysInv
        /\ pc'[r] = to /\ \A q \in Requests \ {r} : pc'[q] = pc[q] /\ answer'[q] = answer[q]
        /\ UNCHANGED <<body, tx, alloc>>
    BY UnderWay DEF Moves, TypesInv, RequestsInv, AnswerOK, Running, chain
  <1>2. PICK k \in Keys : k = Key(r)
    BY <1>1, KeyOfBody
  <1>3. /\ KeysInv' /\ expiries' = expiries
        /\ \A j \in Keys \ {k} : replay'[j] = replay[j]
        /\ replay'[k] = replay[k] \/ replay'[k].state = state
        /\ replay[k] # Absent /\ "redis" \notin Faults => replay'[k].state = state
        /\ \A j \in Keys : Reservations(j)' = Reservations(j)
    BY <1>1, <1>2, UpdateKeepsReservations DEF OpStates
  <1>4. TypesInv'
    BY <1>1, <1>3 DEF TypesInv, Moves, chain, Running
  <1>5. RequestsInv'
    BY <1>1, OwnRequest DEF Running, Early, Holding
  <1>6. CountInv'
    <2>1. \A q \in Requests : pc[q] \notin Early => pc'[q] \notin Early /\ body'[q] = body[q]
      BY <1>1 DEF Early
    <2> QED
      BY <1>1, <1>3, <2>1, CountKept
  <1>7. WinnersInv' /\ \A j \in Keys : Winners(j)' \subseteq Winners(j)
    <2>1. \A j \in Keys : Winners(j)' \subseteq Winners(j)
      BY <1>1 DEF Winners, Key, Using, Holding, RequestsInv, TxOK
    <2> QED
      BY <1>1, <1>3, <2>1, WinnersKept
  <1>8. MarkedInv'
    <2> SUFFICES ASSUME "redis" \notin Faults, NEW q \in Requests,
                        (pc'[q] = "send" \/ tx[q] # "none") /\ expiries[Key(q)] = 0
                 PROVE  replay'[Key(q)].state \in {"SUBMITTED", "CONFIRMED", "FAILED"}
      BY <1>1, <1>3 DEF MarkedInv, Key
    <2>1. CASE q = r /\ pc[q] = "mark"
      <3>1. pc[r] \in Holding /\ ~body[r].dryRun
        BY <2>1 DEF RequestsInv, PlaceOK, Holding, Armed
      <3>2. replay[k] # Absent
        BY <1>2, <2>1, <3>1, HolderFindsKey
      <3> QED
        BY <1>2, <1>3, <2>1, <3>2
    <2>2. CASE pc[q] = "send" \/ tx[q] # "none"
      <3>1. replay[Key(q)].state \in {"SUBMITTED", "CONFIRMED", "FAILED"}
        BY <2>2 DEF MarkedInv
      <3>2. PICK j \in Keys : j = Key(q)
        <4>1. body[q] \in Bodies
          BY <2>2 DEF RequestsInv, PlaceOK, TxOK
        <4> QED
          BY <4>1, KeyOfBody
      <3> QED
        BY <1>3, <3>1, <3>2
    <2> QED
      BY <1>1, <2>1, <2>2
  <1>9. FailedInv'
    <2> SUFFICES ASSUME "rpc" \notin Faults, NEW j \in Keys,
                        replay'[j].state = "FAILED", expiries'[j] = 0, NEW q \in Winners(j)'
                 PROVE  tx'[q] = "reverted"
      BY DEF FailedInv
    <2>1. q \in Winners(j) /\ q \in Requests
      BY <1>7 DEF Winners
    <2>2. CASE replay'[j] = replay[j]
      BY <1>1, <1>3, <2>1, <2>2 DEF FailedInv
    <2>3. CASE j = k /\ state = "FAILED"
      <3>1. pc[r] = "failing" /\ ~body[r].dryRun /\ tx[r] \in {"none", "reverted"}
        BY <2>3 DEF RequestsInv, PlaceOK, TxOK, Armed
      <3>2. r \in Winners(j)
        BY <1>2, <2>3, <3>1 DEF Winners, Using
      <3>3. Winners(j) \in SUBSET Requests
        BY DEF Winners
      <3>4. Cardinality(Winners(j)) <= 1
        BY <1>1, <1>3, <3>3, SmallerSet, ReservationsType DEF WinnersInv, Reservations
      <3>5. q = r
        BY <2>1, <3>2, <3>3, <3>4, AtMostOne, SmallerSet
      <3> QED
        BY <1>1, <2>3, <3>1, <3>5 DEF Winners, Using, Holding
    <2> QED
      BY <1>3, <2>2, <2>3
  <1>10. ConfirmedMeansMined'
    <2>1. state = "CONFIRMED" => (MinedFor(k) \union FundedFor(k))' # {}
      <3> SUFFICES ASSUME state = "CONFIRMED" PROVE r \in MinedFor(k)' \union FundedFor(k)'
        OBVIOUS
      <3>1. CASE tx[r] = "mined"
        BY <1>1, <1>2, <3>1 DEF MinedFor, Sent, Key
      <3>2. CASE body[r].kind = "fund" /\ answer'[r] = "OK" /\ tx[r] = "none"
        BY <1>1, <1>2, <3>2 DEF FundedFor, Key
      <3> QED
        BY <3>1, <3>2
    <2>2. \A j \in Keys : replay'[j].state = "CONFIRMED" =>
             replay[j].state = "CONFIRMED" \/ (MinedFor(j) \union FundedFor(j))' # {}
      BY <1>3, <2>1
    <2> QED
      BY <1>1, <2>2, ConfirmedKept
  <1> QED
    BY <1>4, <1>5, <1>6, <1>7, <1>8, <1>9, <1>10

LEMMA StepMarks ==
    ASSUME WriteInv, NEW r \in Requests,
           MarkSubmitted(r) \/ MarkConfirmed(r) \/ MarkFunded(r) \/ MarkFailed(r)
    PROVE  WriteInv'
  <1> USE DEF Running, Early
  <1>1. pc[r] \in Running => /\ PlaceOK(r) /\ TxOK(r) /\ answer[r] # "OK" /\ body[r] \in Bodies
                             /\ body[r].kind \in {"fund", "distribute", "release"}
    BY UnderWay DEF WriteInv, RequestsInv, AnswerOK
  <1> USE <1>1
  <1>2. CASE MarkSubmitted(r)
    <2>1. Moves(r, "send") /\ answer' = answer /\ previewed' = previewed /\ pc[r] = "mark"
      BY <1>2, GoesMoves DEF MarkSubmitted, WriteInv
    <2>2. PlaceOK(r)'
      BY <2>1 DEF PlaceOK, Moves, Armed, Fresh, Holding, WriteInv, TypesInv
    <2> QED
      BY <1>2, <2>1, <2>2, StepMark DEF MarkSubmitted
  <1>3. CASE MarkConfirmed(r)
    <2>1. /\ pc[r] = "confirm" /\ tx[r] = "mined"
          /\ \/ Moves(r, "reread") /\ answer' = answer /\ body[r].kind = "fund"
             \/ Moves(r, "done")
      BY <1>3, GoesMoves, AnswerMoves DEF MarkConfirmed, TxOK, WriteInv, Answers
    <2>2. PlaceOK(r)'
      BY <2>1 DEF PlaceOK, Moves, Armed, Fresh, Holding, WriteInv, TypesInv
    <2> QED
      BY <1>3, <2>1, <2>2, StepMark DEF MarkConfirmed
  <1>4. CASE MarkFunded(r)
    <2>1. /\ pc[r] = "funded" /\ tx[r] = "none" /\ body[r].kind = "fund"
          /\ Moves(r, "done") /\ answer'[r] = "OK"
      BY <1>4, AnswerMoves DEF MarkFunded, PlaceOK, TxOK, Holding, WriteInv, Answers
    <2>2. PlaceOK(r)'
      BY <2>1 DEF PlaceOK, Moves, Armed, Fresh, Holding, WriteInv, TypesInv
    <2> QED
      BY <1>4, <2>1, <2>2, StepMark DEF MarkFunded
  <1>5. CASE MarkFailed(r)
    <2>1. Moves(r, "done") /\ answer' = answer /\ pc[r] = "failing"
      BY <1>5, GoesMoves DEF MarkFailed, WriteInv
    <2>2. PlaceOK(r)'
      BY <2>1 DEF PlaceOK, Moves, Armed, Fresh, Holding, WriteInv, TypesInv
    <2> QED
      BY <1>5, <2>1, <2>2, StepMark DEF MarkFailed
  <1> QED
    BY <1>2, <1>3, <1>4, <1>5

LEMMA StepExpire ==
    ASSUME WriteInv, NEW k \in Keys, Expire(k) PROVE WriteInv'
  <1> USE DEF WriteInv
  <1>1. /\ UNCHANGED <<pc, body, previewed, shortfall, answer, cause, tx>>
        /\ UNCHANGED <<alloc, paid, funds, verdict>> /\ ExpireKey(k) /\ KeysInv
    BY DEF Expire, server, chain, TypesInv
  <1>2. /\ KeysInv' /\ replay'[k] = Absent /\ expiries'[k] = expiries[k] + 1
        /\ \A j \in Keys \ {k} : replay'[j] = replay[j] /\ expiries'[j] = expiries[j]
        /\ \A j \in Keys : Reservations(j)' = Reservations(j)
    BY <1>1, ExpiryKeepsReservations
  <1>3. TypesInv' /\ RequestsInv'
    BY <1>1, <1>2 DEF TypesInv, RequestsInv, PlaceOK, TxOK, AnswerOK, SettledOK
  <1>4. CountInv'
    BY <1>1, <1>2, CountKept
  <1>5. WinnersInv'
    <2>1. \A j \in Keys : Winners(j)' \subseteq Winners(j)
      BY <1>1 DEF Winners, Key
    <2> QED
      BY <1>1, <1>2, <2>1, WinnersKept
  <1>6. MarkedInv'
    <2> SUFFICES ASSUME "redis" \notin Faults, NEW q \in Requests,
                        (pc[q] = "send" \/ tx[q] # "none") /\ expiries'[Key(q)] = 0
                 PROVE  replay'[Key(q)].state \in {"SUBMITTED", "CONFIRMED", "FAILED"}
      BY <1>1 DEF MarkedInv, Key
    <2>1. PICK j \in Keys : j = Key(q)
      <3>1. body[q] \in Bodies
        BY DEF RequestsInv, PlaceOK, TxOK
      <3> QED
        BY <3>1, KeyOfBody
    <2>2. j # k
      BY <1>1, <1>2, <2>1 DEF KeysInv
    <2> QED
      BY <1>2, <2>1, <2>2 DEF MarkedInv
  <1>7. FailedInv'
    <2>1. ASSUME NEW j \in Keys, replay'[j].state = "FAILED"
          PROVE  Winners(j)' \subseteq Winners(j) /\ j # k
      BY <1>1, <1>2, <2>1 DEF Winners, Key, Absent
    <2> QED
      BY <1>1, <1>2, <2>1, FailedKept
  <1>8. ConfirmedMeansMined'
    <2>1. \A j \in Keys : replay'[j].state = "CONFIRMED" => replay[j].state = "CONFIRMED"
      BY <1>2 DEF Absent
    <2> QED
      BY <1>1, <2>1, ConfirmedKept
  <1> QED
    BY <1>3, <1>4, <1>5, <1>6, <1>7, <1>8

-----------------------------------------------------------------------------
(* A request arrives, and sends its transaction.                           *)

LEMMA StepReceive ==
    ASSUME WriteInv, NEW r \in Requests, Receive(r) PROVE WriteInv'
  <1> USE DEF WriteInv
  <1>1. PICK b \in Bodies : body' = [body EXCEPT ![r] = b]
    BY DEF Receive
  <1>2. /\ pc[r] = "idle" /\ pc' = [pc EXCEPT ![r] = "preflight"]
        /\ UNCHANGED <<previewed, shortfall, answer, cause, replay, expiries, tx>>
        /\ UNCHANGED <<alloc, paid, funds, verdict>>
    BY DEF Receive, Step, redis, chain
  <1>3. /\ tx[r] = "none" /\ answer[r] # "OK" /\ previewed[r] = 0
        /\ pc'[r] = "preflight" /\ body'[r] = b
        /\ \A q \in Requests \ {r} : pc'[q] = pc[q] /\ body'[q] = body[q]
    BY <1>1, <1>2 DEF TypesInv, RequestsInv, PlaceOK, TxOK, AnswerOK, Early, Fresh
  <1>4. \A k \in Keys : Reservations(k)' = Reservations(k)
    BY <1>2 DEF Reservations
  <1>5. TypesInv'
    BY <1>1, <1>2 DEF TypesInv, KeysInv, Running
  <1>6. RequestsInv'
    <2>1. PlaceOK(r)' /\ TxOK(r)' /\ AnswerOK(r)' /\ SettledOK(r)'
      BY <1>2, <1>3 DEF PlaceOK, TxOK, AnswerOK, SettledOK, Armed, Holding
    <2> QED
      BY <1>2, <1>3, <2>1, RequestsKept
  <1>7. CountInv'
    <2>1. \A q \in Requests : pc[q] \notin Early => pc'[q] \notin Early /\ body'[q] = body[q]
      BY <1>2, <1>3 DEF Early
    <2> QED
      BY <1>4, <2>1, CountKept DEF TypesInv
  <1>8. WinnersInv' /\ FailedInv'
    <2>1. \A k \in Keys : Winners(k)' \subseteq Winners(k)
      BY <1>2, <1>3 DEF Winners, Key, Using, Holding
    <2> QED
      BY <1>2, <1>4, <2>1, WinnersKept, FailedKept DEF TypesInv
  <1>9. MarkedInv'
    <2> SUFFICES ASSUME "redis" \notin Faults, NEW q \in Requests,
                        (pc'[q] = "send" \/ tx[q] # "none") /\ expiries[Key(q)'] = 0
                 PROVE  replay[Key(q)'].state \in {"SUBMITTED", "CONFIRMED", "FAILED"}
      BY <1>2 DEF MarkedInv
    <2>1. q # r
      BY <1>3
    <2>2. Key(q)' = Key(q) /\ pc'[q] = pc[q]
      BY <1>3, <2>1 DEF Key
    <2> QED
      BY <2>2 DEF MarkedInv
  <1>10. ConfirmedMeansMined'
    BY <1>2, <1>3, ConfirmedKept
  <1> QED
    BY <1>5, <1>6, <1>7, <1>8, <1>9, <1>10

\* The node takes the transaction of a request that may send, or nothing.
LEMMA StepSend ==
    ASSUME WriteInv, NEW r \in Requests, Send(r) PROVE WriteInv'
  <1> USE DEF WriteInv
  <1>1. /\ pc[r] = "send" /\ pc[r] \in Running /\ UNCHANGED <<replay, expiries>>
        /\ UNCHANGED <<alloc, paid, funds, verdict>>
        /\ body[r] \in Bodies /\ ~body[r].dryRun /\ tx[r] = "none" /\ answer[r] # "OK"
        /\ body[r].kind = "release" => body[r].target \in Allocs
    BY UnderWay DEF Send, Running, PlaceOK, TxOK, AnswerOK, RequestsInv, Armed, Holding,
                    redis, chain
  <1>2. tx' = tx \/ tx' = [tx EXCEPT ![r] = "pending"]
    BY DEF Send
  <1>3. \/ Moves(r, "wait") /\ answer' = answer /\ tx' = [tx EXCEPT ![r] = "pending"]
        \/ /\ Moves(r, "failing") /\ answer'[r] = "FAILED"
           /\ "rpc" \in Faults \/ tx' = tx
    BY GoesMoves, ThrowMoves DEF Send, RpcFails, Causes
  <1>4. PICK to \in {"wait", "failing"} : Moves(r, to)
    BY <1>3
  <1>5. /\ pc'[r] = to /\ body' = body /\ answer'[r] # "OK" /\ tx'[r] \in {"none", "pending"}
        /\ to = "wait" => tx'[r] = "pending"
        /\ to = "failing" => "rpc" \in Faults \/ tx'[r] = "none"
        /\ \A q \in Requests \ {r} :
              /\ pc'[q] = pc[q] /\ answer'[q] = answer[q]
              /\ previewed'[q] = previewed[q] /\ tx'[q] = tx[q]
    BY <1>1, <1>2, <1>3, <1>4 DEF Moves, TypesInv
  <1>6. \A k \in Keys : Reservations(k)' = Reservations(k)
    BY <1>1 DEF Reservations
  <1>7. TypesInv'
    BY <1>1, <1>2, <1>4 DEF TypesInv, Moves, KeysInv, Running
  <1>8. RequestsInv'
    <2>1. PlaceOK(r)' /\ TxOK(r)' /\ AnswerOK(r)' /\ SettledOK(r)'
      BY <1>1, <1>5 DEF PlaceOK, TxOK, AnswerOK, SettledOK, Armed, Fresh, Early, Holding
    <2> QED
      BY <1>1, <1>5, <2>1, RequestsKept
  <1>9. CountInv'
    <2>1. \A q \in Requests : pc[q] \notin Early => pc'[q] \notin Early /\ body'[q] = body[q]
      BY <1>5 DEF Early
    <2> QED
      BY <1>6, <2>1, CountKept DEF TypesInv
  <1>10. WinnersInv' /\ FailedInv'
    <2>1. \A k \in Keys : Winners(k)' \subseteq Winners(k)
      BY <1>1, <1>5 DEF Winners, Key, Using, Holding
    <2> QED
      BY <1>1, <1>5, <1>6, <2>1, WinnersKept, FailedKept DEF TypesInv
  <1>11. MarkedInv'
    BY <1>1, <1>5 DEF MarkedInv, Key
  <1>12. ConfirmedMeansMined'
    BY <1>1, <1>5, ConfirmedKept
  <1> QED
    BY <1>7, <1>8, <1>9, <1>10, <1>11, <1>12

-----------------------------------------------------------------------------
(* The chain and the policy.                                               *)

\* A pending transaction is executed, reverted or displaced.
LEMMA TxEnds ==
    ASSUME WriteInv, NEW r \in Requests, tx[r] = "pending",
           NEW s \in {"mined", "reverted", "dropped"}, tx' = [tx EXCEPT ![r] = s],
           UNCHANGED <<server, redis, verdict>>,
           alloc' \in [Allocs -> {"NONE", "PAID", "SUSPENDED", "RELEASED"}],
           paid' \in [Allocs -> Nat], funds' \in 0 .. MaxFunds,
           \A a \in Allocs : /\ alloc[a] # "NONE" => alloc'[a] # "NONE"
                             /\ alloc[a] = "RELEASED" => alloc'[a] = "RELEASED",
           SettledOK(r)'
    PROVE  WriteInv'
  <1> USE DEF WriteInv
  <1>1. /\ UNCHANGED <<pc, body, previewed, shortfall, answer, cause, replay, expiries, verdict>>
        /\ tx'[r] = s /\ \A q \in Requests \ {r} : tx'[q] = tx[q]
    BY DEF server, redis, TypesInv
  <1>2. \A k \in Keys : Reservations(k)' = Reservations(k)
    BY <1>1 DEF Reservations
  <1>3. TypesInv'
    BY <1>1 DEF TypesInv, KeysInv
  <1>4. RequestsInv'
    <2>1. PlaceOK(r)' /\ TxOK(r)' /\ AnswerOK(r)'
      BY <1>1 DEF RequestsInv, PlaceOK, TxOK, AnswerOK
    <2> QED
      BY <1>1, <2>1, RequestsKept
  <1>5. CountInv'
    BY <1>1, <1>2, CountKept DEF TypesInv
  <1>6. WinnersInv' /\ FailedInv'
    <2>1. \A k \in Keys : Winners(k)' \subseteq Winners(k)
      BY <1>1 DEF Winners, Key
    <2> QED
      BY <1>1, <1>2, <2>1, WinnersKept, FailedKept DEF TypesInv
  <1>7. MarkedInv'
    BY <1>1 DEF MarkedInv, Key
  <1>8. ConfirmedMeansMined'
    BY <1>1, ConfirmedKept
  <1> QED
    BY <1>3, <1>4, <1>5, <1>6, <1>7, <1>8

\* What the requests with a transaction ask, for the vault.
LEMMA PendingBody ==
    ASSUME WriteInv, NEW r \in Requests, tx[r] = "pending"
    PROVE  /\ body[r] \in Bodies /\ body[r].op \in Operations
           /\ body[r].kind \in {"fund", "distribute", "release"}
           /\ body[r].kind = "release" => body[r].target \in Allocs
           /\ tx' = [tx EXCEPT ![r] = "mined"] => tx'[r] = "mined"
  BY BodyType DEF WriteInv, RequestsInv, TxOK, TypesInv

LEMMA StepMineDistribute ==
    ASSUME WriteInv, NEW r \in Requests, MineDistribute(r) PROVE WriteInv'
  <1> DEFINE allowed == {a \in Batch(body[r].op) : verdict[a[2]] = "ALLOW"}
  <1>1. /\ tx[r] = "pending" /\ tx' = [tx EXCEPT ![r] = "mined"]
        /\ body[r].kind = "distribute" /\ UNCHANGED <<server, redis, verdict>>
        /\ Distributable(body[r].op)
        /\ alloc' = [a \in Allocs |->
                        IF a \notin Batch(body[r].op) THEN alloc[a]
                        ELSE IF a \in allowed THEN "PAID" ELSE "SUSPENDED"]
        /\ paid' = [a \in Allocs |-> IF a \in allowed THEN paid[a] + 1 ELSE paid[a]]
        /\ funds' = funds - Cardinality(allowed)
    BY DEF MineDistribute
  <1>2. Cardinality(allowed) \in Nat /\ Cardinality(allowed) <= Cardinality(Holders)
    <2>1. allowed \in SUBSET Batch(body[r].op)
      OBVIOUS
    <2> HIDE DEF allowed
    <2> QED
      BY <2>1, BatchSize
  <1>3. Batch(body[r].op) \subseteq Allocs
    BY <1>1, PendingBody, BatchAllocs
  <1> HIDE DEF allowed
  <1>4. funds' \in 0 .. MaxFunds
    BY <1>1, <1>2, CohortFinite DEF Distributable, WriteInv, TypesInv
  <1>5. /\ alloc' \in [Allocs -> {"NONE", "PAID", "SUSPENDED", "RELEASED"}]
        /\ paid' \in [Allocs -> Nat]
    BY <1>1 DEF WriteInv, TypesInv
  <1>6. \A a \in Allocs : /\ alloc[a] # "NONE" => alloc'[a] # "NONE"
                          /\ alloc[a] = "RELEASED" => alloc'[a] = "RELEASED"
    BY <1>1 DEF Distributable
  <1>7. SettledOK(r)'
    BY <1>1, <1>3 DEF SettledOK, server
  <1> QED
    BY <1>1, <1>4, <1>5, <1>6, <1>7, TxEnds

LEMMA StepMineRelease ==
    ASSUME WriteInv, NEW r \in Requests, MineRelease(r) PROVE WriteInv'
  <1>1. PICK a \in Allocs : a = body[r].target
    BY PendingBody DEF MineRelease
  <1>2. /\ tx[r] = "pending" /\ tx' = [tx EXCEPT ![r] = "mined"]
        /\ body[r].kind = "release" /\ UNCHANGED <<server, redis, verdict>>
        /\ alloc[a] = "SUSPENDED" /\ alloc' = [alloc EXCEPT ![a] = "RELEASED"]
        /\ funds >= 1 /\ funds' = funds - 1 /\ paid' = [paid EXCEPT ![a] = @ + 1]
    BY <1>1 DEF MineRelease, Releasable
  <1>3. /\ alloc' \in [Allocs -> {"NONE", "PAID", "SUSPENDED", "RELEASED"}]
        /\ paid' \in [Allocs -> Nat] /\ funds' \in 0 .. MaxFunds
    BY <1>2 DEF WriteInv, TypesInv
  <1>4. \A x \in Allocs : /\ alloc[x] # "NONE" => alloc'[x] # "NONE"
                          /\ alloc[x] = "RELEASED" => alloc'[x] = "RELEASED"
    BY <1>2 DEF WriteInv, TypesInv
  <1>5. SettledOK(r)'
    BY <1>1, <1>2 DEF SettledOK, server, WriteInv, TypesInv
  <1> QED
    BY <1>2, <1>3, <1>4, <1>5, TxEnds

LEMMA StepMineOthers ==
    ASSUME WriteInv, NEW r \in Requests, MineMint(r) \/ MineReverted(r) \/ Drop(r)
    PROVE  WriteInv'
  <1>1. /\ tx[r] = "pending" /\ UNCHANGED <<server, redis, alloc, paid, verdict>>
        /\ \/ body[r].kind = "fund" /\ tx' = [tx EXCEPT ![r] = "mined"]
           \/ tx' = [tx EXCEPT ![r] = "reverted"]
           \/ tx' = [tx EXCEPT ![r] = "dropped"]
    BY DEF MineMint, MineReverted, Drop, chain
  <1>2. funds' \in 0 .. MaxFunds
    BY DEF MineMint, MineReverted, Drop, chain, WriteInv, TypesInv
  <1>3. SettledOK(r)'
    BY <1>1 DEF SettledOK, server, WriteInv, TypesInv
  <1>4. /\ alloc' \in [Allocs -> {"NONE", "PAID", "SUSPENDED", "RELEASED"}]
        /\ paid' \in [Allocs -> Nat]
    BY <1>1 DEF WriteInv, TypesInv
  <1> QED
    BY <1>1, <1>2, <1>3, <1>4, TxEnds

\* Nothing of the invariant depends on the policy, or on more funds.
LEMMA StepOutside ==
    ASSUME WriteInv, UNCHANGED <<server, redis, tx, alloc, paid>>,
           verdict' \in [Holders -> Verdicts], funds' \in 0 .. MaxFunds
    PROVE  WriteInv'
  <1>1. UNCHANGED <<pc, body, previewed, shortfall, answer, cause, replay, expiries>>
    BY DEF server, redis
  <1>2. TypesInv' /\ RequestsInv'
    BY <1>1 DEF WriteInv, TypesInv, KeysInv, RequestsInv, PlaceOK, TxOK, AnswerOK, SettledOK
  <1>3. CountInv' /\ WinnersInv'
    BY <1>1 DEF WriteInv, CountInv, Attempted, WinnersInv, Winners, Key, Reservations
  <1>4. MarkedInv' /\ FailedInv' /\ ConfirmedMeansMined'
    BY <1>1 DEF WriteInv, MarkedInv, FailedInv, Winners, ConfirmedMeansMined, MinedFor, Sent,
                FundedFor, Key
  <1> QED
    BY <1>2, <1>3, <1>4 DEF WriteInv

LEMMA StepWriteInv == WriteInv /\ [Next]_vars => WriteInv'
  <1> SUFFICES ASSUME WriteInv, [Next]_vars PROVE WriteInv'
    OBVIOUS
  <1>1. CASE UNCHANGED vars
    BY <1>1, StepOutside DEF vars, chain, WriteInv, TypesInv
  <1>2. ASSUME NEW r \in Requests, Handler(r)
        PROVE  WriteInv'
    BY <1>2, StepPreflight, StepReserve, StepGetContext, StepGetSigner, StepLookUp,
       StepPreviewHolder, StepPreviewRelease, StepMarks, StepSend, StepWait, StepReadBalance,
       StepSimulateMint, StepReadBalanceAgain DEF Handler
  <1>3. ASSUME NEW r \in Requests, Receive(r) \/ Kill(r) \/ Mine(r) \/ Drop(r)
        PROVE  WriteInv'
    BY <1>3, StepReceive, StepKill, StepMineDistribute, StepMineRelease, StepMineOthers DEF Mine
  <1>4. ASSUME NEW k \in Keys, Expire(k)
        PROVE  WriteInv'
    BY <1>4, StepExpire
  <1>5. ASSUME NEW h \in Holders, NEW v \in Verdicts, VerdictChange(h, v)
        PROVE  WriteInv'
    BY <1>5, StepOutside DEF VerdictChange, WriteInv, TypesInv
  <1>6. CASE Deposit
    BY <1>6, StepOutside DEF Deposit, WriteInv, TypesInv
  <1> QED
    BY <1>1, <1>2, <1>3, <1>4, <1>5, <1>6 DEF Next

LEMMA WriteInvAlways == Spec => []WriteInv
  BY InitWrite, StepWriteInv, PTL DEF Spec

-----------------------------------------------------------------------------
(* The theorems.                                                           *)

\* Every variable of the endpoints keeps its type; no key expires more often
\* than invocations could reserve it, because reserveOperationId sets a key at
\* most once for each.
THEOREM WriteTypeCorrect == Spec => []TypeOK
  <1>1. WriteInv => TypeOK
    <2> SUFFICES ASSUME WriteInv PROVE TypeOK
      OBVIOUS
    <2>1. expiries \in [Keys -> 0 .. Cardinality(Requests)]
      <3> SUFFICES ASSUME NEW k \in Keys PROVE expiries[k] \in 0 .. Cardinality(Requests)
        BY DEF WriteInv, TypesInv, KeysInv
      <3>1. Attempted(k) \in SUBSET Requests
        BY DEF Attempted
      <3>2. /\ Cardinality(Attempted(k)) \in Nat /\ Cardinality(Requests) \in Nat
            /\ Cardinality(Attempted(k)) <= Cardinality(Requests)
        BY <3>1, SmallerSet, FS_CardinalityType
      <3>3. expiries[k] \in Nat /\ expiries[k] <= Reservations(k) /\ Reservations(k) \in Nat
        BY ReservationsType DEF WriteInv, TypesInv, KeysInv, Reservations
      <3> QED
        BY <3>2, <3>3 DEF WriteInv, CountInv
    <2>2. replay \in [Keys -> {Absent} \union [state : OpStates, expires : BOOLEAN]]
      BY DEF WriteInv, TypesInv, KeysInv, Entries
    <2> QED
      BY <2>1, <2>2 DEF WriteInv, TypesInv, TypeOK
  <1> QED
    BY <1>1, WriteInvAlways, PTL

\* An operationId sends at most one transaction for each time its key was set:
\* whoever sends has reserved the key (SET NX) and keeps no other invocation's
\* reservation, whatever Redis answers, and a key that expires allows one more.
THEOREM OneTransaction == Spec => []OneTxPerReservation
  <1>1. WriteInv => OneTxPerReservation
    <2> SUFFICES ASSUME WriteInv, NEW k \in Keys
                 PROVE  Cardinality(Sent(k)) <= 1 + expiries[k]
      BY DEF OneTxPerReservation
    <2>1. Sent(k) \in SUBSET Winners(k) /\ Winners(k) \in SUBSET Requests
      BY DEF WriteInv, RequestsInv, TxOK, Sent, Winners
    <2>2. /\ Cardinality(Sent(k)) \in Nat /\ Cardinality(Winners(k)) \in Nat
          /\ Cardinality(Sent(k)) <= Cardinality(Winners(k))
      BY <2>1, SmallerSet
    <2>3. /\ Cardinality(Winners(k)) <= Reservations(k)
          /\ expiries[k] \in Nat /\ Reservations(k) <= 1 + expiries[k] /\ Reservations(k) \in Nat
      BY ReservationsType DEF WriteInv, WinnersInv, TypesInv, KeysInv, Reservations
    <2> QED
      BY <2>2, <2>3
  <1> QED
    BY <1>1, WriteInvAlways, PTL

\* A key says CONFIRMED only of an operation with a mined transaction, or of a
\* fund request that found the vault funded: the handlers mark it after wait()
\* has returned a receipt, and no failure of theirs undoes what was mined.
THEOREM ConfirmedIsMined == Spec => []ConfirmedMeansMined
  <1>1. WriteInv => ConfirmedMeansMined
    BY DEF WriteInv
  <1> QED
    BY <1>1, WriteInvAlways, PTL

\* A 200 of distribute or release is final: the vault holds an allocation for
\* every holder of the batch, or has released the one asked for, whatever other
\* invocations, operators and the policy do afterwards.
THEOREM OkIsSettled == Spec => []OkMeansSettled
  <1>1. WriteInv => OkMeansSettled
    <2> SUFFICES ASSUME WriteInv, NEW r \in Requests, answer[r] = "OK"
                 PROVE  /\ body[r].kind = "distribute" =>
                              \A a \in Batch(body[r].op) : alloc[a] # "NONE"
                        /\ body[r].kind = "release" => alloc[body[r].target] = "RELEASED"
      BY DEF OkMeansSettled
    <2>1. tx[r] = "mined" \/ body[r].kind = "fund"
      BY DEF WriteInv, RequestsInv, AnswerOK
    <2> QED
      BY <2>1 DEF WriteInv, RequestsInv, SettledOK
  <1> QED
    BY <1>1, WriteInvAlways, PTL

\* While Redis answers, a key that says RESERVED and has never expired is of an
\* operation that sent nothing: SUBMITTED is written before the send.  A key that
\* was reserved again after its 600 s tells nothing of the first reservation.
THEOREM SentIsMarked == Spec => []SentMeansMarked
  <1>1. WriteInv => SentMeansMarked
    BY DEF WriteInv, MarkedInv, SentMeansMarked
  <1> QED
    BY <1>1, WriteInvAlways, PTL

\* As long as no call of the node fails, FAILED is the truth about a key that
\* has not expired: whoever marks it alone held the reservation, and sent
\* nothing or saw its transaction reverted.  Only a lost answer of the node
\* makes a FAILED operation take effect.
THEOREM FailedIsOver == Spec => []FailedMeansOver
  <1>1. WriteInv => FailedMeansOver
    <2> SUFFICES ASSUME WriteInv, "rpc" \notin Faults, NEW k \in Keys,
                        replay[k].state = "FAILED", expiries[k] = 0, NEW r \in Sent(k)
                 PROVE  tx[r] = "reverted"
      BY DEF FailedMeansOver
    <2>1. r \in Winners(k)
      BY DEF WriteInv, RequestsInv, TxOK, Sent, Winners
    <2> QED
      BY <2>1 DEF WriteInv, FailedInv
  <1> QED
    BY <1>1, WriteInvAlways, PTL

-----------------------------------------------------------------------------
(* The endpoints drive the vault as the settlement ledger allows.          *)

LEMMA DistributeSettles ==
    ASSUME WriteInv, NEW r \in Requests, MineDistribute(r)
    PROVE  Ledger!SettleBatch
  <1> DEFINE allowed == {a \in Batch(body[r].op) : verdict[a[2]] = "ALLOW"}
  <1>1. /\ \A a \in Batch(body[r].op) : alloc[a] = "NONE"
        /\ alloc' = [a \in Allocs |->
                        IF a \notin Batch(body[r].op) THEN alloc[a]
                        ELSE IF a \in allowed THEN "PAID" ELSE "SUSPENDED"]
        /\ paid' = [a \in Allocs |-> IF a \in allowed THEN paid[a] + 1 ELSE paid[a]]
        /\ verdict' = verdict
    BY DEF MineDistribute, Distributable
  <1>2. ASSUME NEW a \in Allocs
        PROVE  Ledger!Unchanged(a) \/ Ledger!Settles(a) \/ Ledger!Holds(a)
    <2>1. a[2] \in Holders /\ paid[a] \in Nat
      BY DEF Allocs, WriteInv, TypesInv
    <2>2. CASE a \notin Batch(body[r].op)
      BY <1>1, <2>2 DEF Ledger!Unchanged
    <2>3. CASE a \in Batch(body[r].op) /\ verdict[a[2]] = "ALLOW"
      <3>1. alloc[a] = "NONE" /\ alloc'[a] = "PAID" /\ paid'[a] = paid[a] + 1
        BY <1>1, <2>3
      <3> QED
        BY <1>1, <2>1, <2>3, <3>1
           DEF Ledger!Settles, Ledger!Unclaimed, Ledger!Claims, Ledger!Allowed, Ledger!Pays
    <2>4. CASE a \in Batch(body[r].op) /\ verdict[a[2]] # "ALLOW"
      <3>1. alloc[a] = "NONE" /\ alloc'[a] = "SUSPENDED" /\ paid'[a] = paid[a]
        BY <1>1, <2>4
      <3> QED
        BY <1>1, <2>1, <2>4, <3>1
           DEF Ledger!Holds, Ledger!Unclaimed, Ledger!Claims, Ledger!Allowed
    <2> QED
      BY <2>2, <2>3, <2>4
  <1>3. Ledger!Shape
    BY DEF Ledger!Shape
  <1> QED
    BY <1>1, <1>2, <1>3 DEF Ledger!SettleBatch

LEMMA ReleaseReleases ==
    ASSUME WriteInv, NEW r \in Requests, MineRelease(r)
    PROVE  \E a \in Allocs : Ledger!Release(a)
  <1>1. PICK a \in Allocs : a = body[r].target
    BY PendingBody DEF MineRelease
  <1>2. /\ alloc[a] = "SUSPENDED" /\ verdict[a[2]] = "ALLOW" /\ verdict' = verdict
        /\ alloc' = [alloc EXCEPT ![a] = "RELEASED"] /\ paid' = [paid EXCEPT ![a] = @ + 1]
    BY <1>1 DEF MineRelease, Releasable
  <1>3. /\ a[2] \in Holders /\ paid[a] \in Nat
        /\ alloc'[a] = "RELEASED" /\ paid'[a] = paid[a] + 1
        /\ \A o \in Allocs \ {a} : alloc'[o] = alloc[o] /\ paid'[o] = paid[o]
    BY <1>2 DEF Allocs, WriteInv, TypesInv
  <1>4. Ledger!Releases(a)
    <2> DEFINE h == a[2]
               held == [recipient |-> h, amount |-> 1, status |-> "HELD"]
               settled == [recipient |-> h, amount |-> 1, status |-> "SETTLED"]
               before == [x \in Holders |-> IF x = h THEN paid[a] ELSE 0]
               after == [x \in Holders |-> IF x = h THEN paid[a] + 1 ELSE 0]
    <2>1. after = [before EXCEPT ![h] = @ + 1]
      BY <1>3
    <2>2. settled = [held EXCEPT !.status = "SETTLED"]
      OBVIOUS
    <2>3. Ledger!Pays(a)
      BY <1>3, <2>1 DEF Ledger!Pays
    <2> QED
      BY <1>2, <1>3, <2>2, <2>3 DEF Ledger!Releases, Ledger!Allowed
  <1>5. \A o \in Allocs \ {a} : Ledger!Unchanged(o)
    BY <1>3 DEF Ledger!Unchanged
  <1>6. Ledger!Shape
    BY DEF Ledger!Shape
  <1> QED
    BY <1>2, <1>4, <1>5, <1>6 DEF Ledger!Release

\* Every step of the endpoints, the chain and the policy is, for the vault, a
\* step of the settlement ledger or none: batches at once, only held claims
\* released, each paid once, whatever the invocations believe.
THEOREM EndpointsKeepTheLedger == Spec => LedgerSteps
  <1>1. WriteInv /\ [Next]_vars => [Ledger!Next]_<<alloc, paid, verdict>>
    <2> SUFFICES ASSUME WriteInv, [Next]_vars
                 PROVE  Ledger!Next \/ UNCHANGED <<alloc, paid, verdict>>
      OBVIOUS
    <2>1. CASE UNCHANGED vars
      BY <2>1 DEF vars, chain
    <2>2. ASSUME NEW r \in Requests, Receive(r) \/ Handler(r) \/ Kill(r) \/ Drop(r)
          PROVE  UNCHANGED <<alloc, paid, verdict>>
      BY <2>2 DEF Handler, Receive, Preflight, ReserveOperationId, GetContext, GetSigner, LookUp,
         PreviewHolder, PreviewRelease, MarkSubmitted, Send, Wait, MarkConfirmed, MarkFailed,
         ReadBalance, SimulateMint, ReadBalanceAgain, MarkFunded, Kill, Drop, chain
    <2>3. ASSUME NEW r \in Requests, MineMint(r) \/ MineReverted(r)
          PROVE  UNCHANGED <<alloc, paid, verdict>>
      BY <2>3 DEF MineMint, MineReverted, chain
    <2>4. ASSUME NEW r \in Requests, MineDistribute(r) \/ MineRelease(r)
          PROVE  Ledger!Next
      BY <2>4, DistributeSettles, ReleaseReleases DEF Ledger!Next
    <2>5. ASSUME NEW k \in Keys, Expire(k)
          PROVE  UNCHANGED <<alloc, paid, verdict>>
      BY <2>5 DEF Expire, chain
    <2>6. ASSUME NEW h \in Holders, NEW v \in Verdicts, VerdictChange(h, v)
          PROVE  Ledger!Next
      <3>1. verdict' \in [Holders -> {"ALLOW", "DENY", "REVERT"}] /\ UNCHANGED <<alloc, paid>>
        BY <2>6 DEF VerdictChange, WriteInv, TypesInv, Verdicts
      <3> QED
        BY <3>1 DEF Ledger!Next, Ledger!PolicyChange
    <2>7. CASE Deposit
      BY <2>7 DEF Deposit
    <2> QED
      BY <2>1, <2>2, <2>3, <2>4, <2>5, <2>6, <2>7 DEF Next, Mine
  <1> QED
    BY <1>1, WriteInvAlways, PTL DEF Spec, LedgerSteps

=============================================================================
