# Suspense: a TLA+ model of the settlement vault and what surrounds it

Suspense distributes a tokenised coupon to a cohort of holders. Each transfer
is subject to the Cleanverse policy; a holder the policy blocks does not stop
the others: the allocation is *suspended* in the vault and *released* later,
once the policy lets it through. This directory models the parts that move
value or decide who may: the vault contract, the three write endpoints with
their replay keys, the operator's session and write arm, and the endpoint
that deploys a vault; the public page, which must not show what is not so, with
the two endpoints it reads; and the scripts that bring an issuer on board.

Paths below are relative to the repository. `tlc -config X.cfg M` checks a run,
`tlapm M.tla` the proofs.

## 1. The system

| Component | State | Operations | What makes it correct |
|---|---|---|---|
| `contracts/SuspenseVault.sol` | `allocations`, its token balance | `distribute`, `release` | an allocation is paid once, to its recipient; a batch is all or nothing; one blocked item does not fail the others; suspended value is still there |
| `contracts/PartnerCompliantATokenV2.sol`, Cleanverse policy | balances; rules (outside) | `mint`, `burn`, `_update`, `canTransfer` | no transfer the policy refuses |
| `lib/write-context.js`, `api/fund.js`, `api/distribute.js`, `api/release.js` | none of their own: Redis and the chain | the three handlers, each a sequence of awaits | one transaction for a reservation; states and answers that can be trusted |
| `lib/replay.js` | one Redis key for each operationId and endpoint, living 600 s | `SET NX EX`, `SET XX KEEPTTL` | reserved once; free again in the end |
| `lib/auth.js`, `api/auth.js`, `api/write-arm.js`, `api/write-status.js`, `lib/origin.js` | two cookies in the browser, one secret and one gate in the environment | login, arm, gate test, status | nothing on a stale session or arm; `LOCKED` locks |
| `lib/ratelimit.js` | windows in Redis | `checkRateLimit` | every endpoint that asks it is one it knows |
| `api/deploy-runtime-vault.js` | the account's nonce, a replay key | one handler | it deploys from a fresh account only |
| `api/status.js`, `api/eligibility.js`, `lib/rpc.js` | none | reads | a check that could not be made is UNKNOWN, never a verdict (not so: finding 2) |
| `index.html` | flags `replaying`, `refreshing`; what is shown; `operatorAuthenticated` | live read, replay, clock; operator actions | flags are always given back; what is shown is of one read, or of the replay and says so |
| `scripts/*.mjs` | JSON files in `.local/`; Cleanverse's requests and the chain | wallets, A-Passes, launch, registration, deployments, status queries | what a file says is true; only the admin registers a token |

How they interact: the page logs in (`/api/auth`), arms (`/api/write-arm`) and
calls `/api/distribute` or `/api/release`. A handler is a serverless
invocation: it tests origin, session, rate limit, vault address, operationId and
gate, reserves the operationId in Redis, reads the policy, marks the key
`SUBMITTED`, sends one vault transaction from a server-held key, waits for its
receipt and marks `CONFIRMED`, or `FAILED` from the catch block. Invocations share
no memory: they meet in Redis and on the chain. The vault asks the policy again
for every item, in the transaction; its answer is the one that counts. Beside
this, the page reads `/api/status` and `/api/eligibility` together, on load, on
demand and every 20 s, and shows the answers unless it replays the recorded
settlement. The scripts run apart from all of it, each as a process, and share
nothing but the files in `.local/`.

What is hard here: the vault's two loops over storage and balance that change as
they go; the transaction that aborts in the middle; handlers that interleave at
every await; replies lost after they took effect; invocations stopped by the
platform anywhere; keys and tokens that expire in the middle of an operation; two
asynchronous functions of the page that write the same rows; scripts that overwrite
each other's files, or copies they read long ago.
`PROJECT.json` lists each such hazard at its line.

## 2. Modules

| Module | Models | Notes |
|---|---|---|
| `SettlementLedger` | what a settlement promises | abstract: batches in one step, held claims, releases |
| `SuspenseVault` | the vault contract | iteration by iteration |
| `SuspenseVaultRefinement` | vault => ledger | the refinement mapping |
| `SuspenseVaultProofs`, `SuspenseVaultLedgerProofs` | | theorems about the vault |
| `ReplayKeys` | `lib/replay.js` | no behaviour of its own: extended by the handlers' modules |
| `ReplayKeysProofs` | | lemmas on what Redis calls do to the number of reservations |
| `WriteOperations` | the write context, `fund`, `distribute`, `release` | await by await |
| `WriteOperationsProofs` | | theorems about the endpoints |
| `RuntimeDeploy` | `api/deploy-runtime-vault.js` | await by await |
| `RuntimeDeployProofs` | | theorems about the deployer |
| `WriteAccess` | session, arm, gate, limiter | in front of the above |
| `WriteAccessProofs` | | theorems about access |
| `ReadEndpoints` | `api/status.js`, `api/eligibility.js` | no behaviour of its own: extended by the page |
| `SettlementChamber` | the script of `index.html`, its public part | await by await, with the endpoints it reads |
| `SettlementChamberProofs` | | theorems about the page |
| `OnboardingState` | the scripts of an issuer | processes over files, Cleanverse and the chain |
| `OnboardingProofs` | | theorems about the scripts |
| `MC*` | | instances for TLC |

Definitions named in a comment as *Mutation* are not part of any specification.
They are the ways the definition below them could plausibly be wrong, and each
makes some property of a run fail.

### SuspenseVault

`distribute` is modelled in the steps of its two loops: `BeginDistribute`, then
`CheckItem` or `RejectItem` for each item, `AcceptBatch` or `RejectUnfunded`, then
`CreateItem` followed by `SuspendItem`, `PayItem` or `AbortBatch`, and
`FinishDistribute`. No other transaction runs meanwhile (`pc = "idle"` guards the
others, as the EVM does), but splitting the loops makes the revert in the middle
a behaviour of the model: `snapshot` is what it restores. `required` keeps
the running sum of `requiredFunding` for each prefix, `held` what the batch has
suspended, `paidTo` what the token moved for each allocation; the last two are
there for the properties only. `VaultPolicy` is the policy the vault asks,
`TokenPolicy` the one the token asks in `_update`: in the deployed system they
are one contract, but nothing in the code says they must be. A verdict is
`ALLOW`, `DENY` (false) or `REVERT`, and changes only between transactions. A
policy's answer depends on the recipient; amounts and sender are the same in the
question the vault asks and in the one the token asks. `release` has no
loop and is one step.

### SettlementLedger and the refinement

The ledger has no balance, loop or transaction: `SettleBatch` settles or holds
any set of new claims at once, as the policy stands; `Release` settles one held
claim. The mapping shows the ledger the storage as committed: the snapshot
while a transaction runs, the storage itself when none does; `PAID` and `RELEASED`
are both `SETTLED`. What is shown is what an outside observer relies on: batches
are atomic, verdicts decide, nothing is paid twice.

### WriteOperations and ReplayKeys

`pc[r]` is the await an invocation is at; an action is what happens between two awaits.
The early returns that mark the key `FAILED` first, and the catch block, go through
`failing`. Because the vault's transactions are atomic for an observer (proved, see 5),
the chain executes one in a single step, `MineDistribute` or `MineRelease` (`MineMint`
for the token), with the vault's own preconditions; the send is refused at estimation
when it would revert. A mint may be refused there, or reverted on chain, for reasons the
model leaves out (`Refusable`): the minter's role, the policy of the token. Every allocation is of one token here, so amounts are counts. A
Redis call that fails may have reached Redis (`Unavailable`, `UpdateOperationState`); a
send that fails may have reached the node (`Send`); a pending transaction may be mined,
mined reverted, or displaced. `Kill` stops an invocation anywhere. `Faults` turns each
kind on. `fund` reads the balance before it asks for a signer (`ReadBalance`), mints the
`shortfall` it found then, whatever the vault has got since, and reads the balance once
more after it marked CONFIRMED (`ReadBalanceAgain`), where a failure still marks FAILED.

### WriteAccess

A request has two steps, before and after the await of the limiter: the
session is judged in the first (`Arrives`, `Unauthorised`), the arm in the second
(`PassGate`, `ReportStatus`). Time, logins, redeployments with another secret or
gate, and lost answers happen in between; an invocation keeps the environment it
started with. Signatures are perfect, so a token is the fact that it was issued.
`lastLogin` and `lastArm` record what really happened, for the property only.
`Limited` is the set of endpoints the limiter's table knows.

### RuntimeDeploy

The handler, from the reservation to the reads after the receipt. `Nonce` is the
account's pending count: what is in a block and what the node knows of besides
(`Known`); each deployment keeps the nonce it was sent with. `Mine` takes them in that
order, and displaces a pending one with the same nonce. With faults of the node, `Evict`
makes it lose a pending deployment, or has another node answer that never had it; such
a deployment may still be mined. `late` records the invocations since whose arrival the
node has always known of a deployment, and is empty again once it knows of none.

### ReadEndpoints and SettlementChamber

Each call of `refreshLive` or `replaySettlement` is a process `c`; `pc[c]` is the
await it is at, and an action is what the browser runs in one piece. `Calls` bounds
how many exist at once; the guard of the two functions lets one of them run, which
is a property here and not an assumption. A call that reads has one request to each
endpoint under way: `/api/status` answers, refuses or is lost; `/api/eligibility`
asks the policy for each holder in any order, while the policy may change its mind
(`VerdictChange`), and classifies each answer (`Decision`). An `eth_call` comes back as
the policy's word, as a CALL_EXCEPTION, which is what ethers makes of a revert and of a
node's error alike, or not at all. `grounds` records the policy's word alone, what it
would have said of each holder since the call began, for the properties.
The page's `ReadFails` is the catch block and the finally clause, `ReadSucceeds` and
`ShowVerdict` the animation, one holder each; `due` abstracts the clock to whether
`nextReadAt` has come. Of what is shown the model keeps each row's state, the roster,
the reality class and the two counts. The operator's action that ends with a live
read is `ManualRefresh` too.

### OnboardingState

A script is a process that reads at most two files, calls Cleanverse or the chain,
writes one file and ends; `run[p]` holds which script it is, where it is, and what it
remembers (`saved`). It may die between any two steps (`Die`), which also stands for
the checks that throw. `writeFile` is two steps, the emptying and the writing, so that
a reader can meet a torn file and two writers can tear one. A record is reduced to what it
names: whose key, which contract, which request, which answer. Contracts are created
pending and mined or reverted later; Cleanverse accepts a request, or not, and decides on
it at some time.

## 3. Runs

| Run | Checks | Bounds |
|---|---|---|
| `vault` | `TypeOK`, `PaidExactlyOnce`, `BatchCovered`, `LedgerInv`, `Lifecycle`, `BlockedNeverAborts`, `ItemsOnRecord`, `LedgerSpec` | 3 allocations, 2 recipients, batches of up to 2, uint of 0..5, 9 different calls, two policies that may disagree |
| `vault_held_funds` | `SuspendedFullyHeld` fails | the two valid batches, one deposit amount |
| `writes` | `TypeOK`, `OneTxPerReservation`, `ConfirmedMeansMined`, `KeysExpire` | 2 invocations of one operationId, the three endpoints, one holder, Redis and RPC failures |
| `writes_two_operators` | `OkMeansSettled`, `SentMeansMarked`, `FailedMeansOver`, `LedgerSteps` | 2 invocations, 2 operationIds, 2 holders, kills |
| `writes_lost_receipt` | `FailedMeansNoEffect` fails | 2 invocations, RPC failures |
| `writes_policy_revert` | `PolicyRevertSuspends` fails | 2 holders, no failures |
| `access` | `TypeOK`, `WritesAuthorised` | 2 requests in flight, 3 in all, 2 secrets, a session of 2 s, an arm of 1 s, 4 s of clock |
| `access_deployed` | `ArmingAvailable` fails | the same, with the limiter's own table |
| `deploy` | `TypeOK`, `ConfirmedMeansDeployed`, `LateNeverDeploys` | 3 invocations, 2 operationIds, all faults, deployments that the node loses among them |
| `chamber` | `TypeOK`, `FlagsTellWhoRuns`, `PictureOfOneCall`, `ReplayNeverLive`, `PairFromOneRead`, `AllowedIsFresh`, `CallsEnd`, `DueIsRead` | 2 calls, 2 holders, one of which the policy changes its mind about |
| `chamber_node_error` | `BlockedByPolicy` fails | the same |
| `onboarding` | `TypeOK`, `RecordsAreTrue`, `StatusOfRequest`, `RegisteredByOwner`, `PassesInOrder` | 2 scripts at a time, 2 wallet sets, 2 contracts, 2 requests, 3 holders, one shift of scripts |

Why the bounds are enough. *Vault*: one batch of two with both orders of paid and
suspended, a second that overlaps it or not, a release between and after; the
calls include an empty one, unequal lengths, a zero recipient, a zero amount, a
repeated identifier of an earlier batch, and a sum above the maximum, so that each
error is reached, and with balances from 0 to 4 every funding test falls on both
sides. Batches of any length are covered by the proofs. *Writes*: two
invocations are what a race needs, and one operationId can be reserved twice when
its key expires; the second run has the two operationIds and the cohort of two. The
first leaves `Kill` to the second: nothing obliges an invocation to go on there, so one
that was killed is one that takes no further step. `MaxFunds` is the cohort's
size there, so that a vault is found funded, short, or filled by another mint.
*Access*: the ages are small so that a login, its session, an arm and its
expiry all fit in the clock; the theorem covers the rest. *Deploy*: three
invocations are one that deploys, one that overlaps it and one that comes later, before
or after the node has lost what it knew.
*Chamber*: two calls are a race; two holders are a first one, that the replay pays, and
a last one, that it suspends and releases; a policy that changes its mind about one of
them gives a read every mixture of verdicts. *Onboarding*: mixing two records needs two
of each thing. All scripts on two processes are too many behaviours, and scripts
that share no file only interleave; so each behaviour keeps to the scripts of one
*shift*, which share files (`MCOnboardingState`), and TLC visits every shift. The
theorems have no such restriction.

The runs of the vault and of the page check for deadlock: both always have a step.
The others say `CHECK_DEADLOCK FALSE`: invocations end, clocks, request budgets and
wallet keys run out, and nothing is left to do.

The run `access` has `Limited` set to every endpoint: with the table as it is in
`lib/ratelimit.js` no arm is ever issued (finding 5), and the logic of the arm would
not be checked at all.

### What the passing runs show

- *Paid once, all or nothing.* `PaidExactlyOnce`, `Lifecycle`, `LedgerSpec`: no
  order of batches, reverts, releases, burns and verdict changes pays an allocation
  twice, pays anybody else, or shows half a batch, even when the token
  refuses what the vault's policy allowed.
- *One blocked is not all blocked.* `BatchCovered`, `BlockedNeverAborts`: a batch
  that passes the funding test is carried through whatever the vault's policy
  answers, unless the token refuses what that policy allowed, and its own suspended
  amounts are in the vault when it ends.
- *Replay keys.* `OneTxPerReservation`, `ConfirmedMeansMined`, `SentMeansMarked`,
  `FailedMeansOver`, `KeysExpire`: a reservation sends one transaction whatever is lost;
  CONFIRMED can be believed always; as long as the key has never expired, so can RESERVED
  with Redis up, and FAILED where no answer of the node is lost; no operationId is blocked
  for ever. After an expiry the key can be reserved again, and RESERVED may then stand
  beside a first transaction that is pending or mined.
- *Answers.* `OkMeansSettled`, `LedgerSteps`: 200 means settled, although state and
  policy were read before the transaction was sent and another operator was at work.
- *Access.* `WritesAuthorised`: what is granted after an await was earned within
  the age of session and arm.
- *Deployer.* `LateNeverDeploys`: as long as the node knows of a deployment, lost answer
  or not, whoever has come since is refused by the nonce. If it loses a pending one,
  the nonce is 0 again and an invocation that comes then deploys.
- *The page.* `FlagsTellWhoRuns`, `CallsEnd`, `DueIsRead`: one call at a time, every
  call gives its flags back whatever its requests do, and the clock's read is made.
  `PictureOfOneCall`, `PairFromOneRead`, `ReplayNeverLive`: when nothing runs, the rows, the
  summary and the reality class come from one call as a whole, and no row shows a replayed
  state under a live name, or a live verdict during a replay. The count of UNKNOWN is
  that of the last read, also under a replay (section 4); the roster beside the rows has live
  verdicts throughout. `AllowedIsFresh`: from the policy to the page, nobody comes out
  ALLOWED whom the policy did not allow during that read. Of BLOCKED it is not so (finding 2).
- *The scripts.* `RecordsAreTrue`, `StatusOfRequest`: overlapping and dying scripts
  lose records, but never leave one that mixes two. `RegisteredByOwner`: wallets
  drawn anew between two reads do not sign for somebody else's token.
  `PassesInOrder`: nobody is provisioned after a refusal.

### Fairness

`KeysExpire` assumes it of Redis alone: a key with an expiry does expire
(`WF_vars(Expire(k))`). Invocations get none: the platform may stop them, `tx.wait()`
has no timeout, and no client is obliged to ask again.

`CallsEnd` and `DueIsRead` assume what a browser gives its scripts: a request settles in
the end, be it with an error (`StatusSettles`, `EligibilityStep`); a `sleep` or a settled
promise is followed by the rest of its function (`RefreshStep`, `ReplayStep`); the interval
timer fires (`Clock`, weakly fair only as long as its condition stays true) and time passes.
The user owes nothing. The onboarding scripts get no fairness.

## 4. Findings

1. *Suspended value is not set aside* (`vault_held_funds`). `distribute` compares the
   vault's whole balance with the new batch (`SuspenseVault.sol:106`). Tokens held for an
   earlier suspended allocation pay a later batch; `release` then reverts until
   somebody funds the vault again. The design document marks "Suspended value fully
   accounted" as preserved (`docs/CREATIVE-DIRECTION-001.md:684`).
2. *A node's error is shown as BLOCKED* (`chamber_node_error`). ethers reports a JSON-RPC
   error to an `eth_call` as CALL_EXCEPTION, with null as its data, and
   `api/eligibility.js:123` answers BLOCKED to that code alone. The header says "genuine
   policy revert with EVM revert data" (`:35`) and "UNKNOWN is never silently converted to
   BLOCKED" (`:51`), as does `README.md:90`.
3. *FAILED after a lost receipt* (`writes_lost_receipt`). The catch blocks mark FAILED
   whatever threw (`api/distribute.js:82`, `api/release.js:88`), also when the
   transaction is, or will be, mined. Nothing else does it: see `FailedIsOver`.
4. *A policy revert fails the whole request* (`writes_policy_revert`). The vault treats a
   revert as blocked; the server's preview does not catch it (`api/distribute.js:65`),
   and the batch is never sent. `docs/GATE_CD_EVIDENCE.md:51` says it suspends the holder.
5. *Arming is never available* (`access_deployed`). `lib/ratelimit.js:4` has no entry for
   `write-arm` or `fund`, so both endpoints always answer 503 RATE_LIMIT_UNAVAILABLE, and
   with the gate CLOSED no write can be armed.

Met on the way, and the matter of no run: no document denies them, or they cannot happen
as deployed.

- *Vault.* Its duplicate test reads storage that the second loop has yet to write
  (`SuspenseVault.sol:99`), so an identifier twice in one batch passes it, where
  `docs/IMPLEMENTATION-PLAN-001.md:176` counts on a revert, and the second item overwrites
  the first. The server derives distinct identifiers and never sends such a batch.
- *Deployer.* Two overlapping invocations can both read nonce 0 and both deploy
  (`api/deploy-runtime-vault.js:84` and `:108`), and so can a later one when the node has lost
  a pending deployment. `LateNeverDeploys` is what does hold.
- *Endpoints.* A new operationId distributes to the same holders again
  (`lib/write-context.js:33`), where `docs/IMPLEMENTATION-PLAN-001.md:260` still describes
  identifiers fixed for each holder. Two `fund` operations each mint the shortfall they
  found (`api/fund.js:38`), where `index.html:294` says "to exactly 5 tokens"; behind
  finding 5 neither gets there.
- *Page.* A live read after a replay keeps the name VERIFIED_EXECUTION_REPLAY until its last
  verdict is shown (`index.html:330`), which is why `ReplayNeverLive` speaks of replayed
  states and of a running replay only. The first picture says LIVE_POLICY_CHECK before any
  read. The roster keeps the old verdicts when a read fails (`index.html:341`). A replay
  leaves the count of UNKNOWN as the last read set it, so that after a failed read it says
  5 beside rows PAID and RELEASED (`index.html:345`-`349`; `PictureOfOneCall` says which
  counts are possible).
- *Scripts.* A status query writes back the copy it read
  (`scripts/query-atoken-status.mjs:41`), over a newer launch or a newer status. A launch
  overwrites the last one, a refused one included. A script that dies between an accepted
  request or a deployment and its file loses it. `scripts/bootstrap-wallets.mjs:31`
  overwrites the keys of contracts already deployed.

## 5. Proofs

For all values of the constants:

| Module | Theorem | States | Assuming |
|---|---|---|---|
| `SuspenseVaultProofs` | `TypeCorrect` | `Spec => []TypeOK` | |
| | `BatchesCovered` | `Spec => []BatchCovered` | |
| | `NoAborts` | `Spec => BlockedNeverAborts` | |
| `SuspenseVaultLedgerProofs` | `LedgerAlways` | `Spec => []LedgerInv` | `DistinctCalls` |
| | `PaidOnce` | `Spec => []PaidExactlyOnce` | `DistinctCalls` |
| | `OneWay` | `Spec => Lifecycle` | `DistinctCalls` |
| | `BatchesRecorded` | `Spec => ItemsOnRecord` | `DistinctCalls` |
| | `VaultImplementsLedger` | `Spec => LedgerSpec` | `DistinctCalls` |
| `WriteOperationsProofs` | `WriteTypeCorrect` | `Spec => []TypeOK` | |
| | `OneTransaction` | `Spec => []OneTxPerReservation` | |
| | `ConfirmedIsMined` | `Spec => []ConfirmedMeansMined` | |
| | `OkIsSettled` | `Spec => []OkMeansSettled` | |
| | `SentIsMarked` | `Spec => []SentMeansMarked` | |
| | `FailedIsOver` | `Spec => []FailedMeansOver` | |
| | `EndpointsKeepTheLedger` | `Spec => LedgerSteps` | |
| `RuntimeDeployProofs` | `DeployerTypeCorrect` | `Spec => []TypeOK` | |
| | `ConfirmedDeployment` | `Spec => []ConfirmedMeansDeployed` | |
| | `LateInvocationsRefused` | `Spec => []LateNeverDeploys` | |
| `WriteAccessProofs` | `AccessTypeCorrect` | `Spec => []TypeOK` | |
| | `Authorised` | `Spec => []WritesAuthorised` | |
| `SettlementChamberProofs` | `ChamberTypeCorrect` | `Spec => []TypeOK` | |
| | `OneCallAtATime` | `Spec => []FlagsTellWhoRuns` | |
| | `ReplayKeptApart` | `Spec => []ReplayNeverLive` | |
| | `PairsStayTogether` | `Spec => []PairFromOneRead` | |
| | `AllowedVerdictsAreFresh` | `Spec => AllowedIsFresh` | |
| | `OnePictureAtATime` | `Spec => []PictureOfOneCall` | |
| `OnboardingProofs` | `OnboardingTypeCorrect` | `Spec => []TypeOK` | |
| | `FilesTellTheTruth` | `Spec => []RecordsAreTrue` | |
| | `VerdictOnItsRequest` | `Spec => []StatusOfRequest` | |
| | `OwnersRegister` | `Spec => []RegisteredByOwner` | |
| | `PassesAreAPrefix` | `Spec => []PassesInOrder` | |

and the named assumptions of the modules (`VaultConstants`, `WriteConstants`,
`DeployConstants`, `AccessConstants`, `CohortAssumption`, `NoneAssumption`,
`HoldersAssumption`), which TLC evaluates on every run. `WriteConstants` and
`DeployConstants` say among the rest that there are finitely many invocations
(`IsFiniteSet(Requests)`), because reservations are compared with how many invocations
made them; how many there are is arbitrary.

*Vault, funding.* `BatchCovered` is not inductive: at `AcceptBatch` one must know that
`required` really is the sum of the amounts, and at each item of the second loop
that the remaining prefix sums still differ by that item's amount. `BatchInv`
(`SuspenseVaultProofs`) says so: `required` grows by each amount, is kept by the
second loop, never decreases along the batch, and the balance covers
`required[Size] - required[next - 1] + held`. Sums over batches are avoided: the
model's `required` is a function of the prefix, so no induction over data is
needed. Type correctness comes first and carries the overflow test.

*Vault, ledger.* In the middle of a batch the storage is neither old nor new.
`LedgerInv` (`SuspenseVaultLedgerProofs`) relates it to the snapshot: items below
`next` were NONE in the snapshot and are settled or suspended as the policy
stands; the others are as in the snapshot, but for the one being decided, which is
READY and unpaid. From this, `Commit` is one `SettleBatch` of the ledger, `Revert`
a stutter, and every inner step a stutter; and at `Commit` every item is below `next`,
which is `BatchesRecorded`. `DistinctCalls` is needed: with an
identifier twice in a batch the theorems are false (section 4), and
the server's batches satisfy it.

*Replay keys.* Redis forgets: a key that expired can be reserved again, so "one
transaction for an operationId" is a matter of counting. `Reservations(k)`
(`ReplayKeysProofs`) is how often a key has been reserved, its expiries and the
reservation that stands; a `SET NX` that took effect adds one, an `XX` write none, and an
expiry moves one from the key to its expiries. It lies between two sets of invocations,
both of which change by one member at a time: no fewer than the `Winners`, which hold a
reservation they may still use, have used to send (from which `OneTransaction`) or will
mark FAILED, and no
more than the `Attempted`, which have called `reserveOperationId` (from which the
bound on expiries in `TypeOK`). An answer of Redis that is lost after it took effect
makes an `Attempted` invocation that is no `Winner`, and breaks neither bound.

*Endpoints.* `WriteInv` (`WriteOperationsProofs`) adds what the place of each invocation
tells. `PlaceOK`: past the reservation nothing is a dry run, a release has a target, and a
distribution leaves the preview only with all holders seen. `TxOK`: an invocation that may
still send has sent nothing, and the await before CONFIRMED is reached only with a mined
transaction, whence `ConfirmedMeansMined`. `SettledOK`: what a mined transaction did to the
vault stays, whatever is mined later; with `AnswerOK` it gives `OkMeansSettled`.
`MarkedInv`: an invocation at `send` has its key marked, since `updateOperationState` writes only
a key that is there and, while it has not expired, it is there from the reservation on.
`FailedInv`: while the node answers, an invocation comes to mark FAILED with nothing sent or a
reverted transaction; a key reserved once has one `Winner`, so nobody else sent for it. For `LedgerSteps` a mined
distribution is a `SettleBatch` and a mined release a `Release` of the ledger; all other
actions leave allocations and policy alone, a mint included, or are a change of policy. That is as much as holds: the whole
`Ledger!Spec` would say that nothing was claimed at the start, and the endpoints may be
started over a vault that has earlier distributions (`Earlier`).

*Deployer.* `LateInv` (`RuntimeDeployProofs`): while there are late invocations the node knows
of a deployment, so each of them reads a nonce that is not zero, or fails before, and gets no
further; this needs neither Redis nor the key. A deployment that is mined, though it displaces
others, is known afterwards (`StepMine`); one that is lost either leaves another that is known,
or nobody late (`StepEvict`). `SentInv` and `SeenInv` say which places have sent nothing and
which have seen the receipt.

*Access.* That a grant is recent depends on what cookies are worth long after they were
issued. `AccessInv` (`WriteAccessProofs`): a session token expires at most
SESSION_MAX_AGE after the last login under its secret, an arm token, in the jar or
in a request, at most WRITE_ARM_MAX_AGE after the last arming, and a request in
flight keeps what was true of its session on arrival.

*Page.* That a flag is given back by its own call, and by no other, is inductive once one
knows that a call is under way exactly while its flag is set (`FlagsTellWhoRuns` itself).
That no count exceeds the cohort needs the animation's loop: `LoopInv`
(`SettlementChamberProofs`) keeps the tally below the holder the loop is at, and every
holder of an answer decided. `RowsInv` adds that a replay has announced itself and a
refresh has cleared the rows, without which `ReplayNeverLive` does not survive a step of
either. `ChamberInv` is their conjunction. Lemmas say once what starting, going
on and ending mean for the flags (`CallBegins`, `CallGoesOn`, ...); each action is one of them.

*Page, verdicts.* `FetchInv` follows a read from its start: while a call fetches, what the
policy says now of a holder is among the grounds of that call, because `VerdictChange` adds
each new verdict to every read under way; and the policy's consent is among the grounds of
every holder the call has found ALLOWED. Only `ReadSucceeds` takes a call from its fetches to the animation (`OnlyReadSucceeds`), and it
keeps exactly these decisions.

*Page, picture.* `PictureOfOneCall` speaks of the moments when nothing runs, so its invariant
must say how much of the picture the running call has drawn. `PictureInv`: the animation has shown
the holders before the one it is at, in rows and roster, and its tally is the number of them
the answer calls ALLOWED and UNKNOWN (`AnimationInv`; `CountOneMore` is the step of that count);
a replay has paid the holders before its own (`ReplayInv`); unless an animation is under way
the roster has the last answer (`RosterInv`) and the count of UNKNOWN is that of the last read
(`UnknownsInv`); and a call that has not begun its loop
is at the first holder (`StartInv`), which is where a clause forgotten in `finally` would show. That
no second call draws meanwhile is `FlagsTellWhoRuns`.

*Scripts.* A file is true because the hand that wrote it was. `OnboardingInv`
(`OnboardingProofs`) says of every script at every point what it may have in hand
(`HandTrue`: past the check of the owner, a standing token of its key; past the post, a request
made for just that; at the write, a record that is true), and of every file that it is
true or unreadable. Scripts work on what they read long ago, so the argument needs that
nothing they read is ever taken back: `Kept` says that contracts keep kind and admin
once sent and stand once mined, and requests keep what they were made for and their
verdict. Each step is `Kept`; a file or hand that was true is then true after
it, and one lemma for each action looks at the hand that moved. `PassInv` adds, for the
A-Passes, that a run has provisioned all holders before the one it is at.

Only model-checked: liveness (`KeysExpire`, `CallsEnd`, `DueIsRead`), which is beyond the
prover. Every invariant and every action property of the passing runs is a theorem.

## 6. Not modelled

- `transferOwnership` and `renounceOwnership`, inherited by the vault and called
  nowhere: the owner is a constant.
- Balances other than the vault's, roles and RuleV2 administration of the token.
- The limiter's sliding windows: the library's. It may refuse any request. As deployed
  it refuses every `fund` and `write-arm` request (finding 5); `WriteOperations` shows what
  `fund` does once it is let through.
- `lib/policy-guard.js`, of which no endpoint uses more than a test that nothing makes
  true, and `lib/timestamp.js`, which formats.
- The operator lane of the page as it is displayed: login form, arm phrase, capability
  cells and log (`index.html:353`-`370`). A status answer that arrives after the lane was
  locked unlocks it again (`:363`); the lane decides nothing, as every request is judged by
  the server (`WritesAuthorised`). The actions themselves are requests of `WriteAccess` and
  `WriteOperations`. `demo/index.html` is a still page of evidence.
- In the scripts: compilation, printing, and the checks that only stop a script, which
  are deaths in the model. `scripts/probe*.mjs`, `verify-apass.mjs`,
  `validator-verify.mjs`, `phase-d-verification.mjs` and `deploy-runtime-vault-check.mjs`
  exercise the code above and keep nothing.
- Markup, wording, logging, encodings, the generated artifact, and the tests.

## 7. Plan

Done: the vault, its ledger; the write path with its replay keys and the three endpoints;
access; the deployer; the page with the read endpoints; the scripts; and the proofs of all
their safety properties.

1. What holds of the refuted properties, as theorems under the condition that saves them.
   `FailedIsOver` says it of FAILED (finding 3); that suspended value stays covered as long
   as every batch is funded on top of it and nobody burns (finding 1) is left.
2. The vault's owner as a variable, with the inherited transfers.
3. The operator lane of the page over `WriteAccess`.
