------------------------------ MODULE WriteAccess ------------------------------
(***************************************************************************)
(* Who may write: the operator session (api/auth.js), the short-lived arm  *)
(* (api/write-arm.js), and the gate every write passes first               *)
(* (lib/write-context.js), with the tokens of lib/auth.js and the rate     *)
(* limiter of lib/ratelimit.js.                                            *)
(*                                                                         *)
(* The operator's browser has one cookie jar and several requests in       *)
(* flight.  A request has two steps, before and after the await of the     *)
(* rate limiter (of the chain, for write-status), and time passes between  *)
(* them.  An invocation keeps the environment of the deployment it started *)
(* on.  Signatures are perfect: a token is the fact that it was issued.    *)
(***************************************************************************)
EXTENDS Integers

CONSTANTS
    Requests,    \* requests the operator's browser can have in flight
    Secrets,     \* OPERATOR_AUTH_SECRETs of 32 bytes or more
    NoSecret,    \* one that is missing or too short
    Asked,       \* BOUND: the endpoints the operator asks
    Limited,     \* the endpoints that lib/ratelimit.js has limits for
    SessionAge,  \* SESSION_MAX_AGE
    ArmAge,      \* WRITE_ARM_MAX_AGE
    MaxTime,     \* BOUND: the clock stops there
    MaxRequests  \* BOUND: requests of one run

Gates == {"CLOSED", "OPEN", "LOCKED"}
Writes == {"fund", "distribute", "release"}
Endpoints == Writes \union {"auth", "write-arm", "write-status"}
Environments == [secret : Secrets \union {NoSecret}, gate : Gates]
Times == 0 .. MaxTime
Never == -1 - SessionAge - ArmAge

ASSUME AccessConstants ==
    /\ NoSecret \notin Secrets
    /\ Asked \subseteq Endpoints /\ Limited \subseteq Endpoints
    /\ SessionAge \in Nat /\ ArmAge \in Nat
    /\ MaxTime \in Nat /\ MaxRequests \in Nat

VARIABLES
    now,        \* seconds
    env,        \* what the current deployment is configured with
    jar,        \* the cookies "session" and "write_arm"
    req,        \* the requests in flight
    asked,      \* how many requests were made
    reply,      \* the endpoint and the code of the answer just given
    lastLogin,  \* when each secret was last presented and accepted
    lastArm,    \* when an arm was last issued under each secret
    granted     \* what the operator was just let do, or told is open

vars == <<now, env, jar, req, asked, reply, lastLogin, lastArm, granted>>

NoToken == [iss |-> "none", exp |-> Never, secret |-> NoSecret]
NoRequest == [to |-> "none", dryRun |-> FALSE, env |-> [secret |-> NoSecret, gate |-> "CLOSED"],
              arm |-> NoToken, at |-> Never, login |-> Never]
NoReply == <<"none", "none">>
NoGrant == [what |-> "none", gate |-> "CLOSED", at |-> Never, checked |-> Never,
            login |-> Never, arm |-> Never]
Grants == {"none", "arm", "DRY_RUN", "ENV_OPEN", "SESSION_ARM"}

Init ==
    /\ now = 0
    /\ env \in Environments
    /\ jar = [session |-> NoToken, arm |-> NoToken]
    /\ req = [r \in Requests |-> NoRequest]
    /\ asked = 0
    /\ reply = NoReply
    /\ lastLogin = [s \in Secrets |-> Never]
    /\ lastArm = [s \in Secrets |-> Never]
    /\ granted = NoGrant

-----------------------------------------------------------------------------
(* Tokens.                                                                 *)

\* Mutation: exp is in milliseconds, the clock in seconds.
IssueMilliseconds(iss, secret, age) == [iss |-> iss, exp |-> 1000 * (now + age), secret |-> secret]

Issue(iss, secret, age) == [iss |-> iss, exp |-> now + age, secret |-> secret]

\* Mutation: exp is not compared with the clock.
VerifyForever(t, secret, iss) ==
    /\ secret \in Secrets
    /\ t.secret = secret
    /\ t.iss = iss

Verify(t, secret, iss) ==
    /\ secret \in Secrets
    /\ t.secret = secret
    /\ t.iss = iss
    /\ t.exp >= now

\* evaluateWriteArm
GateOpens(e, arm) ==
    \/ e.gate = "OPEN"
    \/ e.gate = "CLOSED" /\ Verify(arm, e.secret, "arm")

-----------------------------------------------------------------------------
(* Requests.                                                               *)

Asks ==
    /\ asked < MaxRequests
    /\ asked' = asked + 1

\* The operator's request reaches the deployment.  Its first, synchronous part
\* checks the session, except for auth.
Arrives(r, to, dry) ==
    /\ req[r] = NoRequest
    /\ to # "auth" => Verify(jar.session, env.secret, "session")
    /\ dry => to \in Writes
    /\ req' = [req EXCEPT ![r] =
                 [to |-> to, dryRun |-> dry, env |-> env, arm |-> jar.arm, at |-> now,
                  login |-> IF to = "auth" THEN Never ELSE lastLogin[env.secret]]]
    /\ reply' = NoReply
    /\ granted' = NoGrant
    /\ Asks
    /\ UNCHANGED <<now, env, jar, lastLogin, lastArm>>

\* No session, and nothing else is looked at.
Unauthorised(to) ==
    /\ to # "auth"
    /\ ~Verify(jar.session, env.secret, "session")
    /\ reply' = <<to, "UNAUTHORIZED">>
    /\ granted' = NoGrant
    /\ Asks
    /\ UNCHANGED <<now, env, req, jar, lastLogin, lastArm>>

Answer(r, code) ==
    /\ req' = [req EXCEPT ![r] = NoRequest]
    /\ reply' = <<req[r].to, code>>
    /\ UNCHANGED <<now, env, asked>>

\* checkRateLimit, with Redis up: an endpoint without a limit is answered 503.
RateRefused(r) ==
    /\ req[r] # NoRequest
    /\ req[r].to # "write-status"
    /\ \/ Answer(r, "RATE_LIMIT_UNAVAILABLE") /\ req[r].to \notin Limited
       \/ Answer(r, "RATE_LIMITED") /\ req[r].to \in Limited
    /\ granted' = NoGrant
    /\ UNCHANGED <<jar, lastLogin, lastArm>>

Passes(r, to) == req[r].to = to /\ to \in Limited

\* The answer may be lost on its way: then its cookie is, too.
SetCookie(name, token) == jar' = [jar EXCEPT ![name] = token] \/ jar' = jar

Authenticate(r, secret) ==
    LET e == req[r].env
        right == e.secret \in Secrets /\ secret = e.secret IN
    /\ Passes(r, "auth")
    /\ \/ right
          /\ Answer(r, "OK")
          /\ SetCookie("session", Issue("session", e.secret, SessionAge))
          /\ lastLogin' = [lastLogin EXCEPT ![e.secret] = now]
       \/ ~right
          /\ Answer(r, IF e.secret \in Secrets THEN "UNAUTHORIZED" ELSE "AUTH_CONFIG")
          /\ UNCHANGED <<jar, lastLogin>>
    /\ granted' = NoGrant
    /\ UNCHANGED lastArm

Grant(r, what) ==
    LET q == req[r] IN
    granted' = [what |-> what, gate |-> q.env.gate, at |-> now, checked |-> q.at,
                login |-> q.login,
                arm |-> IF q.env.secret \in Secrets THEN lastArm[q.env.secret] ELSE Never]

Mode(q) == IF q.env.gate = "OPEN" THEN "ENV_OPEN" ELSE "SESSION_ARM"

ArmWrites(r, confirmed) ==
    LET e == req[r].env IN
    /\ Passes(r, "write-arm")
    /\ \/ confirmed
          /\ Answer(r, "OK")
          /\ SetCookie("arm", Issue("arm", e.secret, ArmAge))
          /\ lastArm' = [lastArm EXCEPT ![e.secret] = now]
          /\ Grant(r, "arm")
       \/ ~confirmed
          /\ Answer(r, "WRITE_ARM_CONFIRMATION_REQUIRED")
          /\ granted' = NoGrant
          /\ UNCHANGED <<jar, lastArm>>
    /\ UNCHANGED lastLogin

\* buildWriteContext after its rate limit: the vault and the body can be wrong;
\* then requireWriteGate.  What follows a pass is in WriteOperations.
PassGate(r, to) ==
    LET q == req[r] IN
    /\ Passes(r, to)
    /\ \/ Answer(r, "REFUSED") /\ granted' = NoGrant
       \/ q.dryRun /\ Answer(r, "GO") /\ Grant(r, "DRY_RUN")
       \/ /\ ~q.dryRun /\ GateOpens(q.env, q.arm)
          /\ Answer(r, "GO")
          /\ Grant(r, Mode(q))
       \/ /\ ~q.dryRun /\ ~GateOpens(q.env, q.arm)
          /\ Answer(r, "WRITE_GATE_CLOSED") /\ granted' = NoGrant
    /\ UNCHANGED <<jar, lastLogin, lastArm>>

\* write-status: session, chain, then what the gate would say.
ReportStatus(r) ==
    LET q == req[r] IN
    /\ q.to = "write-status"
    /\ \/ Answer(r, "WRITE_STATUS_UNAVAILABLE") /\ granted' = NoGrant
       \/ ~GateOpens(q.env, q.arm) /\ Answer(r, "INACTIVE") /\ granted' = NoGrant
       \/ GateOpens(q.env, q.arm) /\ Answer(r, "ACTIVE") /\ Grant(r, Mode(q))
    /\ UNCHANGED <<jar, lastLogin, lastArm>>

-----------------------------------------------------------------------------
(* Time and configuration.                                                 *)

Tick ==
    /\ now < MaxTime
    /\ now' = now + 1
    /\ reply' = NoReply
    /\ granted' = NoGrant
    /\ UNCHANGED <<env, jar, req, asked, lastLogin, lastArm>>

Redeploy(e) ==
    /\ env' = e
    /\ reply' = NoReply
    /\ granted' = NoGrant
    /\ UNCHANGED <<now, jar, req, asked, lastLogin, lastArm>>

Next ==
    \/ \E r \in Requests, to \in Asked, dry \in BOOLEAN : Arrives(r, to, dry)
    \/ \E to \in Asked : Unauthorised(to)
    \/ \E r \in Requests :
          \/ RateRefused(r)
          \/ \E secret \in Secrets : Authenticate(r, secret)
          \/ \E confirmed \in BOOLEAN : ArmWrites(r, confirmed)
          \/ \E to \in Writes : PassGate(r, to)
          \/ ReportStatus(r)
    \/ Tick
    \/ \E e \in Environments : Redeploy(e)

Spec == Init /\ [][Next]_vars

-----------------------------------------------------------------------------
(* Properties.                                                             *)

\* Every variable keeps its type.
TypeOK ==
    LET Tokens == [iss : {"none", "session", "arm"}, secret : Secrets \union {NoSecret},
                   exp : {Never} \union 0 .. MaxTime + SessionAge + ArmAge] IN
    /\ now \in Times
    /\ env \in Environments
    /\ jar \in [session : Tokens, arm : Tokens]
    /\ req \in [Requests ->
                [to : Endpoints \union {"none"}, dryRun : BOOLEAN, env : Environments,
                 arm : Tokens, at : Times \union {Never},
                 login : Times \union {Never}]]
    /\ asked \in 0 .. MaxRequests
    /\ lastLogin \in [Secrets -> Times \union {Never}]
    /\ lastArm \in [Secrets -> Times \union {Never}]
    /\ granted.what \in Grants

\* Whatever an operator is let do, or told is open, somebody had presented the
\* current secret at most SESSION_MAX_AGE before the request; a write by arm was
\* confirmed at most WRITE_ARM_MAX_AGE before the gate; and LOCKED lets none
\* through.  However requests, waits, logins, rotations of the secret and
\* changes of the gate interleave.
WritesAuthorised ==
    LET g == granted IN
    g.what # "none" =>
       /\ g.checked - g.login <= SessionAge
       /\ g.what = "SESSION_ARM" => g.at - g.arm <= ArmAge
       /\ g.what \in {"ENV_OPEN", "SESSION_ARM"} => g.gate # "LOCKED"

\* "Explicit short-lived write arming": with Redis up, the arm endpoint is not
\* answered that the rate limiter is unavailable.
ArmingAvailable == reply # <<"write-arm", "RATE_LIMIT_UNAVAILABLE">>

===============================================================================
