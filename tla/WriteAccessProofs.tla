--------------------------- MODULE WriteAccessProofs ---------------------------
(***************************************************************************)
(* WritesAuthorised for every number of requests, every set of secrets and *)
(* all ages.  It is not inductive: that a grant is recent follows from     *)
(* what the cookies are worth, long after they were issued.  AccessInv     *)
(* says it: a token never outlives the last login, or arming, by more than *)
(* its age, and a request keeps what was true of its session on arrival.   *)
(***************************************************************************)
EXTENDS WriteAccess, TLAPS

Tokens == [iss : {"none", "session", "arm"}, secret : Secrets \union {NoSecret}, exp : Int]

\* A token of this kind expires at most age after the last time one was earned.
Backed(t, iss, last, age) ==
    t.iss = iss /\ t.secret \in Secrets => t.exp <= last[t.secret] + age

ClockInv ==
    /\ now \in Int
    /\ lastLogin \in [Secrets -> Int]
    /\ lastArm \in [Secrets -> Int]
    /\ \A s \in Secrets : lastLogin[s] <= now /\ lastArm[s] <= now

JarInv ==
    /\ jar \in [session : Tokens, arm : Tokens]
    /\ Backed(jar.session, "session", lastLogin, SessionAge)
    /\ Backed(jar.arm, "arm", lastArm, ArmAge)

Calls == [to : Endpoints \union {"none"}, dryRun : BOOLEAN, env : Environments,
          arm : Tokens, at : Int, login : Int]

\* A request in flight arrived on a session that was still worth something.
RequestInv(q) ==
    /\ Backed(q.arm, "arm", lastArm, ArmAge)
    /\ q.to \notin {"none", "auth"} => q.at - q.login <= SessionAge

AccessInv ==
    /\ ClockInv
    /\ env \in Environments
    /\ JarInv
    /\ req \in [Requests -> Calls]
    /\ \A r \in Requests : RequestInv(req[r])
    /\ WritesAuthorised

-----------------------------------------------------------------------------

\* Nothing is in flight and nobody has a cookie.
LEMMA AccessInitially == Init => AccessInv
<1> SUFFICES ASSUME Init PROVE AccessInv
    OBVIOUS
<1> USE AccessConstants
<1>1. Never \in Int /\ Never <= 0
    BY DEF Never
<1>2. NoToken \in Tokens /\ NoToken.iss = "none"
    BY <1>1 DEF NoToken, Tokens
<1>3. ClockInv
    BY <1>1 DEF Init, ClockInv
<1>4. JarInv
    BY <1>2 DEF Init, JarInv, Backed
<1>5. NoRequest \in Calls
    BY <1>1, <1>2 DEF NoRequest, Calls, Environments, Gates
<1>6. \A r \in Requests : req[r] = NoRequest
    BY DEF Init
<1>7. RequestInv(NoRequest)
    BY <1>2 DEF NoRequest, RequestInv, Backed
<1>8. req \in [Requests -> Calls]
    BY <1>5 DEF Init
<1>9. WritesAuthorised
    BY DEF Init, NoGrant, WritesAuthorised
<1> QED
    BY <1>3, <1>4, <1>6, <1>7, <1>8, <1>9 DEF AccessInv, Init

\* What a verified token tells: its kind was earned at most its age ago.
LEMMA VerifiedIsRecent ==
    ASSUME NEW t \in Tokens, NEW secret, NEW iss, NEW last \in [Secrets -> Int],
           NEW age \in Nat, now \in Int,
           Backed(t, iss, last, age), Verify(t, secret, iss)
    PROVE  secret \in Secrets /\ now - last[secret] <= age
<1>1. secret \in Secrets /\ t.secret = secret /\ t.iss = iss /\ t.exp >= now
    BY DEF Verify
<1>2. t.exp <= last[secret] + age
    BY <1>1 DEF Backed
<1>3. last[secret] \in Int /\ t.exp \in Int
    BY <1>1 DEF Tokens
<1> QED
    BY <1>1, <1>2, <1>3

\* Earning anew only raises what the others are worth.
LEMMA BackedIsStable ==
    ASSUME NEW t \in Tokens, NEW iss, NEW last \in [Secrets -> Int], NEW age \in Nat,
           NEW secret, NEW when \in Int, \A s \in Secrets : last[s] <= when,
           Backed(t, iss, last, age)
    PROVE  Backed(t, iss, [last EXCEPT ![secret] = when], age)
<1> DEFINE next == [last EXCEPT ![secret] = when]
<1>1. \A s \in Secrets : next[s] \in Int /\ last[s] <= next[s]
    OBVIOUS
<1>2. SUFFICES ASSUME t.iss = iss, t.secret \in Secrets PROVE t.exp <= next[t.secret] + age
    BY DEF Backed
<1>3. t.exp <= last[t.secret] + age
    BY <1>2 DEF Backed
<1>4. t.exp \in Int /\ last[t.secret] \in Int
    BY <1>2 DEF Tokens
<1> HIDE DEF next
<1> QED
    BY <1>1, <1>2, <1>3, <1>4

\* When no token is earned and the jar stays as it is, a request may end.
LEMMA NothingEarned ==
    ASSUME AccessInv, UNCHANGED <<jar, lastLogin, lastArm>>,
           env' \in Environments, now' \in Int, now <= now',
           req' \in [Requests -> Calls],
           \A q \in Requests : req'[q] \in {req[q], NoRequest} \/ RequestInv(req'[q]),
           WritesAuthorised'
    PROVE  AccessInv'
<1>1. ClockInv'
    BY DEF AccessInv, ClockInv
<1>2. JarInv'
    BY DEF AccessInv, JarInv, Backed
<1>3. \A q \in Requests : RequestInv(req'[q])
    BY DEF AccessInv, RequestInv, Backed, NoRequest, NoToken
<1>4. \A q \in Requests : RequestInv(req[q])'
    BY <1>3 DEF RequestInv, Backed
<1> QED
    BY <1>1, <1>2, <1>4 DEF AccessInv

\* An answer ends its request and keeps the clock and the deployment.
LEMMA AnswerEnds ==
    ASSUME AccessInv, NEW r \in Requests, NEW code, Answer(r, code)
    PROVE  /\ now' = now /\ env' = env
           /\ req' \in [Requests -> Calls]
           /\ \A q \in Requests : req'[q] \in {req[q], NoRequest}
<1>1. Never \in Int
    BY AccessConstants DEF Never
<1>2. NoRequest \in Calls
    BY <1>1 DEF NoRequest, NoToken, Calls, Tokens, Environments, Gates
<1> QED
    BY <1>2 DEF AccessInv, Answer

\* A grant that WritesAuthorised allows: the session was fresh on arrival, and
\* for SESSION_ARM the arm is fresh now.
LEMMA GrantIsAuthorised ==
    ASSUME AccessInv, NEW r \in Requests, NEW what, Grant(r, what),
           req[r].to \notin {"none", "auth"},
           what = "SESSION_ARM" => Verify(req[r].arm, req[r].env.secret, "arm"),
           what \in {"ENV_OPEN", "SESSION_ARM"} => req[r].env.gate # "LOCKED"
    PROVE  WritesAuthorised'
<1> DEFINE q == req[r]
<1>1. q.arm \in Tokens /\ Backed(q.arm, "arm", lastArm, ArmAge) /\ q.at - q.login <= SessionAge
    BY DEF AccessInv, RequestInv, Calls
<1>2. lastArm \in [Secrets -> Int] /\ now \in Int /\ ArmAge \in Nat
    BY AccessConstants DEF AccessInv, ClockInv
<1>3. what = "SESSION_ARM" =>
         q.env.secret \in Secrets /\ now - lastArm[q.env.secret] <= ArmAge
    BY <1>1, <1>2, VerifiedIsRecent
<1>4. /\ granted'.what = what /\ granted'.gate = q.env.gate
      /\ granted'.at = now /\ granted'.checked = q.at /\ granted'.login = q.login
      /\ q.env.secret \in Secrets => granted'.arm = lastArm[q.env.secret]
    BY DEF Grant
<1> QED
    BY <1>1, <1>3, <1>4 DEF WritesAuthorised

\* Granting nothing is allowed.
LEMMA NoGrantIsAuthorised ==
    ASSUME granted' = NoGrant PROVE WritesAuthorised'
BY DEF NoGrant, WritesAuthorised

\* With the gate open to this arm, the mode is what the arm or the gate allows.
LEMMA OpenGateMode ==
    ASSUME NEW q, GateOpens(q.env, q.arm)
    PROVE  /\ Mode(q) = "SESSION_ARM" => Verify(q.arm, q.env.secret, "arm")
           /\ q.env.gate # "LOCKED"
BY DEF GateOpens, Mode

-----------------------------------------------------------------------------

LEMMA ArrivesKeeps ==
    ASSUME AccessInv, NEW r \in Requests, NEW to \in Asked, NEW dry \in BOOLEAN,
           Arrives(r, to, dry)
    PROVE  AccessInv'
<1> DEFINE q == [to |-> to, dryRun |-> dry, env |-> env, arm |-> jar.arm, at |-> now,
                 login |-> IF to = "auth" THEN Never ELSE lastLogin[env.secret]]
<1>1. /\ req' = [req EXCEPT ![r] = q]
      /\ to # "auth" => Verify(jar.session, env.secret, "session")
      /\ granted' = NoGrant
      /\ UNCHANGED <<now, env, jar, lastLogin, lastArm>>
    BY DEF Arrives
<1>2. /\ jar.session \in Tokens /\ Backed(jar.session, "session", lastLogin, SessionAge)
      /\ jar.arm \in Tokens /\ Backed(jar.arm, "arm", lastArm, ArmAge)
      /\ lastLogin \in [Secrets -> Int] /\ now \in Int /\ env \in Environments
      /\ SessionAge \in Nat
    BY AccessConstants DEF AccessInv, JarInv, ClockInv
<1>3. to # "auth" => env.secret \in Secrets /\ now - lastLogin[env.secret] <= SessionAge
    BY <1>1, <1>2, VerifiedIsRecent
<1>4. to \in Endpoints /\ Never \in Int
    BY AccessConstants DEF Never
<1>5. q.login \in Int
    BY <1>2, <1>3, <1>4
<1>6. q \in Calls
    BY <1>2, <1>4, <1>5 DEF Calls
<1>7. RequestInv(q)
    BY <1>2, <1>3 DEF RequestInv
<1> HIDE DEF q
<1>8. req' \in [Requests -> Calls]
    BY <1>1, <1>6 DEF AccessInv
<1>9. \A p \in Requests : req'[p] \in {req[p], NoRequest} \/ RequestInv(req'[p])
    BY <1>1, <1>7 DEF AccessInv
<1> QED
    BY <1>1, <1>2, <1>8, <1>9, NothingEarned, NoGrantIsAuthorised

LEMMA UnauthorisedKeeps ==
    ASSUME AccessInv, NEW to \in Asked, Unauthorised(to)
    PROVE  AccessInv'
<1>1. granted' = NoGrant /\ UNCHANGED <<now, env, req, jar, lastLogin, lastArm>>
    BY DEF Unauthorised
<1>2. env' \in Environments /\ now' \in Int /\ now <= now' /\ req' \in [Requests -> Calls]
    BY <1>1 DEF AccessInv, ClockInv
<1> QED
    BY <1>1, <1>2, NothingEarned, NoGrantIsAuthorised

LEMMA RateRefusedKeeps ==
    ASSUME AccessInv, NEW r \in Requests, RateRefused(r)
    PROVE  AccessInv'
<1>1. /\ \E code : Answer(r, code)
      /\ granted' = NoGrant /\ UNCHANGED <<jar, lastLogin, lastArm>>
    BY DEF RateRefused
<1>2. /\ now' = now /\ env' = env /\ req' \in [Requests -> Calls]
      /\ \A q \in Requests : req'[q] \in {req[q], NoRequest}
    BY <1>1, AnswerEnds
<1>3. env' \in Environments /\ now' \in Int /\ now <= now'
    BY <1>2 DEF AccessInv, ClockInv
<1> QED
    BY <1>1, <1>2, <1>3, NothingEarned, NoGrantIsAuthorised

LEMMA PassGateKeeps ==
    ASSUME AccessInv, NEW r \in Requests, NEW to \in Writes, PassGate(r, to)
    PROVE  AccessInv'
<1>1. /\ \E code : Answer(r, code)
      /\ UNCHANGED <<jar, lastLogin, lastArm>>
      /\ req[r].to \in Writes
    BY DEF PassGate, Passes
<1>2. /\ now' = now /\ env' = env /\ req' \in [Requests -> Calls]
      /\ \A q \in Requests : req'[q] \in {req[q], NoRequest}
    BY <1>1, AnswerEnds
<1>3. env' \in Environments /\ now' \in Int /\ now <= now'
    BY <1>2 DEF AccessInv, ClockInv
<1>4. \/ granted' = NoGrant
      \/ Grant(r, "DRY_RUN")
      \/ GateOpens(req[r].env, req[r].arm) /\ Grant(r, Mode(req[r]))
    BY DEF PassGate
<1>5. WritesAuthorised'
    BY <1>1, <1>4, NoGrantIsAuthorised, GrantIsAuthorised, OpenGateMode DEF Writes
<1> QED
    BY <1>1, <1>2, <1>3, <1>5, NothingEarned

LEMMA ReportStatusKeeps ==
    ASSUME AccessInv, NEW r \in Requests, ReportStatus(r)
    PROVE  AccessInv'
<1>1. /\ \E code : Answer(r, code)
      /\ UNCHANGED <<jar, lastLogin, lastArm>>
      /\ req[r].to = "write-status"
    BY DEF ReportStatus
<1>2. /\ now' = now /\ env' = env /\ req' \in [Requests -> Calls]
      /\ \A q \in Requests : req'[q] \in {req[q], NoRequest}
    BY <1>1, AnswerEnds
<1>3. env' \in Environments /\ now' \in Int /\ now <= now'
    BY <1>2 DEF AccessInv, ClockInv
<1>4. \/ granted' = NoGrant
      \/ GateOpens(req[r].env, req[r].arm) /\ Grant(r, Mode(req[r]))
    BY DEF ReportStatus
<1>5. WritesAuthorised'
    BY <1>1, <1>4, NoGrantIsAuthorised, GrantIsAuthorised, OpenGateMode
<1> QED
    BY <1>1, <1>2, <1>3, <1>5, NothingEarned

LEMMA ClockAndDeploymentKeep ==
    ASSUME AccessInv, Tick \/ \E e \in Environments : Redeploy(e)
    PROVE  AccessInv'
<1>1. /\ granted' = NoGrant /\ UNCHANGED <<req, jar, lastLogin, lastArm>>
      /\ now' \in {now, now + 1} /\ env' \in Environments
    BY DEF Tick, Redeploy, AccessInv
<1>2. now' \in Int /\ now <= now' /\ req' \in [Requests -> Calls]
    BY <1>1 DEF AccessInv, ClockInv
<1> QED
    BY <1>1, <1>2, NothingEarned, NoGrantIsAuthorised

-----------------------------------------------------------------------------
(* The two steps that earn a token.                                        *)

LEMMA AuthenticateKeeps ==
    ASSUME AccessInv, NEW r \in Requests, NEW secret \in Secrets, Authenticate(r, secret)
    PROVE  AccessInv'
<1> DEFINE e == req[r].env
           right == e.secret \in Secrets /\ secret = e.secret
           token == Issue("session", e.secret, SessionAge)
<1>1. /\ \E code : Answer(r, code)
      /\ granted' = NoGrant /\ lastArm' = lastArm
    BY DEF Authenticate
<1>2. /\ now' = now /\ env' = env /\ req' \in [Requests -> Calls]
      /\ \A q \in Requests : req'[q] \in {req[q], NoRequest}
    BY <1>1, AnswerEnds
<1>3. /\ env' \in Environments /\ now' \in Int /\ now <= now'
      /\ lastLogin \in [Secrets -> Int] /\ lastArm \in [Secrets -> Int]
      /\ \A s \in Secrets : lastLogin[s] <= now
      /\ now \in Int /\ SessionAge \in Nat
    BY <1>2, AccessConstants DEF AccessInv, ClockInv
<1>4. CASE UNCHANGED <<jar, lastLogin>>
    BY <1>1, <1>2, <1>3, <1>4, NothingEarned, NoGrantIsAuthorised
<1>5. CASE ~ UNCHANGED <<jar, lastLogin>>
    <2>1. /\ right
          /\ jar' = [jar EXCEPT !["session"] = token] \/ jar' = jar
          /\ lastLogin' = [lastLogin EXCEPT ![e.secret] = now]
        BY <1>5 DEF Authenticate, SetCookie
    <2>2. ClockInv'
        BY <1>1, <1>2, <1>3, <2>1 DEF AccessInv, ClockInv
    <2>3. token \in Tokens /\ Backed(token, "session", lastLogin', SessionAge)
        BY <1>3, <2>1 DEF Issue, Tokens, Backed
    <2>4. /\ jar.session \in Tokens /\ jar.arm \in Tokens
          /\ Backed(jar.session, "session", lastLogin, SessionAge)
          /\ Backed(jar.arm, "arm", lastArm, ArmAge)
          /\ jar \in [session : Tokens, arm : Tokens]
        BY DEF AccessInv, JarInv
    <2>5. Backed(jar.session, "session", lastLogin', SessionAge)
        BY <1>3, <2>1, <2>4, BackedIsStable
    <2>6. JarInv'
        <3> HIDE DEF token
        <3>1. jar' \in [session : Tokens, arm : Tokens]
            BY <2>1, <2>3, <2>4
        <3>2. jar'.session \in {token, jar.session} /\ jar'.arm = jar.arm
            BY <2>1, <2>4
        <3>3. Backed(jar'.session, "session", lastLogin', SessionAge)
            BY <2>3, <2>5, <3>2
        <3>4. Backed(jar'.arm, "arm", lastArm', ArmAge)
            BY <1>1, <2>4, <3>2
        <3> QED
            BY <3>1, <3>3, <3>4 DEF JarInv, Backed
    <2>7. \A q \in Requests : RequestInv(req[q])'
        BY <1>1, <1>2 DEF AccessInv, RequestInv, Backed, NoRequest, NoToken
    <2> QED
        BY <1>1, <1>2, <1>3, <2>2, <2>6, <2>7, NoGrantIsAuthorised DEF AccessInv
<1> QED
    BY <1>4, <1>5

LEMMA ArmWritesKeeps ==
    ASSUME AccessInv, NEW r \in Requests, NEW confirmed \in BOOLEAN, ArmWrites(r, confirmed)
    PROVE  AccessInv'
<1> DEFINE e == req[r].env
           token == Issue("arm", e.secret, ArmAge)
<1>1. /\ \E code : Answer(r, code)
      /\ lastLogin' = lastLogin
      /\ req[r].to = "write-arm"
    BY DEF ArmWrites, Passes
<1>2. /\ now' = now /\ env' = env /\ req' \in [Requests -> Calls]
      /\ \A q \in Requests : req'[q] \in {req[q], NoRequest}
    BY <1>1, AnswerEnds
<1>3. /\ env' \in Environments /\ now' \in Int /\ now <= now'
      /\ lastLogin \in [Secrets -> Int] /\ lastArm \in [Secrets -> Int]
      /\ \A s \in Secrets : lastArm[s] <= now
      /\ now \in Int /\ ArmAge \in Nat /\ SessionAge \in Nat
      /\ e \in Environments
    BY <1>2, AccessConstants DEF AccessInv, ClockInv, Calls
<1>4. granted' = NoGrant \/ Grant(r, "arm")
    BY DEF ArmWrites
<1>5. WritesAuthorised'
    BY <1>1, <1>4, NoGrantIsAuthorised, GrantIsAuthorised
<1>6. CASE UNCHANGED <<jar, lastArm>>
    BY <1>1, <1>2, <1>3, <1>5, <1>6, NothingEarned
<1>7. CASE ~ UNCHANGED <<jar, lastArm>>
    <2>1. /\ jar' = [jar EXCEPT !["arm"] = token] \/ jar' = jar
          /\ lastArm' = [lastArm EXCEPT ![e.secret] = now]
        BY <1>7 DEF ArmWrites, SetCookie
    <2>2. ClockInv'
        BY <1>1, <1>2, <1>3, <2>1 DEF AccessInv, ClockInv
    <2>3. token \in Tokens /\ Backed(token, "arm", lastArm', ArmAge)
        BY <1>3, <2>1 DEF Issue, Tokens, Backed, Environments
    <2>4. /\ jar.session \in Tokens /\ jar.arm \in Tokens
          /\ Backed(jar.session, "session", lastLogin, SessionAge)
          /\ Backed(jar.arm, "arm", lastArm, ArmAge)
          /\ jar \in [session : Tokens, arm : Tokens]
        BY DEF AccessInv, JarInv
    <2>5. \A t \in Tokens : Backed(t, "arm", lastArm, ArmAge) => Backed(t, "arm", lastArm', ArmAge)
        BY <1>3, <2>1, BackedIsStable
    <2>6. JarInv'
        <3> HIDE DEF token
        <3>1. jar' \in [session : Tokens, arm : Tokens]
            BY <2>1, <2>3, <2>4
        <3>2. jar'.arm \in {token, jar.arm} /\ jar'.session = jar.session
            BY <2>1, <2>4
        <3>3. Backed(jar'.arm, "arm", lastArm', ArmAge)
            BY <2>3, <2>4, <2>5, <3>2
        <3>4. Backed(jar'.session, "session", lastLogin', SessionAge)
            BY <1>1, <2>4, <3>2
        <3> QED
            BY <3>1, <3>3, <3>4 DEF JarInv, Backed
    <2>7. \A q \in Requests : RequestInv(req[q])'
        <3> SUFFICES ASSUME NEW q \in Requests PROVE RequestInv(req[q])'
            OBVIOUS
        <3>1. CASE req'[q] = NoRequest
            BY <3>1 DEF RequestInv, Backed, NoRequest, NoToken
        <3>2. CASE req'[q] = req[q]
            <4>1. RequestInv(req[q]) /\ req[q].arm \in Tokens
                BY DEF AccessInv, Calls
            <4>2. Backed(req[q].arm, "arm", lastArm', ArmAge)
                BY <2>5, <4>1 DEF RequestInv
            <4> QED
                BY <3>2, <4>1, <4>2 DEF RequestInv, Backed
        <3> QED
            BY <1>2, <3>1, <3>2
    <2> QED
        BY <1>2, <1>3, <1>5, <2>2, <2>6, <2>7 DEF AccessInv
<1> QED
    BY <1>6, <1>7

\* Every step keeps AccessInv.
LEMMA AccessStep == AccessInv /\ [Next]_vars => AccessInv'
<1> SUFFICES ASSUME AccessInv, [Next]_vars PROVE AccessInv'
    OBVIOUS
<1>1. CASE \E r \in Requests, to \in Asked, dry \in BOOLEAN : Arrives(r, to, dry)
    BY <1>1, ArrivesKeeps
<1>2. CASE \E to \in Asked : Unauthorised(to)
    BY <1>2, UnauthorisedKeeps
<1>3. ASSUME NEW r \in Requests,
             \/ RateRefused(r)
             \/ \E secret \in Secrets : Authenticate(r, secret)
             \/ \E confirmed \in BOOLEAN : ArmWrites(r, confirmed)
             \/ \E to \in Writes : PassGate(r, to)
             \/ ReportStatus(r)
      PROVE  AccessInv'
    BY <1>3, RateRefusedKeeps, AuthenticateKeeps, ArmWritesKeeps, PassGateKeeps,
       ReportStatusKeeps
<1>4. CASE Tick \/ \E e \in Environments : Redeploy(e)
    BY <1>4, ClockAndDeploymentKeep
<1>5. CASE UNCHANGED vars
    <2>1. UNCHANGED <<now, env, jar, req, lastLogin, lastArm, granted>>
        BY <1>5 DEF vars
    <2> QED
        BY <2>1 DEF AccessInv, ClockInv, JarInv, RequestInv, Backed, WritesAuthorised
<1> QED
    BY <1>1, <1>2, <1>3, <1>4, <1>5 DEF Next

\* Nobody is let write, arm or see an open gate on a session, or an arm, that is
\* older than its age; LOCKED lets no write through.
THEOREM Authorised == Spec => []WritesAuthorised
<1>1. AccessInv => WritesAuthorised
    BY DEF AccessInv
<1> QED
    BY <1>1, AccessInitially, AccessStep, PTL DEF Spec

-----------------------------------------------------------------------------
(* Types: TypeOK is inductive by itself.                                   *)

\* The tokens the server can have issued before the clock stops.
Cookies == [iss : {"none", "session", "arm"}, secret : Secrets \union {NoSecret},
            exp : {Never} \union 0 .. MaxTime + SessionAge + ArmAge]
Moments == Times \union {Never}
Flights == [to : Endpoints \union {"none"}, dryRun : BOOLEAN, env : Environments,
            arm : Cookies, at : Moments, login : Moments]

TypesInv ==
    /\ now \in Times
    /\ env \in Environments
    /\ jar \in [session : Cookies, arm : Cookies]
    /\ req \in [Requests -> Flights]
    /\ asked \in 0 .. MaxRequests
    /\ lastLogin \in [Secrets -> Moments]
    /\ lastArm \in [Secrets -> Moments]
    /\ granted.what \in Grants

LEMMA TypesAreTypeOK == TypesInv <=> TypeOK
BY DEF TypesInv, TypeOK, Cookies, Moments, Flights

LEMMA NoRequestType == NoToken \in Cookies /\ NoRequest \in Flights
BY AccessConstants DEF NoToken, NoRequest, Cookies, Flights, Moments, Environments, Gates

LEMMA TypesInitially == Init => TypesInv
<1> SUFFICES ASSUME Init PROVE TypesInv
    OBVIOUS
<1>1. 0 \in Times /\ 0 \in 0 .. MaxRequests
    BY AccessConstants DEF Times
<1> QED
    BY <1>1, NoRequestType DEF Init, TypesInv, Moments, NoGrant, Grants

\* A cookie expires within the ages of the last tick.
LEMMA IssuedType ==
    ASSUME TypesInv, NEW iss \in {"session", "arm"}, NEW secret \in Secrets \union {NoSecret},
           NEW age \in {SessionAge, ArmAge}
    PROVE  Issue(iss, secret, age) \in Cookies
<1>1. now + age \in 0 .. MaxTime + SessionAge + ArmAge
    BY AccessConstants DEF TypesInv, Times
<1> QED
    BY <1>1 DEF Issue, Cookies

\* What an answer leaves of the types, whatever it grants.
LEMMA AnswerTypes ==
    ASSUME TypesInv, NEW r \in Requests, NEW code, Answer(r, code)
    PROVE  /\ now' \in Times /\ env' \in Environments /\ asked' \in 0 .. MaxRequests
           /\ req' \in [Requests -> Flights]
BY NoRequestType DEF TypesInv, Answer

LEMMA ArrivalTypes ==
    ASSUME TypesInv, NEW r \in Requests, NEW to \in Asked, NEW dry \in BOOLEAN,
           Arrives(r, to, dry)
    PROVE  TypesInv'
<1> DEFINE q == [to |-> to, dryRun |-> dry, env |-> env, arm |-> jar.arm, at |-> now,
                 login |-> IF to = "auth" THEN Never ELSE lastLogin[env.secret]]
<1>1. req' = [req EXCEPT ![r] = q]
    BY DEF Arrives
<1>2. to # "auth" => env.secret \in Secrets
    BY DEF Arrives, Verify
<1>3. q \in Flights
    BY <1>2, AccessConstants DEF TypesInv, Flights, Moments
<1>4. asked' \in 0 .. MaxRequests
    BY AccessConstants DEF Arrives, Asks, TypesInv
<1> HIDE DEF q
<1> QED
    BY <1>1, <1>3, <1>4 DEF TypesInv, Arrives, NoGrant, Grants

LEMMA ReplyTypes ==
    ASSUME TypesInv, NEW r \in Requests,
           \/ RateRefused(r)
           \/ \E secret \in Secrets : Authenticate(r, secret)
           \/ \E confirmed \in BOOLEAN : ArmWrites(r, confirmed)
           \/ \E to \in Writes : PassGate(r, to)
           \/ ReportStatus(r)
    PROVE  TypesInv'
<1>1. req[r].env \in Environments /\ req[r].env.secret \in Secrets \union {NoSecret}
    BY DEF TypesInv, Flights, Environments
<1>2. \E code : Answer(r, code)
    BY DEF RateRefused, Authenticate, ArmWrites, PassGate, ReportStatus
<1>3. /\ now' \in Times /\ env' \in Environments /\ asked' \in 0 .. MaxRequests
      /\ req' \in [Requests -> Flights]
    BY <1>2, AnswerTypes
<1>4. jar' \in [session : Cookies, arm : Cookies]
    <2>1. CASE jar' = jar
        BY <2>1 DEF TypesInv
    <2>2. CASE \/ SetCookie("session", Issue("session", req[r].env.secret, SessionAge))
               \/ SetCookie("arm", Issue("arm", req[r].env.secret, ArmAge))
        BY <1>1, <2>2, IssuedType DEF SetCookie, TypesInv
    <2> QED
        BY <2>1, <2>2 DEF RateRefused, Authenticate, ArmWrites, PassGate, ReportStatus
<1>5. lastLogin' \in [Secrets -> Moments] /\ lastArm' \in [Secrets -> Moments]
    BY DEF RateRefused, Authenticate, ArmWrites, PassGate, ReportStatus, TypesInv, Moments
<1>6. granted'.what \in Grants
    BY DEF RateRefused, Authenticate, ArmWrites, PassGate, ReportStatus, Grant, NoGrant, Mode,
           Grants
<1> QED
    BY <1>3, <1>4, <1>5, <1>6 DEF TypesInv

\* Every variable of the operator's access keeps its type: no cookie expires
\* later than the clock and the two ages allow, and every request in flight
\* keeps an environment and an arm that the server gave it.
THEOREM AccessTypeCorrect == Spec => []TypeOK
<1>1. TypesInv /\ [Next]_vars => TypesInv'
    <2> SUFFICES ASSUME TypesInv, [Next]_vars PROVE TypesInv'
        OBVIOUS
    <2>1. CASE \E r \in Requests, to \in Asked, dry \in BOOLEAN : Arrives(r, to, dry)
        BY <2>1, ArrivalTypes
    <2>2. CASE \E to \in Asked : Unauthorised(to)
        BY <2>2, AccessConstants DEF Unauthorised, Asks, TypesInv, NoGrant, Grants
    <2>3. ASSUME NEW r \in Requests,
                 \/ RateRefused(r)
                 \/ \E secret \in Secrets : Authenticate(r, secret)
                 \/ \E confirmed \in BOOLEAN : ArmWrites(r, confirmed)
                 \/ \E to \in Writes : PassGate(r, to)
                 \/ ReportStatus(r)
          PROVE  TypesInv'
        BY <2>3, ReplyTypes
    <2>4. CASE Tick \/ \E e \in Environments : Redeploy(e)
        BY <2>4, AccessConstants DEF Tick, Redeploy, TypesInv, Times, NoGrant, Grants
    <2>5. CASE UNCHANGED vars
        BY <2>5 DEF vars, TypesInv
    <2> QED
        BY <2>1, <2>2, <2>3, <2>4, <2>5 DEF Next
<1> QED
    BY <1>1, TypesInitially, TypesAreTypeOK, PTL DEF Spec

=============================================================================
