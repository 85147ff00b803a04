-------------------------- MODULE SettlementChamber --------------------------
(***************************************************************************)
(* The public part of the page (the script of index.html): the live read   *)
(* of chain and policy, the replay of the verified execution, the clock    *)
(* that reads again every 20 s, and the page's being hidden or shown.      *)
(*                                                                         *)
(* The browser runs one handler at a time up to its next await; a call of  *)
(* refreshLive or replaySettlement is a process, and an action is what it  *)
(* does between two awaits.  Titles, copy and animations are left out.     *)
(***************************************************************************)
EXTENDS ReadEndpoints

VARIABLES
    pc,              \* where each call is
    at,              \* the holder its loop is at
    tally,           \* how many ALLOWED and UNKNOWN it has counted
    replaying, refreshing,         \* the flags of the script
    replayDisabled, liveDisabled,  \* the two buttons
    hidden,          \* document.hidden
    due,             \* Date.now() >= nextReadAt
    row, roster,     \* the state shown for each holder, in either list
    reality,         \* the reality class shown (meta-reality)
    summary, unknowns,             \* the two counts shown
    liveStatus, liveEligibility    \* the answers kept, and of which call

flags == <<replaying, refreshing, replayDisabled, liveDisabled>>
picture == <<row, roster, reality, summary, unknowns>>
answers == <<liveStatus, liveEligibility>>
page == <<pc, at, tally, flags, hidden, due, picture, answers>>
vars == <<verdict, endpoints, page>>

LiveStates == {"allowed", "blocked", "unknown"}
ReplayStates == {"paid", "suspended", "recheck", "released"}
RowStates == {"queued", "scanning"} \union LiveStates \union ReplayStates
Realities == {"LIVE_POLICY_CHECK", "LIVE_READ_UNAVAILABLE",
              "VERIFIED_EXECUTION_REPLAY"}
RefreshPcs == {"fetching", "animating"}
ReplayPcs == {"queued", "scanning", "marked", "settled", "rechecking", "released"}
Dash == -1                  \* a count shown as a dash
Nobody == "nobody"
NoStatus == [by |-> Nobody]
NoRead == [by |-> Nobody, holders |-> Undecided]
ZeroTally == [allowed |-> 0, unknown |-> 0]

\* classifyLive
ClassifyLive(d) ==
    CASE d = "ALLOWED" -> "allowed" [] d = "BLOCKED" -> "blocked" [] OTHER -> "unknown"

Show(h, state) == row' = [row EXCEPT ![h] = state]
ShowAll(state) == row' = [h \in Holders |-> state]

Init ==
    /\ EndpointsInit
    /\ pc = [c \in Calls |-> "idle"]
    /\ at = [c \in Calls |-> 1]
    /\ tally = [c \in Calls |-> ZeroTally]
    /\ replaying = FALSE /\ refreshing = FALSE
    /\ replayDisabled = FALSE /\ liveDisabled = FALSE
    /\ hidden \in BOOLEAN
    /\ due = FALSE
    /\ row = [h \in Holders |-> "queued"]
    /\ roster = [h \in Holders |-> "unknown"]
    /\ reality = "LIVE_POLICY_CHECK"
    /\ summary = Dash /\ unknowns = Dash
    /\ liveStatus = NoStatus /\ liveEligibility = NoRead

-----------------------------------------------------------------------------
(* refreshLive                                                             *)

\* What refreshLive does up to the fetches, once it goes on.
StartReading(c) ==
    /\ pc[c] = "idle"
    /\ refreshing' = TRUE
    /\ liveDisabled' = TRUE
    /\ ShowAll("queued")
    /\ pc' = [pc EXCEPT ![c] = "fetching"]
    /\ Fetch(c)
    /\ UNCHANGED <<verdict, at, tally, replaying, replayDisabled, due, roster,
                   reality, summary, unknowns, answers>>

\* Mutation: a replay under way does not keep a live read from starting.
BeginRefreshOverReplay(c) == ~refreshing /\ StartReading(c)

BeginRefresh(c) == ~replaying /\ ~refreshing /\ StartReading(c)

\* The load of the page, the button, and the end of an operator's action,
\* which does not ask whether the button is enabled.
ManualRefresh(c) ==
    /\ ~hidden
    /\ BeginRefresh(c)
    /\ UNCHANGED hidden

\* Mutation: the clock reads again only once there is something to renew.
ClockAfterFirst(c) ==
    /\ due
    /\ ~hidden
    /\ liveEligibility # NoRead
    /\ BeginRefresh(c)
    /\ UNCHANGED hidden

\* updateClock, every second
Clock(c) ==
    /\ due
    /\ ~hidden
    /\ BeginRefresh(c)
    /\ UNCHANGED hidden

EndRefresh(c) ==
    /\ refreshing' = FALSE
    /\ liveDisabled' = FALSE
    /\ pc' = [pc EXCEPT ![c] = "idle"]
    /\ at' = [at EXCEPT ![c] = 1]
    /\ tally' = [tally EXCEPT ![c] = ZeroTally]
    /\ Forget(c)

\* A fetch rejects, or both have answered and one of them is not ok.
ReadIsFailed(c) ==
    LET both == {status[c], eligibility[c]} IN
    /\ pc[c] = "fetching"
    /\ "lost" \in both \/ ("refused" \in both /\ both \subseteq {"ok", "refused"})

ShowFailure ==
    /\ ShowAll("unknown")
    /\ reality' = "LIVE_READ_UNAVAILABLE"
    /\ summary' = Dash
    /\ unknowns' = Cohort
    /\ due' = FALSE

\* Mutation: the status is kept before the policy's answer is looked at.
ReadFailsHalf(c) ==
    /\ ReadIsFailed(c)
    /\ liveStatus' = IF status[c] = "ok" THEN [by |-> c] ELSE liveStatus
    /\ ShowFailure
    /\ EndRefresh(c)
    /\ UNCHANGED <<verdict, replaying, replayDisabled, hidden, roster, liveEligibility>>

\* Mutation: the finally clause is left out.
ReadFailsStuck(c) ==
    /\ ReadIsFailed(c)
    /\ ShowFailure
    /\ pc' = [pc EXCEPT ![c] = "idle"]
    /\ Forget(c)
    /\ UNCHANGED <<verdict, at, tally, flags, hidden, roster, answers>>

\* The catch block, and the finally clause.
ReadFails(c) ==
    /\ ReadIsFailed(c)
    /\ ShowFailure
    /\ EndRefresh(c)
    /\ UNCHANGED <<verdict, replaying, replayDisabled, hidden, roster, answers>>

\* Both answers are kept, and the animation begins.
ReadSucceeds(c) ==
    /\ pc[c] = "fetching"
    /\ status[c] = "ok" /\ eligibility[c] = "ok"
    /\ liveStatus' = [by |-> c]
    /\ liveEligibility' = [by |-> c, holders |-> decision[c]]
    /\ due' = FALSE
    /\ pc' = [pc EXCEPT ![c] = "animating"]
    /\ Show(1, "scanning")
    /\ Forget(c)
    /\ UNCHANGED <<verdict, at, tally, flags, hidden, roster, reality, summary, unknowns>>

Count(c, d) ==
    [allowed |-> tally[c].allowed + (IF d = "ALLOWED" THEN 1 ELSE 0),
     unknown |-> tally[c].unknown + (IF d = "UNKNOWN" THEN 1 ELSE 0)]

\* animateLivePolicy: a holder's verdict, and on to the next holder, ...
ShowVerdict(c) ==
    LET h == at[c]
        d == liveEligibility.holders[h] IN
    /\ pc[c] = "animating"
    /\ h < Cohort
    /\ row' = [row EXCEPT ![h] = ClassifyLive(d), ![h + 1] = "scanning"]
    /\ roster' = [roster EXCEPT ![h] = ClassifyLive(d)]
    /\ tally' = [tally EXCEPT ![c] = Count(c, d)]
    /\ at' = [at EXCEPT ![c] = h + 1]
    /\ UNCHANGED <<verdict, endpoints, pc, flags, hidden, due, reality, summary,
                   unknowns, answers>>

ShowCounts(c) ==
    LET d == liveEligibility.holders[Cohort] IN
    /\ pc[c] = "animating"
    /\ at[c] = Cohort
    /\ Show(Cohort, ClassifyLive(d))
    /\ roster' = [roster EXCEPT ![Cohort] = ClassifyLive(d)]
    /\ reality' = "LIVE_POLICY_CHECK"
    /\ summary' = Count(c, d).allowed
    /\ unknowns' = Count(c, d).unknown
    /\ replayDisabled' = FALSE
    /\ UNCHANGED <<verdict, replaying, hidden, due, answers>>

\* Mutation: the counters outlive the call.
ShowLastCarried(c) ==
    /\ ShowCounts(c)
    /\ refreshing' = FALSE
    /\ liveDisabled' = FALSE
    /\ pc' = [pc EXCEPT ![c] = "idle"]
    /\ at' = [at EXCEPT ![c] = 1]
    /\ tally' = [tally EXCEPT ![c] = Count(c, liveEligibility.holders[Cohort])]
    /\ Forget(c)

\* ... or, after the last one, the reality class and the counts, and the
\* finally clause of refreshLive.
ShowLast(c) == ShowCounts(c) /\ EndRefresh(c)

-----------------------------------------------------------------------------
(* replaySettlement: the last holder is the one suspended, then released.  *)

Awaits(c, place) == pc' = [pc EXCEPT ![c] = place]
OnlyRow == UNCHANGED <<verdict, endpoints, tally, flags, hidden, due, roster,
                       reality, unknowns, answers>>

StartReplay(c) ==
    /\ pc[c] = "idle"
    /\ ~replayDisabled
    /\ replaying' = TRUE
    /\ replayDisabled' = TRUE
    /\ liveDisabled' = TRUE
    /\ summary' = 0
    /\ ShowAll("queued")
    /\ Awaits(c, "queued")
    /\ UNCHANGED <<verdict, endpoints, at, tally, refreshing, hidden, due, roster,
                   unknowns, answers>>

\* Mutation: a live read under way does not keep a replay from starting.
BeginReplayOverRefresh(c) ==
    /\ ~replaying
    /\ reality' = "VERIFIED_EXECUTION_REPLAY"
    /\ StartReplay(c)

\* Mutation: the reality class is left as it was.
BeginReplayUnmarked(c) ==
    /\ ~replaying /\ ~refreshing
    /\ UNCHANGED reality
    /\ StartReplay(c)

BeginReplay(c) ==
    /\ ~replaying /\ ~refreshing
    /\ reality' = "VERIFIED_EXECUTION_REPLAY"
    /\ StartReplay(c)

Scan(c) ==
    /\ pc[c] = "queued" \/ (pc[c] = "marked" /\ at[c] < Cohort)
    /\ LET h == IF pc[c] = "queued" THEN 1 ELSE at[c] + 1 IN
          /\ at' = [at EXCEPT ![c] = h]
          /\ Show(h, "recheck")
    /\ Awaits(c, "scanning")
    /\ OnlyRow /\ UNCHANGED summary

Mark(c) ==
    /\ pc[c] = "scanning"
    /\ Show(at[c], IF at[c] < Cohort THEN "paid" ELSE "suspended")
    /\ Awaits(c, "marked")
    /\ OnlyRow /\ UNCHANGED <<at, summary>>

Settled(c) ==
    /\ pc[c] = "marked"
    /\ at[c] = Cohort
    /\ summary' = Cohort
    /\ Awaits(c, "settled")
    /\ OnlyRow /\ UNCHANGED <<at, row>>

Recheck(c) ==
    /\ pc[c] = "settled"
    /\ Show(Cohort, "recheck")
    /\ Awaits(c, "rechecking")
    /\ OnlyRow /\ UNCHANGED <<at, summary>>

Released(c) ==
    /\ pc[c] = "rechecking"
    /\ Show(Cohort, "released")
    /\ summary' = Cohort
    /\ Awaits(c, "released")
    /\ OnlyRow /\ UNCHANGED at

EndReplay(c) ==
    /\ pc[c] = "released"
    /\ replayDisabled' = FALSE
    /\ liveDisabled' = FALSE
    /\ replaying' = FALSE
    /\ Awaits(c, "idle")
    /\ at' = [at EXCEPT ![c] = 1]
    /\ UNCHANGED <<verdict, endpoints, tally, refreshing, hidden, due, picture, answers>>

ReplayStep(c) ==
    \/ Scan(c) \/ Mark(c) \/ Settled(c) \/ Recheck(c) \/ Released(c) \/ EndReplay(c)

-----------------------------------------------------------------------------
(* The world around the page.                                              *)

TimePasses ==
    /\ ~due
    /\ due' = TRUE
    /\ UNCHANGED <<verdict, endpoints, pc, at, tally, flags, hidden, picture, answers>>

Hide ==
    /\ ~hidden
    /\ hidden' = TRUE
    /\ UNCHANGED <<verdict, endpoints, pc, at, tally, flags, due, picture, answers>>

\* visibilitychange: a read that is due is made at once.
ShowPage ==
    /\ hidden
    /\ hidden' = FALSE
    /\ IF due /\ ~replaying /\ ~refreshing
       THEN \E c \in Calls : BeginRefresh(c)
       ELSE UNCHANGED <<verdict, endpoints, pc, at, tally, flags, due, picture, answers>>

RefreshStep(c) ==
    \/ ReadSucceeds(c) \/ ReadFails(c) \/ ShowVerdict(c) \/ ShowLast(c)
ServerStep(c) ==
    /\ StatusSettles(c) \/ EligibilityStep(c)
    /\ UNCHANGED page
World ==
    /\ \E h \in Holders, v \in Verdicts : VerdictChange(h, v)
    /\ UNCHANGED page

Next ==
    \/ \E c \in Calls :
          \/ ManualRefresh(c) \/ Clock(c) \/ BeginReplay(c)
          \/ RefreshStep(c) \/ ReplayStep(c) \/ ServerStep(c)
    \/ TimePasses \/ Hide \/ ShowPage \/ World

\* Requests and timers settle, handlers go on, and the clock ticks.  The user
\* owes nothing.
Fairness ==
    /\ \A c \in Calls :
          /\ WF_vars(RefreshStep(c) \/ ReplayStep(c))
          /\ WF_vars(StatusSettles(c) /\ UNCHANGED page)
          /\ WF_vars(EligibilityStep(c) /\ UNCHANGED page)
    /\ WF_vars(\E c \in Calls : Clock(c))
    /\ WF_vars(TimePasses)

Spec == Init /\ [][Next]_vars
FairSpec == Spec /\ Fairness

-----------------------------------------------------------------------------
(* Properties.                                                             *)

Reads == [by : Calls, holders : [Holders -> Decisions]]

\* Every variable keeps its type; in particular no count exceeds the cohort.
TypeOK ==
    /\ EndpointsTypeOK
    /\ pc \in [Calls -> {"idle"} \union RefreshPcs \union ReplayPcs]
    /\ at \in [Calls -> Holders]
    /\ tally \in [Calls -> [allowed : 0 .. Cohort, unknown : 0 .. Cohort]]
    /\ {replaying, refreshing, replayDisabled, liveDisabled, hidden, due} \subseteq BOOLEAN
    /\ row \in [Holders -> RowStates]
    /\ roster \in [Holders -> LiveStates]
    /\ reality \in Realities
    /\ summary \in Dash .. Cohort
    /\ unknowns \in Dash .. Cohort
    /\ liveStatus \in [by : Calls \union {Nobody}]
    /\ liveEligibility \in Reads \union {NoRead}

Refreshes(c) == pc[c] \in RefreshPcs
Replays(c) == pc[c] \in ReplayPcs

\* One call at a time, and the flags and buttons tell which: a flag left set
\* would end all reads and replays, one given back early would let two calls
\* write the same rows.
FlagsTellWhoRuns ==
    /\ \A c, d \in Calls :
          (Refreshes(c) \/ Replays(c)) /\ (Refreshes(d) \/ Replays(d)) => c = d
    /\ refreshing <=> \E c \in Calls : Refreshes(c)
    /\ replaying <=> \E c \in Calls : Replays(c)
    /\ liveDisabled <=> refreshing \/ replaying
    /\ replayDisabled <=> replaying

HowMany(state) == Cardinality({h \in Holders : row[h] = state})
Shown(h) == ClassifyLive(liveEligibility.holders[h])
ReplayEnd(h) == IF h = Cohort THEN "released" ELSE "paid"

\* How many are UNKNOWN in the answer kept: that of the last read that succeeded.
KeptUnknowns ==
    IF liveEligibility = NoRead THEN Dash
    ELSE Cardinality({h \in Holders : Shown(h) = "unknown"})

FirstPicture ==
    /\ liveEligibility = NoRead /\ reality = "LIVE_POLICY_CHECK"
    /\ HowMany("queued") = Cohort /\ summary = Dash /\ unknowns = Dash
LivePicture ==
    /\ liveEligibility # NoRead /\ reality = "LIVE_POLICY_CHECK"
    /\ \A h \in Holders : row[h] = Shown(h)
    /\ summary = HowMany("allowed") /\ unknowns = HowMany("unknown")
FailedPicture ==
    /\ reality = "LIVE_READ_UNAVAILABLE"
    /\ HowMany("unknown") = Cohort /\ summary = Dash /\ unknowns = Cohort
ReplayPicture ==
    /\ reality = "VERIFIED_EXECUTION_REPLAY"
    /\ \A h \in Holders : row[h] = ReplayEnd(h)
    /\ summary = Cohort
    /\ unknowns \in {KeptUnknowns, Cohort}

\* When nothing runs, the rows, the summary and the reality class the page shows
\* come from one call as a whole, and the roster has the verdicts of the last
\* read that succeeded.  So does the count of UNKNOWN after a live read; a replay
\* leaves that of the read before it, the whole cohort if that one failed, beside
\* its own rows.
PictureOfOneCall ==
    ~refreshing /\ ~replaying =>
       /\ FirstPicture \/ LivePicture \/ FailedPicture \/ ReplayPicture
       /\ liveEligibility # NoRead => \A h \in Holders : roster[h] = Shown(h)

\* The rows never show replayed settlement states under a live reality class,
\* nor a live verdict while a replay runs.  The roster beside them keeps the live
\* verdicts throughout.
ReplayNeverLive ==
    /\ (\E h \in Holders : row[h] \in ReplayStates) =>
          reality = "VERIFIED_EXECUTION_REPLAY"
    /\ replaying => \A h \in Holders : row[h] \notin LiveStates

\* The status and the verdicts the page keeps are always of the same read: a
\* read of which one half fails leaves no trace of the other.
PairFromOneRead == liveStatus.by = liveEligibility.by

\* A read that succeeds says ALLOWED only of a holder the policy allowed at some
\* moment of that very read: no failed call comes out as ALLOWED, and no verdict
\* is left over from an earlier read.
AllowedIsFresh ==
    [][\A c \in Calls : pc[c] = "fetching" /\ pc'[c] = "animating" =>
          \A h \in Holders :
             liveEligibility'.holders[h] = "ALLOWED" => "ALLOW" \in grounds[c][h]]_vars

\* "UNKNOWN is never silently converted to BLOCKED": a holder comes out BLOCKED
\* only if the policy blocked it at some moment since the read began, and not
\* because the check could not be made.
BlockedByPolicy ==
    \A c \in Calls, h \in Holders :
       decision[c][h] = "BLOCKED" => "BLOCK" \in grounds[c][h]

\* Every refresh and every replay comes to its end and gives its flag back.
CallsEnd ==
    /\ refreshing ~> ~refreshing
    /\ replaying ~> ~replaying

\* A read that is due is made, even if no read has ever succeeded, unless the
\* page is hidden or a replay goes first.
DueIsRead == due ~> (refreshing \/ hidden \/ replaying)

=============================================================================
