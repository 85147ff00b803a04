----------------------- MODULE SettlementChamberProofs -----------------------
(***************************************************************************)
(* Theorems about the page, for any number of holders and of calls.        *)
(***************************************************************************)
EXTENDS SettlementChamber, FiniteSetTheorems, TLAPS

\* The counters of a call are below the holder it is at, and zero unless it is
\* animating; an answer of /api/eligibility has decided every holder.
LoopInv ==
    \A c \in Calls :
       /\ tally[c].allowed < at[c] /\ tally[c].unknown < at[c]
       /\ pc[c] # "animating" => tally[c] = ZeroTally
       /\ eligibility[c] = "ok" => \A h \in Holders : decision[c][h] # "none"

\* A replay has announced itself, and a refresh has cleared the rows.
RowsInv ==
    /\ replaying => reality = "VERIFIED_EXECUTION_REPLAY"
    /\ refreshing => \A h \in Holders : row[h] \notin ReplayStates

ChamberInv ==
    TypeOK /\ LoopInv /\ FlagsTellWhoRuns /\ RowsInv /\ ReplayNeverLive /\ PairFromOneRead

USE CohortAssumption

LEMMA ClassifyType == \A d : ClassifyLive(d) \in LiveStates
  BY DEF ClassifyLive, LiveStates

LEMMA DecisionType == \A a : Decision(a) \in Decisions
  BY DEF Decision, Decisions

LEMMA CountRange == {Dash, 0, Cohort} \subseteq Dash .. Cohort
  BY DEF Dash

LEMMA InitChamber == Init => ChamberInv
  <1> SUFFICES ASSUME Init PROVE ChamberInv
    OBVIOUS
  <1> USE DEF Init, EndpointsInit
  <1>1. TypeOK
    <2>1. EndpointsTypeOK
      BY DEF EndpointsTypeOK, Stages, Verdicts, Decisions, Undecided, NoGrounds
    <2>2. at \in [Calls -> Holders]
      BY DEF Holders
    <2>3. tally \in [Calls -> [allowed : 0 .. Cohort, unknown : 0 .. Cohort]]
      BY DEF ZeroTally
    <2>4. row \in [Holders -> RowStates] /\ roster \in [Holders -> LiveStates]
      BY DEF RowStates, LiveStates
    <2>5. reality \in Realities /\ summary \in Dash .. Cohort /\ unknowns \in Dash .. Cohort
      BY DEF Realities, Dash
    <2>6. liveStatus \in [by : Calls \union {Nobody}] /\ liveEligibility \in Reads \union {NoRead}
      BY DEF NoStatus
    <2> QED
      BY <2>1, <2>2, <2>3, <2>4, <2>5, <2>6 DEF TypeOK
  <1>2. LoopInv
    BY DEF LoopInv, ZeroTally
  <1>3. FlagsTellWhoRuns
    BY DEF FlagsTellWhoRuns, Refreshes, Replays, RefreshPcs, ReplayPcs
  <1>4. RowsInv /\ ReplayNeverLive /\ PairFromOneRead
    BY DEF RowsInv, ReplayNeverLive, PairFromOneRead, ReplayStates, LiveStates, NoStatus, NoRead
  <1> QED
    BY <1>1, <1>2, <1>3, <1>4 DEF ChamberInv

-----------------------------------------------------------------------------
(* Who runs: what each kind of step does to pc and the flags.              *)

\* A call starts when nothing runs, ...
LEMMA CallBegins ==
    ASSUME ChamberInv, NEW c \in Calls, NEW place \in RefreshPcs \union ReplayPcs,
           ~replaying, ~refreshing, pc' = [pc EXCEPT ![c] = place],
           refreshing' <=> place \in RefreshPcs, replaying' <=> place \in ReplayPcs,
           liveDisabled', replayDisabled' <=> replaying'
    PROVE  FlagsTellWhoRuns'
  BY DEF ChamberInv, FlagsTellWhoRuns, Refreshes, Replays, TypeOK, RefreshPcs, ReplayPcs

\* ... goes on to another place of the same function, ...
LEMMA CallGoesOn ==
    ASSUME ChamberInv, NEW c \in Calls, NEW place,
           \/ pc[c] \in RefreshPcs /\ place \in RefreshPcs
           \/ pc[c] \in ReplayPcs /\ place \in ReplayPcs,
           pc' = [pc EXCEPT ![c] = place], UNCHANGED flags
    PROVE  FlagsTellWhoRuns'
  BY DEF ChamberInv, FlagsTellWhoRuns, Refreshes, Replays, TypeOK, RefreshPcs, ReplayPcs, flags

\* ... and ends with nothing running.
LEMMA CallEnds ==
    ASSUME ChamberInv, NEW c \in Calls, pc[c] \in RefreshPcs \union ReplayPcs,
           pc' = [pc EXCEPT ![c] = "idle"],
           ~refreshing', ~replaying', ~liveDisabled', ~replayDisabled'
    PROVE  FlagsTellWhoRuns'
  BY DEF ChamberInv, FlagsTellWhoRuns, Refreshes, Replays, TypeOK, RefreshPcs, ReplayPcs

-----------------------------------------------------------------------------
(* Each step keeps the invariant.                                          *)

LEMMA BeginRefreshChamber ==
    ASSUME ChamberInv, NEW c \in Calls, BeginRefresh(c), hidden' \in BOOLEAN
    PROVE  ChamberInv'
  <1> USE DEF BeginRefresh, StartReading
  <1>1. EndpointsTypeOK'
    BY DEF ChamberInv, TypeOK, EndpointsTypeOK, Fetch, Stages, Verdicts
  <1>2. row' \in [Holders -> RowStates]
    BY DEF ShowAll, RowStates
  <1>3. TypeOK'
    BY <1>1, <1>2 DEF ChamberInv, TypeOK, RefreshPcs, answers
  <1>4. LoopInv'
    BY DEF ChamberInv, TypeOK, EndpointsTypeOK, LoopInv, Fetch
  <1>5. FlagsTellWhoRuns'
    <2>1. ~replayDisabled /\ liveDisabled' /\ refreshing' /\ ~replaying'
      BY DEF ChamberInv, FlagsTellWhoRuns
    <2> QED
      BY <2>1, CallBegins DEF RefreshPcs, ReplayPcs
  <1>6. RowsInv' /\ ReplayNeverLive' /\ PairFromOneRead'
    BY DEF ChamberInv, RowsInv, ReplayNeverLive, PairFromOneRead, ShowAll, ReplayStates, LiveStates, answers
  <1> QED
    BY <1>3, <1>4, <1>5, <1>6 DEF ChamberInv

\* A refresh under way is alone.
LEMMA RefreshAlone ==
    ASSUME ChamberInv, NEW c \in Calls, pc[c] \in RefreshPcs
    PROVE  refreshing /\ ~replaying
  BY DEF ChamberInv, FlagsTellWhoRuns, Refreshes, Replays, RefreshPcs, ReplayPcs

LEMMA EndRefreshChamber ==
    ASSUME ChamberInv, NEW c \in Calls, pc[c] \in RefreshPcs, EndRefresh(c),
           UNCHANGED <<verdict, replaying>>, ~replayDisabled'
    PROVE  /\ EndpointsTypeOK'
           /\ pc' \in [Calls -> {"idle"} \union RefreshPcs \union ReplayPcs]
           /\ at' \in [Calls -> Holders]
           /\ tally' \in [Calls -> [allowed : 0 .. Cohort, unknown : 0 .. Cohort]]
           /\ LoopInv'
           /\ FlagsTellWhoRuns'
  <1> USE DEF EndRefresh
  <1>1. EndpointsTypeOK'
    BY DEF ChamberInv, TypeOK, EndpointsTypeOK, Forget, Stages, Undecided, NoGrounds
  <1>2. pc' \in [Calls -> {"idle"} \union RefreshPcs \union ReplayPcs]
    BY DEF ChamberInv, TypeOK
  <1>3. at' \in [Calls -> Holders]
    BY DEF ChamberInv, TypeOK, Holders
  <1>4. tally' \in [Calls -> [allowed : 0 .. Cohort, unknown : 0 .. Cohort]]
    BY DEF ChamberInv, TypeOK, ZeroTally
  <1>5. LoopInv'
    BY DEF ChamberInv, TypeOK, EndpointsTypeOK, LoopInv, Forget, ZeroTally
  <1>6. FlagsTellWhoRuns'
    BY RefreshAlone, CallEnds
  <1> QED
    BY <1>1, <1>2, <1>3, <1>4, <1>5, <1>6

LEMMA ReadFailsChamber ==
    ASSUME ChamberInv, NEW c \in Calls, ReadFails(c)
    PROVE  ChamberInv'
  <1> USE DEF ReadFails, ReadIsFailed, ShowFailure
  <1>1. pc[c] \in RefreshPcs /\ refreshing /\ ~replaying /\ ~replayDisabled
    BY RefreshAlone DEF RefreshPcs, ChamberInv, FlagsTellWhoRuns
  <1>2. /\ EndpointsTypeOK' /\ LoopInv' /\ FlagsTellWhoRuns'
        /\ pc' \in [Calls -> {"idle"} \union RefreshPcs \union ReplayPcs]
        /\ at' \in [Calls -> Holders]
        /\ tally' \in [Calls -> [allowed : 0 .. Cohort, unknown : 0 .. Cohort]]
    BY <1>1, EndRefreshChamber
  <1>3. row' \in [Holders -> RowStates] /\ reality' \in Realities
    BY DEF ShowAll, RowStates, LiveStates, Realities
  <1>4. TypeOK'
    BY <1>2, <1>3, CountRange DEF ChamberInv, TypeOK, EndRefresh, answers
  <1>5. RowsInv' /\ ReplayNeverLive' /\ PairFromOneRead'
    BY <1>1 DEF ChamberInv, RowsInv, ReplayNeverLive, PairFromOneRead, ShowAll, ReplayStates,
                LiveStates, EndRefresh, answers
  <1> QED
    BY <1>2, <1>4, <1>5 DEF ChamberInv

LEMMA ReadSucceedsChamber ==
    ASSUME ChamberInv, NEW c \in Calls, ReadSucceeds(c)
    PROVE  ChamberInv'
  <1> USE DEF ReadSucceeds
  <1>1. pc[c] \in RefreshPcs /\ refreshing /\ ~replaying
    BY RefreshAlone DEF RefreshPcs
  <1>2. EndpointsTypeOK'
    BY DEF ChamberInv, TypeOK, EndpointsTypeOK, Forget, Stages, Undecided, NoGrounds
  <1>3. decision[c] \in [Holders -> Decisions]
    BY DEF ChamberInv, TypeOK, EndpointsTypeOK, LoopInv
  <1>4. row' \in [Holders -> RowStates]
    BY DEF ChamberInv, TypeOK, Show, RowStates
  <1>5. TypeOK'
    <2>1. liveEligibility' \in Reads
      BY <1>3 DEF Reads
    <2> QED
      BY <1>2, <1>4, <2>1 DEF ChamberInv, TypeOK, RefreshPcs, flags
  <1>6. LoopInv'
    BY DEF ChamberInv, TypeOK, EndpointsTypeOK, LoopInv, Forget
  <1>7. FlagsTellWhoRuns'
    BY <1>1, CallGoesOn DEF RefreshPcs
  <1>8. RowsInv' /\ ReplayNeverLive' /\ PairFromOneRead'
    BY <1>1 DEF ChamberInv, TypeOK, RowsInv, ReplayNeverLive, PairFromOneRead, Show, ReplayStates,
                LiveStates, flags
  <1> QED
    BY <1>5, <1>6, <1>7, <1>8 DEF ChamberInv

LEMMA CountBound ==
    ASSUME ChamberInv, NEW c \in Calls, NEW d
    PROVE  /\ Count(c, d).allowed \in 0 .. Cohort /\ Count(c, d).allowed <= at[c]
           /\ Count(c, d).unknown \in 0 .. Cohort /\ Count(c, d).unknown <= at[c]
  BY DEF ChamberInv, TypeOK, LoopInv, Count, Holders

LEMMA ShowVerdictChamber ==
    ASSUME ChamberInv, NEW c \in Calls, ShowVerdict(c)
    PROVE  ChamberInv'
  <1> DEFINE d == liveEligibility.holders[at[c]]
  <1> USE DEF ShowVerdict
  <1>1. pc[c] \in RefreshPcs /\ refreshing /\ ~replaying
    BY RefreshAlone DEF RefreshPcs
  <1>2. EndpointsTypeOK'
    BY DEF ChamberInv, TypeOK, EndpointsTypeOK, endpoints
  <1>3. row' \in [Holders -> RowStates] /\ roster' \in [Holders -> LiveStates]
    BY ClassifyType DEF ChamberInv, TypeOK, RowStates
  <1>4. /\ at' \in [Calls -> Holders]
        /\ tally' \in [Calls -> [allowed : 0 .. Cohort, unknown : 0 .. Cohort]]
    <2>1. at' \in [Calls -> Holders]
      BY DEF ChamberInv, TypeOK, Holders
    <2>2. Count(c, d) \in [allowed : 0 .. Cohort, unknown : 0 .. Cohort]
      BY CountBound DEF Count
    <2> QED
      BY <2>1, <2>2 DEF ChamberInv, TypeOK
  <1>5. TypeOK'
    BY <1>2, <1>3, <1>4 DEF ChamberInv, TypeOK, flags, answers
  <1>6. LoopInv'
    <2>1. Count(c, d).allowed < at[c] + 1 /\ Count(c, d).unknown < at[c] + 1
      BY CountBound DEF ChamberInv, TypeOK, Holders
    <2> QED
      BY <2>1 DEF ChamberInv, TypeOK, LoopInv, endpoints
  <1>7. FlagsTellWhoRuns'
    BY DEF ChamberInv, FlagsTellWhoRuns, Refreshes, Replays, flags
  <1>8. RowsInv' /\ ReplayNeverLive' /\ PairFromOneRead'
    <2>1. ClassifyLive(d) \notin ReplayStates /\ "scanning" \notin ReplayStates
      BY ClassifyType DEF LiveStates, ReplayStates
    <2>2. \A h \in Holders : row'[h] \notin ReplayStates
      BY <2>1, <1>1 DEF ChamberInv, TypeOK, RowsInv
    <2> QED
      BY <1>1, <2>2 DEF ChamberInv, RowsInv, ReplayNeverLive, PairFromOneRead, flags, answers
  <1> QED
    BY <1>5, <1>6, <1>7, <1>8 DEF ChamberInv

LEMMA ShowLastChamber ==
    ASSUME ChamberInv, NEW c \in Calls, ShowLast(c)
    PROVE  ChamberInv'
  <1> DEFINE d == liveEligibility.holders[Cohort]
  <1> USE DEF ShowLast, ShowCounts
  <1>1. pc[c] \in RefreshPcs /\ refreshing /\ ~replaying
    BY RefreshAlone DEF RefreshPcs
  <1>2. /\ EndpointsTypeOK' /\ LoopInv' /\ FlagsTellWhoRuns'
        /\ pc' \in [Calls -> {"idle"} \union RefreshPcs \union ReplayPcs]
        /\ at' \in [Calls -> Holders]
        /\ tally' \in [Calls -> [allowed : 0 .. Cohort, unknown : 0 .. Cohort]]
    BY <1>1, EndRefreshChamber
  <1>3. row' \in [Holders -> RowStates] /\ roster' \in [Holders -> LiveStates]
    BY ClassifyType DEF ChamberInv, TypeOK, RowStates, Show
  <1>4. summary' \in Dash .. Cohort /\ unknowns' \in Dash .. Cohort /\ reality' \in Realities
    BY CountBound DEF Dash, Realities
  <1>5. TypeOK'
    BY <1>2, <1>3, <1>4 DEF ChamberInv, TypeOK, EndRefresh, answers
  <1>6. RowsInv' /\ ReplayNeverLive' /\ PairFromOneRead'
    <2>1. ClassifyLive(d) \notin ReplayStates
      BY ClassifyType DEF LiveStates, ReplayStates
    <2>2. \A h \in Holders : row'[h] \notin ReplayStates
      BY <2>1, <1>1 DEF ChamberInv, TypeOK, RowsInv, Show
    <2> QED
      BY <1>1, <2>2 DEF ChamberInv, RowsInv, ReplayNeverLive, PairFromOneRead, EndRefresh, answers
  <1> QED
    BY <1>2, <1>5, <1>6 DEF ChamberInv

LEMMA BeginReplayChamber ==
    ASSUME ChamberInv, NEW c \in Calls, BeginReplay(c)
    PROVE  ChamberInv'
  <1> USE DEF BeginReplay, StartReplay, Awaits
  <1>1. EndpointsTypeOK'
    BY DEF ChamberInv, TypeOK, EndpointsTypeOK, endpoints
  <1>2. row' \in [Holders -> RowStates] /\ reality' \in Realities /\ summary' \in Dash .. Cohort
    BY DEF ShowAll, RowStates, Realities, Dash
  <1>3. TypeOK'
    BY <1>1, <1>2 DEF ChamberInv, TypeOK, ReplayPcs, answers
  <1>4. LoopInv'
    BY DEF ChamberInv, TypeOK, LoopInv, endpoints
  <1>5. FlagsTellWhoRuns'
    BY CallBegins DEF RefreshPcs, ReplayPcs
  <1>6. RowsInv' /\ ReplayNeverLive' /\ PairFromOneRead'
    BY DEF ChamberInv, RowsInv, ReplayNeverLive, PairFromOneRead, ShowAll, ReplayStates, LiveStates, answers
  <1> QED
    BY <1>3, <1>4, <1>5, <1>6 DEF ChamberInv

\* A replay under way is alone, and announced.
LEMMA ReplayAlone ==
    ASSUME ChamberInv, NEW c \in Calls, pc[c] \in ReplayPcs
    PROVE  /\ replaying /\ ~refreshing
           /\ reality = "VERIFIED_EXECUTION_REPLAY"
           /\ \A h \in Holders : row[h] \notin LiveStates
  BY DEF ChamberInv, FlagsTellWhoRuns, RowsInv, ReplayNeverLive, Refreshes, Replays, RefreshPcs, ReplayPcs

\* A step in the middle of a replay writes a replay state into at most one row.
LEMMA ReplayGoesOn ==
    ASSUME ChamberInv, NEW c \in Calls, pc[c] \in ReplayPcs,
           NEW place \in ReplayPcs, Awaits(c, place), OnlyRow,
           UNCHANGED row \/ \E h \in Holders, state \in ReplayStates : Show(h, state),
           summary' = summary \/ summary' = Cohort,
           at' \in [Calls -> Holders],
           \A other \in Calls \ {c} : at'[other] = at[other]
    PROVE  ChamberInv'
  <1> USE DEF Awaits, OnlyRow
  <1>1. EndpointsTypeOK'
    BY DEF ChamberInv, TypeOK, EndpointsTypeOK, endpoints
  <1>2. row' \in [Holders -> RowStates]
    BY DEF ChamberInv, TypeOK, Show, RowStates
  <1>3. TypeOK'
    BY <1>1, <1>2, CountRange DEF ChamberInv, TypeOK, flags, answers
  <1>4. LoopInv'
    <2> SUFFICES ASSUME NEW e \in Calls
                 PROVE  /\ tally[e].allowed < at'[e] /\ tally[e].unknown < at'[e]
                        /\ pc'[e] # "animating" => tally[e] = ZeroTally
                        /\ eligibility[e] = "ok" => \A h \in Holders : decision[e][h] # "none"
      BY DEF LoopInv, endpoints
    <2>0. at'[e] \in Holders
      OBVIOUS
    <2>1. at'[e] \in Nat /\ at'[e] > 0
      BY <2>0 DEF Holders
    <2>2. pc'[e] # "animating" => pc[e] # "animating"
      BY DEF ChamberInv, TypeOK, ReplayPcs
    <2>3. CASE e = c
      <3>1. tally[c] = ZeroTally
        BY DEF ChamberInv, LoopInv, ReplayPcs
      <3> QED
        BY <2>1, <2>2, <2>3, <3>1 DEF ChamberInv, LoopInv, ZeroTally
    <2>4. CASE e # c
      BY <2>1, <2>2, <2>4 DEF ChamberInv, LoopInv
    <2> QED
      BY <2>3, <2>4
  <1>5. FlagsTellWhoRuns'
    BY CallGoesOn
  <1>6. RowsInv' /\ ReplayNeverLive' /\ PairFromOneRead'
    BY ReplayAlone DEF ChamberInv, TypeOK, RowsInv, ReplayNeverLive, PairFromOneRead, Show, ReplayStates,
                       LiveStates, flags, answers
  <1> QED
    BY <1>3, <1>4, <1>5, <1>6 DEF ChamberInv

LEMMA ReplayStepChamber ==
    ASSUME ChamberInv, NEW c \in Calls, ReplayStep(c)
    PROVE  ChamberInv'
  <1>0. /\ Cohort \in Holders /\ 1 \in Holders
        /\ at \in [Calls -> Holders] /\ at[c] \in Holders
    BY DEF ChamberInv, TypeOK, Holders
  <1>1. CASE Scan(c)
    <2> DEFINE h == IF pc[c] = "queued" THEN 1 ELSE at[c] + 1
    <2>1. pc[c] \in ReplayPcs /\ "scanning" \in ReplayPcs /\ "recheck" \in ReplayStates
      BY <1>1 DEF Scan, ReplayPcs, ReplayStates
    <2>2. /\ h \in Holders /\ Show(h, "recheck") /\ at' = [at EXCEPT ![c] = h]
          /\ OnlyRow /\ summary' = summary /\ Awaits(c, "scanning")
      BY <1>0, <1>1 DEF Scan, Holders
    <2>3. at' \in [Calls -> Holders]
      BY <1>0, <2>2
    <2>4. \A other \in Calls \ {c} : at'[other] = at[other]
      BY <1>0, <2>2
    <2> QED
      BY <2>1, <2>2, <2>3, <2>4, ReplayGoesOn
  <1>2. CASE Mark(c)
    <2> DEFINE state == IF at[c] < Cohort THEN "paid" ELSE "suspended"
    <2>1. pc[c] \in ReplayPcs /\ "marked" \in ReplayPcs /\ state \in ReplayStates
      BY <1>2 DEF Mark, ReplayPcs, ReplayStates
    <2>2. /\ Show(at[c], state) /\ Awaits(c, "marked") /\ OnlyRow
          /\ at' = at /\ summary' = summary
      BY <1>2 DEF Mark
    <2> QED
      BY <1>0, <2>1, <2>2, ReplayGoesOn
  <1>3. CASE Settled(c)
    <2>1. pc[c] \in ReplayPcs /\ "settled" \in ReplayPcs
      BY <1>3 DEF Settled, ReplayPcs
    <2>2. Awaits(c, "settled") /\ OnlyRow /\ at' = at /\ row' = row /\ summary' = Cohort
      BY <1>3 DEF Settled
    <2> QED
      BY <1>0, <2>1, <2>2, ReplayGoesOn
  <1>4. CASE Recheck(c)
    <2>1. pc[c] \in ReplayPcs /\ "rechecking" \in ReplayPcs /\ "recheck" \in ReplayStates
      BY <1>4 DEF Recheck, ReplayPcs, ReplayStates
    <2>2. /\ Show(Cohort, "recheck") /\ Awaits(c, "rechecking") /\ OnlyRow
          /\ at' = at /\ summary' = summary
      BY <1>4 DEF Recheck
    <2> QED
      BY <1>0, <2>1, <2>2, ReplayGoesOn
  <1>5. CASE Released(c)
    <2>1. pc[c] \in ReplayPcs /\ "released" \in ReplayPcs /\ "released" \in ReplayStates
      BY <1>5 DEF Released, ReplayPcs, ReplayStates
    <2>2. /\ Show(Cohort, "released") /\ Awaits(c, "released") /\ OnlyRow
          /\ at' = at /\ summary' = Cohort
      BY <1>5 DEF Released
    <2> QED
      BY <1>0, <2>1, <2>2, ReplayGoesOn
  <1>6. CASE EndReplay(c)
    <2> USE <1>6 DEF EndReplay, Awaits
    <2>1. pc[c] \in ReplayPcs /\ replaying /\ ~refreshing
      BY ReplayAlone DEF ReplayPcs
    <2>2. EndpointsTypeOK'
      BY DEF ChamberInv, TypeOK, EndpointsTypeOK, endpoints
    <2>3. TypeOK'
      BY <1>0, <2>2 DEF ChamberInv, TypeOK, picture, answers
    <2>4. LoopInv'
      BY DEF ChamberInv, TypeOK, LoopInv, endpoints, ZeroTally
    <2>5. FlagsTellWhoRuns'
      BY <2>1, CallEnds
    <2>6. RowsInv' /\ ReplayNeverLive' /\ PairFromOneRead'
      BY <2>1 DEF ChamberInv, RowsInv, ReplayNeverLive, PairFromOneRead, picture, answers
    <2> QED
      BY <2>3, <2>4, <2>5, <2>6 DEF ChamberInv
  <1> QED
    BY <1>1, <1>2, <1>3, <1>4, <1>5, <1>6 DEF ReplayStep

\* What leaves the page alone keeps the invariant if it keeps the endpoints' part.
LEMMA PageAlone ==
    ASSUME ChamberInv, UNCHANGED page, EndpointsTypeOK',
           \A c \in Calls : eligibility'[c] = "ok" => \A h \in Holders : decision'[c][h] # "none"
    PROVE  ChamberInv'
  <1> USE DEF page, flags, picture, answers
  <1>1. TypeOK'
    BY DEF ChamberInv, TypeOK
  <1>2. LoopInv'
    BY DEF ChamberInv, LoopInv
  <1>3. FlagsTellWhoRuns'
    BY DEF ChamberInv, FlagsTellWhoRuns, Refreshes, Replays
  <1>4. RowsInv' /\ ReplayNeverLive' /\ PairFromOneRead'
    BY DEF ChamberInv, RowsInv, ReplayNeverLive, PairFromOneRead
  <1> QED
    BY <1>1, <1>2, <1>3, <1>4 DEF ChamberInv

LEMMA ServerChamber ==
    ASSUME ChamberInv, NEW c \in Calls, ServerStep(c)
    PROVE  ChamberInv'
  <1>0. EndpointsTypeOK /\ \A e \in Calls : eligibility[e] = "ok" => \A h \in Holders : decision[e][h] # "none"
    BY DEF ChamberInv, TypeOK, LoopInv
  <1>1. CASE StatusSettles(c)
    BY <1>0, <1>1, PageAlone DEF ServerStep, StatusSettles, StatusEnds, EndpointsTypeOK, Stages
  <1>2. CASE Connect(c) \/ Refuse(c) \/ LoseEligibility(c)
    BY <1>0, <1>2, PageAlone DEF ServerStep, Connect, Refuse, LoseEligibility, EndpointsTypeOK, Stages
  <1>3. CASE Respond(c)
    BY <1>0, <1>3, PageAlone DEF ServerStep, Respond, EndpointsTypeOK, Stages
  <1>4. ASSUME NEW h \in Holders, CanTransfer(c, h)
        PROVE  ChamberInv'
    <2>1. PICK answer \in Answers(h) :
             decision' = [decision EXCEPT ![c][h] = Decision(answer)]
      BY <1>4 DEF CanTransfer
    <2>2. decision' \in [Calls -> [Holders -> Decisions \union {"none"}]]
      BY <1>0, <2>1, DecisionType DEF EndpointsTypeOK
    <2>4. EndpointsTypeOK'
      BY <1>0, <1>4, <2>2 DEF EndpointsTypeOK, CanTransfer
    <2>5. \A e \in Calls : eligibility'[e] = "ok" => \A g \in Holders : decision'[e][g] # "none"
      BY <1>0, <1>4, <2>1 DEF CanTransfer, EndpointsTypeOK
    <2> QED
      BY <2>4, <2>5, PageAlone DEF ServerStep
  <1> QED
    BY <1>1, <1>2, <1>3, <1>4 DEF ServerStep, EligibilityStep

LEMMA WorldChamber ==
    ASSUME ChamberInv, World
    PROVE  ChamberInv'
  <1>0. EndpointsTypeOK /\ \A e \in Calls : eligibility[e] = "ok" => \A h \in Holders : decision[e][h] # "none"
    BY DEF ChamberInv, TypeOK, LoopInv
  <1>1. PICK h \in Holders, v \in Verdicts : VerdictChange(h, v)
    BY DEF World
  <1>2. verdict' \in [Holders -> Verdicts] /\ grounds' \in [Calls -> [Holders -> SUBSET Verdicts]]
    BY <1>0, <1>1 DEF VerdictChange, EndpointsTypeOK
  <1>3. EndpointsTypeOK' /\ UNCHANGED <<eligibility, decision>>
    BY <1>0, <1>1, <1>2 DEF VerdictChange, EndpointsTypeOK
  <1> QED
    BY <1>0, <1>3, PageAlone DEF World

LEMMA PassingChamber ==
    ASSUME ChamberInv,
           \/ TimePasses \/ Hide \/ UNCHANGED vars
           \/ hidden' = FALSE /\ UNCHANGED <<verdict, endpoints, pc, at, tally, flags, due, picture, answers>>
    PROVE  ChamberInv'
  <1>1. /\ UNCHANGED <<verdict, endpoints, pc, at, tally, flags, picture, answers>>
        /\ hidden' \in BOOLEAN /\ due' \in BOOLEAN
    BY DEF TimePasses, Hide, vars, page, ChamberInv, TypeOK
  <1> USE <1>1 DEF endpoints, flags, picture, answers
  <1>2. EndpointsTypeOK'
    BY DEF ChamberInv, TypeOK, EndpointsTypeOK
  <1>3. TypeOK'
    BY <1>2 DEF ChamberInv, TypeOK
  <1>4. LoopInv' /\ FlagsTellWhoRuns'
    BY DEF ChamberInv, LoopInv, FlagsTellWhoRuns, Refreshes, Replays
  <1>5. RowsInv' /\ ReplayNeverLive' /\ PairFromOneRead'
    BY DEF ChamberInv, RowsInv, ReplayNeverLive, PairFromOneRead
  <1> QED
    BY <1>3, <1>4, <1>5 DEF ChamberInv

LEMMA StepChamber == ChamberInv /\ [Next]_vars => ChamberInv'
  <1> SUFFICES ASSUME ChamberInv, [Next]_vars PROVE ChamberInv'
    OBVIOUS
  <1>1. ASSUME NEW c \in Calls, ManualRefresh(c) \/ Clock(c)
        PROVE  ChamberInv'
    BY <1>1, BeginRefreshChamber DEF ManualRefresh, Clock, ChamberInv, TypeOK
  <1>2. ASSUME NEW c \in Calls, BeginReplay(c) \/ RefreshStep(c) \/ ReplayStep(c) \/ ServerStep(c)
        PROVE  ChamberInv'
    BY <1>2, BeginReplayChamber, ReadSucceedsChamber, ReadFailsChamber, ShowVerdictChamber,
       ShowLastChamber, ReplayStepChamber, ServerChamber DEF RefreshStep
  <1>3. CASE ShowPage
    <2>1. CASE due /\ ~replaying /\ ~refreshing
      BY <1>3, <2>1, BeginRefreshChamber DEF ShowPage
    <2>2. CASE ~(due /\ ~replaying /\ ~refreshing)
      BY <1>3, <2>2, PassingChamber DEF ShowPage
    <2> QED
      BY <2>1, <2>2
  <1>4. CASE TimePasses \/ Hide \/ UNCHANGED vars
    BY <1>4, PassingChamber
  <1>5. CASE World
    BY <1>5, WorldChamber
  <1> QED
    BY <1>1, <1>2, <1>3, <1>4, <1>5 DEF Next

-----------------------------------------------------------------------------

\* Every variable of the page keeps its type, whatever the number of holders: no
\* count it shows exceeds the cohort.
THEOREM ChamberTypeCorrect == Spec => []TypeOK
  <1>1. ChamberInv => TypeOK
    BY DEF ChamberInv
  <1> QED
    BY InitChamber, StepChamber, <1>1, PTL DEF Spec

\* refreshLive and replaySettlement exclude each other, themselves included, and
\* their flags and buttons never outlive them, however their awaits interleave.
THEOREM OneCallAtATime == Spec => []FlagsTellWhoRuns
  <1>1. ChamberInv => FlagsTellWhoRuns
    BY DEF ChamberInv
  <1> QED
    BY InitChamber, StepChamber, <1>1, PTL DEF Spec

\* The rows never show a replayed state as live, nor a live verdict in a replay;
\* the roster, which keeps the live verdicts, is not spoken of.
THEOREM ReplayKeptApart == Spec => []ReplayNeverLive
  <1>1. ChamberInv => ReplayNeverLive
    BY DEF ChamberInv
  <1> QED
    BY InitChamber, StepChamber, <1>1, PTL DEF Spec

\* The status and the verdicts the page keeps come from one read, and a read
\* that fails half way leaves neither.
THEOREM PairsStayTogether == Spec => []PairFromOneRead
  <1>1. ChamberInv => PairFromOneRead
    BY DEF ChamberInv
  <1> QED
    BY InitChamber, StepChamber, <1>1, PTL DEF Spec

-----------------------------------------------------------------------------
(* Fresh verdicts: whom a read found ALLOWED, the policy had allowed since  *)
(* the read began.                                                         *)

FetchInv ==
    \A c \in Calls :
       /\ pc[c] # "fetching" => eligibility[c] = "none" /\ decision[c] = Undecided
       /\ pc[c] = "fetching" =>
             /\ status[c] # "none"
             /\ \A h \in Holders :
                   /\ verdict[h] \in grounds[c][h]
                   /\ decision[c][h] = "ALLOWED" => "ALLOW" \in grounds[c][h]

LEMMA EndpointsTyped ==
    ASSUME ChamberInv
    PROVE  EndpointsTypeOK /\ pc \in [Calls -> {"idle"} \union RefreshPcs \union ReplayPcs]
  BY DEF ChamberInv, TypeOK

LEMMA InitFetch == Init => FetchInv
  BY DEF Init, EndpointsInit, FetchInv

\* Any step that leaves the endpoints alone, and no call in or out of a fetch, ...
LEMMA FetchKept ==
    ASSUME FetchInv, UNCHANGED <<verdict, endpoints>>,
           \A c \in Calls : pc'[c] = "fetching" <=> pc[c] = "fetching"
    PROVE  FetchInv'
  BY DEF FetchInv, endpoints

\* ... one within a call that fetches neither before nor after, ...
LEMMA ElsewhereKept ==
    ASSUME ChamberInv, FetchInv, NEW c \in Calls, NEW place, UNCHANGED <<verdict, endpoints>>,
           pc' = [pc EXCEPT ![c] = place], pc[c] # "fetching", place # "fetching"
    PROVE  FetchInv'
  <1>1. \A e \in Calls : pc'[e] = "fetching" <=> pc[e] = "fetching"
    BY EndpointsTyped
  <1> QED
    BY <1>1, FetchKept

\* ... the fetches themselves, ...
LEMMA BeginRefreshFetch ==
    ASSUME ChamberInv, FetchInv, NEW c \in Calls, BeginRefresh(c)
    PROVE  FetchInv'
  <1> USE DEF BeginRefresh, StartReading, Fetch
  <1> SUFFICES ASSUME NEW e \in Calls
               PROVE  /\ pc'[e] # "fetching" => eligibility'[e] = "none" /\ decision'[e] = Undecided
                      /\ pc'[e] = "fetching" =>
                            /\ status'[e] # "none"
                            /\ \A h \in Holders :
                                  /\ verdict'[h] \in grounds'[e][h]
                                  /\ decision'[e][h] = "ALLOWED" => "ALLOW" \in grounds'[e][h]
    BY DEF FetchInv
  <1>1. CASE e = c
    <2>1. pc'[c] = "fetching" /\ status'[c] = "connecting" /\ decision'[c] = Undecided
      BY EndpointsTyped DEF EndpointsTypeOK, FetchInv
    <2>2. grounds'[c] = [h \in Holders |-> {verdict[h]}]
      BY EndpointsTyped DEF EndpointsTypeOK
    <2> QED
      BY <1>1, <2>1, <2>2 DEF Undecided
  <1>2. CASE e # c
    BY <1>2, EndpointsTyped DEF EndpointsTypeOK, FetchInv
  <1> QED
    BY <1>1, <1>2

\* ... the loss of interest in them, ...
LEMMA ForgetFetch ==
    ASSUME ChamberInv, FetchInv, NEW c \in Calls, NEW place, Forget(c), verdict' = verdict,
           pc' = [pc EXCEPT ![c] = place], place # "fetching"
    PROVE  FetchInv'
  BY EndpointsTyped DEF EndpointsTypeOK, FetchInv, Forget

\* ... what the servers do, ...
LEMMA ServerFetch ==
    ASSUME ChamberInv, FetchInv, NEW c \in Calls, ServerStep(c)
    PROVE  FetchInv'
  <1>0. EndpointsTypeOK /\ pc' = pc /\ verdict' = verdict
    BY EndpointsTyped DEF ServerStep, page, StatusSettles, StatusEnds, EligibilityStep, Connect,
       Refuse, Respond, LoseEligibility, CanTransfer
  <1>1. CASE StatusSettles(c)
    BY <1>0, <1>1 DEF FetchInv, StatusSettles, StatusEnds, EndpointsTypeOK
  <1>2. CASE Connect(c) \/ Refuse(c) \/ LoseEligibility(c) \/ Respond(c)
    BY <1>0, <1>2 DEF FetchInv, Connect, Refuse, LoseEligibility, Respond, EndpointsTypeOK
  <1>3. ASSUME NEW h \in Holders, CanTransfer(c, h)
        PROVE  FetchInv'
    <2>1. PICK answer \in Answers(h) :
             decision' = [decision EXCEPT ![c][h] = Decision(answer)]
      BY <1>3 DEF CanTransfer
    <2>2. pc[c] = "fetching"
      BY <1>3 DEF CanTransfer, FetchInv
    <2>3. grounds' = grounds
      BY <1>3 DEF CanTransfer
    <2>4. \A e \in Calls, g \in Holders : ~(e = c /\ g = h) => decision'[e][g] = decision[e][g]
      BY <1>0, <2>1 DEF EndpointsTypeOK
    <2>5. decision'[c][h] = Decision(answer)
      BY <1>0, <2>1 DEF EndpointsTypeOK
    <2>6. Decision(answer) = "ALLOWED" => verdict[h] = "ALLOW"
      BY <1>0, <2>1 DEF Decision, Answers, EndpointsTypeOK, Verdicts
    <2>7. UNCHANGED <<status, eligibility>> /\ \A e \in Calls : e # c => decision'[e] = decision[e]
      BY <1>0, <1>3, <2>1 DEF CanTransfer, EndpointsTypeOK
    <2>8. ASSUME NEW e \in Calls, pc[e] # "fetching"
          PROVE  eligibility'[e] = "none" /\ decision'[e] = Undecided
      BY <2>2, <2>7, <2>8 DEF FetchInv
    <2>9. ASSUME NEW e \in Calls, pc[e] = "fetching", NEW g \in Holders
          PROVE  /\ status'[e] # "none"
                 /\ verdict[g] \in grounds'[e][g]
                 /\ decision'[e][g] = "ALLOWED" => "ALLOW" \in grounds'[e][g]
      <3>1. status'[e] # "none" /\ verdict[g] \in grounds'[e][g]
        BY <2>3, <2>7, <2>9 DEF FetchInv
      <3>2. CASE e = c /\ g = h
        BY <2>3, <2>5, <2>6, <3>1, <3>2
      <3>3. CASE ~(e = c /\ g = h)
        BY <2>3, <2>4, <2>9, <3>1, <3>3 DEF FetchInv
      <3> QED
        BY <3>1, <3>2, <3>3
    <2>10. ASSUME NEW e \in Calls, pc[e] = "fetching"
           PROVE  status'[e] # "none"
      BY <2>7, <2>10 DEF FetchInv
    <2> QED
      BY <1>0, <2>8, <2>9, <2>10 DEF FetchInv
  <1> QED
    BY <1>1, <1>2, <1>3 DEF ServerStep, EligibilityStep

\* ... and what Cleanverse does: a new verdict is a ground in every fetch under way.
LEMMA WorldFetch ==
    ASSUME ChamberInv, FetchInv, World
    PROVE  FetchInv'
  <1>1. PICK h \in Holders, v \in Verdicts : VerdictChange(h, v)
    BY DEF World
  <1>2. UNCHANGED <<pc, status, eligibility, decision>>
    BY <1>1 DEF World, page, VerdictChange
  <1>3. ASSUME NEW e \in Calls, pc[e] = "fetching", NEW g \in Holders
        PROVE  verdict'[g] \in grounds'[e][g] /\ grounds[e][g] \subseteq grounds'[e][g]
    <2>1. status[e] # "none" /\ verdict[g] \in grounds[e][g]
      BY <1>3 DEF FetchInv
    <2> QED
      BY <1>1, <2>1, EndpointsTyped DEF VerdictChange, EndpointsTypeOK
  <1> QED
    BY <1>2, <1>3 DEF FetchInv

LEMMA RefreshStepFetch ==
    ASSUME ChamberInv, FetchInv, NEW c \in Calls, RefreshStep(c)
    PROVE  FetchInv'
  <1>1. CASE ReadSucceeds(c)
    BY <1>1, ForgetFetch DEF ReadSucceeds
  <1>2. CASE ReadFails(c)
    BY <1>2, ForgetFetch DEF ReadFails, EndRefresh
  <1>3. CASE ShowVerdict(c)
    BY <1>3, FetchKept DEF ShowVerdict
  <1>4. CASE ShowLast(c)
    BY <1>4, ForgetFetch DEF ShowLast, ShowCounts, EndRefresh
  <1> QED
    BY <1>1, <1>2, <1>3, <1>4 DEF RefreshStep

LEMMA ReplayFetch ==
    ASSUME ChamberInv, FetchInv, NEW c \in Calls, BeginReplay(c) \/ ReplayStep(c)
    PROVE  FetchInv'
  <1>1. CASE BeginReplay(c)
    BY <1>1, ElsewhereKept DEF BeginReplay, StartReplay, Awaits
  <1>2. CASE ReplayStep(c)
    BY <1>2, ElsewhereKept DEF ReplayStep, Scan, Mark, Settled, Recheck, Released, EndReplay,
                               OnlyRow, Awaits
  <1> QED
    BY <1>1, <1>2

LEMMA StepFetch == ChamberInv /\ FetchInv /\ [Next]_vars => FetchInv'
  <1> SUFFICES ASSUME ChamberInv, FetchInv, [Next]_vars PROVE FetchInv'
    OBVIOUS
  <1>1. ASSUME NEW c \in Calls, ManualRefresh(c) \/ Clock(c)
        PROVE  FetchInv'
    BY <1>1, BeginRefreshFetch DEF ManualRefresh, Clock
  <1>2. ASSUME NEW c \in Calls, BeginReplay(c) \/ RefreshStep(c) \/ ReplayStep(c) \/ ServerStep(c)
        PROVE  FetchInv'
    BY <1>2, ReplayFetch, RefreshStepFetch, ServerFetch
  <1>3. CASE ShowPage
    BY <1>3, BeginRefreshFetch, FetchKept DEF ShowPage
  <1>4. CASE TimePasses \/ Hide \/ UNCHANGED vars
    BY <1>4, FetchKept DEF TimePasses, Hide, vars, page
  <1>5. CASE World
    BY <1>5, WorldFetch
  <1> QED
    BY <1>1, <1>2, <1>3, <1>4, <1>5 DEF Next

\* Only its own success takes a call from its fetches to the animation.
LEMMA OnlyReadSucceeds ==
    ASSUME ChamberInv, [Next]_vars, NEW c \in Calls, pc[c] = "fetching", pc'[c] = "animating"
    PROVE  ReadSucceeds(c)
  <1> USE EndpointsTyped
  <1>1. ASSUME NEW e \in Calls, BeginRefresh(e)
        PROVE  FALSE
    BY <1>1 DEF BeginRefresh, StartReading
  <1>2. ASSUME NEW e \in Calls, BeginReplay(e) \/ ReplayStep(e)
        PROVE  FALSE
    BY <1>2 DEF BeginReplay, StartReplay, ReplayStep, Scan, Mark, Settled, Recheck, Released,
                EndReplay, Awaits
  <1>3. ASSUME NEW e \in Calls, RefreshStep(e)
        PROVE  ReadSucceeds(c)
    BY <1>3 DEF RefreshStep, ReadSucceeds, ReadFails, ShowVerdict, ShowLast, EndRefresh
  <1>4. ASSUME UNCHANGED pc
        PROVE  FALSE
    BY <1>4
  <1>5. ASSUME NEW e \in Calls, ServerStep(e)
        PROVE  FALSE
    BY <1>4, <1>5 DEF ServerStep, page
  <1>6. CASE ShowPage \/ World \/ TimePasses \/ Hide \/ UNCHANGED vars
    BY <1>1, <1>4, <1>6 DEF ShowPage, World, TimePasses, Hide, vars, page
  <1> QED
    BY <1>1, <1>2, <1>3, <1>5, <1>6 DEF Next, ManualRefresh, Clock

\* A live read reports ALLOWED of a holder only if the policy allowed it at some
\* moment since that very read began, however slow the calls, whichever of them
\* fail, and however often the policy changes its mind in between.
THEOREM AllowedVerdictsAreFresh == Spec => AllowedIsFresh
  <1>1. ASSUME ChamberInv, FetchInv, [Next]_vars, NEW c \in Calls,
               pc[c] = "fetching", pc'[c] = "animating", NEW h \in Holders
        PROVE  liveEligibility'.holders[h] = "ALLOWED" => "ALLOW" \in grounds[c][h]
    <2>1. liveEligibility' = [by |-> c, holders |-> decision[c]]
      BY <1>1, OnlyReadSucceeds DEF ReadSucceeds
    <2> QED
      BY <1>1, <2>1 DEF FetchInv
  <1>2. ChamberInv /\ FetchInv /\ [Next]_vars =>
           \A c \in Calls : pc[c] = "fetching" /\ pc'[c] = "animating" =>
              \A h \in Holders :
                 liveEligibility'.holders[h] = "ALLOWED" => "ALLOW" \in grounds[c][h]
    BY <1>1
  <1> QED
    BY InitChamber, StepChamber, InitFetch, StepFetch, <1>2, PTL DEF Spec, AllowedIsFresh

-----------------------------------------------------------------------------
(* The picture: how far the call under way has drawn it.                   *)

\* The holders before one of whom an answer says d.
Saying(answer, upTo, d) == {h \in Holders : h < upTo /\ answer[h] = d}

\* The animation has shown, and counted, the holders before the one it is at.
AnimationInv ==
    \A c \in Calls :
       pc[c] = "animating" =>
          /\ liveEligibility # NoRead
          /\ \A h \in Holders : h < at[c] => row[h] = Shown(h) /\ roster[h] = Shown(h)
          /\ tally[c].allowed = Cardinality(Saying(liveEligibility.holders, at[c], "ALLOWED"))
          /\ tally[c].unknown = Cardinality(Saying(liveEligibility.holders, at[c], "UNKNOWN"))

\* The replay has paid the holders before the one it is at; the last one is
\* suspended, checked again and released.
ReplayUpTo(c) ==
    /\ pc[c] = "scanning" => \A h \in Holders : h < at[c] => row[h] = "paid"
    /\ pc[c] = "marked" => \A h \in Holders : h <= at[c] /\ h < Cohort => row[h] = "paid"
    /\ pc[c] \in {"settled", "rechecking", "released"} =>
          \A h \in Holders : h < Cohort => row[h] = "paid"
    /\ pc[c] = "released" => row[Cohort] = "released" /\ summary = Cohort

ReplayInv == \A c \in Calls : ReplayUpTo(c)

\* The roster keeps the last answer, but for the rows an animation has not
\* reached.
RosterInv ==
    (\A c \in Calls : pc[c] # "animating") /\ liveEligibility # NoRead =>
       \A h \in Holders : roster[h] = Shown(h)

\* So does the count of UNKNOWN, unless a read has failed since.
UnknownsInv ==
    (\A c \in Calls : pc[c] # "animating") => unknowns \in {KeptUnknowns, Cohort}

StartInv == \A c \in Calls : pc[c] \in {"idle", "fetching"} => at[c] = 1

PictureInv ==
    StartInv /\ AnimationInv /\ ReplayInv /\ RosterInv /\ UnknownsInv /\ PictureOfOneCall

LEMMA ManyHolders ==
    /\ IsFiniteSet(Holders) /\ Cardinality(Holders) = Cohort
    /\ Cohort \in Holders /\ 1 \in Holders /\ Holders \subseteq Nat
    /\ \A h \in Holders : 1 <= h /\ h <= Cohort
  <1>1. IsFiniteSet(Holders) /\ Cardinality(Holders) = Cohort
    BY FS_Interval DEF Holders
  <1> QED
    BY <1>1 DEF Holders

LEMMA AllOfThem ==
    ASSUME NEW rows, NEW state, \A h \in Holders : rows[h] = state
    PROVE  Cardinality({h \in Holders : rows[h] = state}) = Cohort
  <1>1. {h \in Holders : rows[h] = state} = Holders
    OBVIOUS
  <1> QED
    BY <1>1, ManyHolders

LEMMA CountOneMore ==
    ASSUME NEW answer, NEW n \in Holders, NEW d
    PROVE  Cardinality(Saying(answer, n + 1, d)) =
              Cardinality(Saying(answer, n, d)) + (IF answer[n] = d THEN 1 ELSE 0)
  <1>1. IsFiniteSet(Saying(answer, n, d)) /\ Cardinality(Saying(answer, n, d)) \in Nat
    <2>1. Saying(answer, n, d) \in SUBSET Holders
      BY DEF Saying
    <2> QED
      BY <2>1, ManyHolders, FS_Subset, FS_CardinalityType
  <1>2. n \notin Saying(answer, n, d) /\ \A h \in Holders : h < n + 1 <=> h < n \/ h = n
    BY ManyHolders DEF Saying
  <1>3. CASE answer[n] = d
    <2>1. Saying(answer, n + 1, d) = Saying(answer, n, d) \union {n}
      BY <1>2, <1>3 DEF Saying
    <2> QED
      BY <1>1, <1>2, <1>3, <2>1, FS_AddElement
  <1>4. CASE answer[n] # d
    <2>1. Saying(answer, n + 1, d) = Saying(answer, n, d)
      BY <1>2, <1>4 DEF Saying
    <2> QED
      BY <1>1, <1>4, <2>1
  <1> QED
    BY <1>3, <1>4

\* While a call runs, every other one is idle.
LEMMA OthersIdle ==
    ASSUME ChamberInv, NEW c \in Calls, pc[c] \in RefreshPcs \union ReplayPcs,
           NEW e \in Calls, e # c
    PROVE  pc[e] = "idle"
  BY EndpointsTyped DEF ChamberInv, FlagsTellWhoRuns, Refreshes, Replays

LEMMA AllIdle ==
    ASSUME ChamberInv, ~refreshing, ~replaying, NEW e \in Calls
    PROVE  pc[e] = "idle"
  BY EndpointsTyped DEF ChamberInv, FlagsTellWhoRuns, Refreshes, Replays

LEMMA InitPicture == Init => PictureInv
  <1> SUFFICES ASSUME Init PROVE PictureInv
    OBVIOUS
  <1>1. StartInv /\ AnimationInv /\ ReplayInv /\ RosterInv /\ UnknownsInv
    BY DEF Init, StartInv, AnimationInv, ReplayInv, ReplayUpTo, RosterInv, UnknownsInv,
           KeptUnknowns
  <1>2. HowMany("queued") = Cohort
    BY AllOfThem DEF Init, HowMany
  <1>3. PictureOfOneCall
    BY <1>2 DEF Init, PictureOfOneCall, FirstPicture
  <1> QED
    BY <1>1, <1>3 DEF PictureInv

\* What neither moves a call nor draws.
LEMMA NothingDrawn ==
    ASSUME PictureInv, UNCHANGED <<pc, at, tally, refreshing, replaying, picture, answers>>
    PROVE  PictureInv'
  <1> USE DEF picture, answers
  <1>1. StartInv' /\ ReplayInv' /\ RosterInv'
    BY DEF PictureInv, StartInv, ReplayInv, ReplayUpTo, RosterInv, Shown
  <1>2. AnimationInv' /\ UnknownsInv'
    BY DEF PictureInv, AnimationInv, UnknownsInv, KeptUnknowns, Shown
  <1>3. PictureOfOneCall'
    BY DEF PictureInv, PictureOfOneCall, FirstPicture, LivePicture, FailedPicture, ReplayPicture,
           HowMany, KeptUnknowns, Shown
  <1> QED
    BY <1>1, <1>2, <1>3 DEF PictureInv

\* A call that starts has drawn nothing yet.
LEMMA CallStartsPicture ==
    ASSUME ChamberInv, PictureInv, NEW c \in Calls, BeginRefresh(c) \/ BeginReplay(c)
    PROVE  PictureInv'
  <1>1. /\ pc[c] = "idle" /\ ~refreshing /\ ~replaying
        /\ refreshing' \/ replaying'
        /\ UNCHANGED <<at, tally, roster, unknowns, answers>>
    BY DEF BeginRefresh, StartReading, BeginReplay, StartReplay
  <1>2. \A e \in Calls : pc[e] = "idle"
    BY <1>1, AllIdle
  <1>3. \A e \in Calls : pc'[e] \in {"idle", "fetching", "queued"}
    BY <1>2, EndpointsTyped DEF BeginRefresh, StartReading, BeginReplay, StartReplay, Awaits
  <1>4. StartInv'
    BY <1>1, <1>2 DEF PictureInv, StartInv
  <1>5. AnimationInv' /\ ReplayInv'
    BY <1>3 DEF AnimationInv, ReplayInv, ReplayUpTo
  <1>6. RosterInv' /\ UnknownsInv'
    BY <1>1, <1>2 DEF PictureInv, RosterInv, UnknownsInv, KeptUnknowns, Shown, answers
  <1>7. PictureOfOneCall'
    BY <1>1 DEF PictureOfOneCall
  <1> QED
    BY <1>4, <1>5, <1>6, <1>7 DEF PictureInv

\* The call that ends leaves all of them idle, and a picture.
LEMMA CallEndsPicture ==
    ASSUME ChamberInv, PictureInv, NEW c \in Calls, pc[c] \in RefreshPcs \union ReplayPcs,
           pc' = [pc EXCEPT ![c] = "idle"], at' = [at EXCEPT ![c] = 1],
           (FirstPicture \/ LivePicture \/ FailedPicture \/ ReplayPicture)',
           (liveEligibility # NoRead => \A h \in Holders : roster[h] = Shown(h))',
           (unknowns \in {KeptUnknowns, Cohort})'
    PROVE  PictureInv'
  <1>1. \A e \in Calls : pc'[e] = "idle"
    BY OthersIdle, EndpointsTyped
  <1>2. StartInv'
    <2>1. \A e \in Calls \ {c} : at[e] = 1
      BY OthersIdle DEF PictureInv, StartInv
    <2> QED
      BY <2>1 DEF ChamberInv, TypeOK, StartInv
  <1>3. AnimationInv' /\ ReplayInv'
    BY <1>1 DEF AnimationInv, ReplayInv, ReplayUpTo
  <1>4. RosterInv' /\ UnknownsInv' /\ PictureOfOneCall'
    BY DEF RosterInv, UnknownsInv, PictureOfOneCall
  <1> QED
    BY <1>2, <1>3, <1>4 DEF PictureInv

\* Without an animation under way, the roster has the last answer, and the count
\* of UNKNOWN is of a read that has ended.
LEMMA ReadShown ==
    ASSUME ChamberInv, PictureInv, NEW c \in Calls,
           pc[c] \in RefreshPcs \union ReplayPcs, pc[c] # "animating"
    PROVE  /\ liveEligibility # NoRead => \A h \in Holders : roster[h] = Shown(h)
           /\ unknowns \in {KeptUnknowns, Cohort}
  <1>1. \A e \in Calls : pc[e] # "animating"
    BY OthersIdle
  <1> QED
    BY <1>1 DEF PictureInv, RosterInv, UnknownsInv

LEMMA ReadFailsPicture ==
    ASSUME ChamberInv, PictureInv, NEW c \in Calls, ReadFails(c)
    PROVE  PictureInv'
  <1> USE DEF ReadFails, ReadIsFailed, ShowFailure
  <1>1. FailedPicture'
    <2>1. \A h \in Holders : row'[h] = "unknown"
      BY DEF ShowAll
    <2>2. Cardinality({h \in Holders : row'[h] = "unknown"}) = Cohort
      BY <2>1, AllOfThem
    <2> QED
      BY <2>2 DEF FailedPicture, HowMany
  <1>2. (liveEligibility # NoRead => \A h \in Holders : roster[h] = Shown(h))'
    BY ReadShown DEF RefreshPcs, answers, Shown
  <1> QED
    BY <1>1, <1>2, CallEndsPicture DEF RefreshPcs, EndRefresh

LEMMA ReadSucceedsPicture ==
    ASSUME ChamberInv, PictureInv, NEW c \in Calls, ReadSucceeds(c)
    PROVE  PictureInv'
  <1> USE DEF ReadSucceeds
  <1>1. pc[c] \in RefreshPcs /\ refreshing'
    BY RefreshAlone DEF RefreshPcs, flags
  <1>2. pc'[c] = "animating" /\ at' = at /\ at[c] = 1 /\ tally'[c] = ZeroTally
    BY EndpointsTyped DEF PictureInv, StartInv, ChamberInv, LoopInv
  <1>3. \A e \in Calls \ {c} : pc'[e] = "idle" /\ at[e] = 1
    BY <1>1, OthersIdle, EndpointsTyped DEF PictureInv, StartInv
  <1>4. liveEligibility' # NoRead
    <2>1. decision[c][1] # "none"
      BY ManyHolders DEF ChamberInv, LoopInv
    <2> QED
      BY <2>1, ManyHolders DEF NoRead, Undecided
  <1>5. AnimationInv'
    <2>2. \A h \in Holders : ~(h < 1)
      BY ManyHolders
    <2>3. \A answer, d : Cardinality(Saying(answer, 1, d)) = 0
      <3>1. \A answer, d : Saying(answer, 1, d) = {}
        BY <2>2 DEF Saying
      <3> QED
        BY <3>1, FS_EmptySet
    <2> QED
      BY <1>2, <1>3, <1>4, <2>2, <2>3 DEF AnimationInv, ZeroTally
  <1>6. StartInv' /\ ReplayInv' /\ RosterInv' /\ UnknownsInv' /\ PictureOfOneCall'
    BY <1>1, <1>2, <1>3 DEF StartInv, ReplayInv, ReplayUpTo, RosterInv, UnknownsInv, PictureOfOneCall
  <1> QED
    BY <1>5, <1>6 DEF PictureInv

\* What an animation has counted once it has been at holder n.
LEMMA CountIs ==
    ASSUME ChamberInv, PictureInv, NEW c \in Calls, pc[c] = "animating"
    PROVE  LET n == at[c]
               d == liveEligibility.holders[n] IN
           /\ Count(c, d).allowed = Cardinality(Saying(liveEligibility.holders, n + 1, "ALLOWED"))
           /\ Count(c, d).unknown = Cardinality(Saying(liveEligibility.holders, n + 1, "UNKNOWN"))
  <1>1. at[c] \in Holders
    BY DEF ChamberInv, TypeOK
  <1>2. /\ tally[c].allowed = Cardinality(Saying(liveEligibility.holders, at[c], "ALLOWED"))
        /\ tally[c].unknown = Cardinality(Saying(liveEligibility.holders, at[c], "UNKNOWN"))
    BY DEF PictureInv, AnimationInv
  <1>3. ASSUME NEW d
        PROVE  Cardinality(Saying(liveEligibility.holders, at[c] + 1, d)) =
                  Cardinality(Saying(liveEligibility.holders, at[c], d)) + (IF liveEligibility.holders[at[c]] = d THEN 1 ELSE 0)
    BY <1>1, CountOneMore
  <1> QED
    BY <1>2, <1>3 DEF Count

LEMMA ShowVerdictPicture ==
    ASSUME ChamberInv, PictureInv, NEW c \in Calls, ShowVerdict(c)
    PROVE  PictureInv'
  <1> USE DEF ShowVerdict
  <1>1. pc[c] = "animating" /\ pc[c] \in RefreshPcs /\ refreshing' /\ pc' = pc
    BY RefreshAlone DEF RefreshPcs, flags
  <1>2. at[c] \in Holders /\ at[c] < Cohort /\ at'[c] = at[c] + 1 /\ liveEligibility' = liveEligibility
    BY DEF ChamberInv, TypeOK, answers
  <1>3. \A e \in Calls \ {c} : pc[e] = "idle" /\ at'[e] = 1
    BY <1>1, OthersIdle DEF PictureInv, StartInv, ChamberInv, TypeOK
  <1>4. \A h \in Holders : h < at[c] + 1 => row'[h] = Shown(h) /\ roster'[h] = Shown(h)
    <2> SUFFICES ASSUME NEW h \in Holders, h < at[c] + 1
                 PROVE  row'[h] = Shown(h) /\ roster'[h] = Shown(h)
      OBVIOUS
    <2>1. CASE h = at[c]
      BY <1>2, <2>1, ManyHolders DEF ChamberInv, TypeOK, Shown
    <2>2. CASE h # at[c]
      <3>1. h < at[c] /\ h # at[c] + 1
        <4>1. h \in Nat /\ at[c] \in Nat
          BY <1>2, ManyHolders
        <4> HIDE DEF ShowVerdict
        <4> QED
          BY <2>2, <4>1
      <3>2. row'[h] = row[h] /\ roster'[h] = roster[h]
        BY <2>2, <3>1 DEF ChamberInv, TypeOK
      <3> QED
        BY <1>1, <3>1, <3>2 DEF PictureInv, AnimationInv
    <2> QED
      BY <2>1, <2>2
  <1>5. /\ tally'[c].allowed = Cardinality(Saying(liveEligibility.holders, at[c] + 1, "ALLOWED"))
        /\ tally'[c].unknown = Cardinality(Saying(liveEligibility.holders, at[c] + 1, "UNKNOWN"))
    <2>1. tally'[c] = Count(c, liveEligibility.holders[at[c]])
      BY DEF ChamberInv, TypeOK
    <2> QED
      BY <1>1, <2>1, CountIs
  <1>6. AnimationInv'
    <2>1. liveEligibility' # NoRead
      BY <1>1, <1>2 DEF PictureInv, AnimationInv
    <2> QED
      BY <1>1, <1>2, <1>3, <1>4, <1>5, <2>1 DEF AnimationInv, Shown
  <1>7. StartInv' /\ ReplayInv' /\ RosterInv' /\ UnknownsInv' /\ PictureOfOneCall'
    BY <1>1, <1>3 DEF StartInv, ReplayInv, ReplayUpTo, RosterInv, UnknownsInv, PictureOfOneCall
  <1> QED
    BY <1>6, <1>7 DEF PictureInv

LEMMA ShowLastPicture ==
    ASSUME ChamberInv, PictureInv, NEW c \in Calls, ShowLast(c)
    PROVE  PictureInv'
  <1> USE DEF ShowLast, ShowCounts
  <1>1. pc[c] = "animating" /\ at[c] = Cohort /\ liveEligibility' = liveEligibility
    BY DEF answers
  <1>2. liveEligibility # NoRead /\ liveEligibility \in Reads
    BY DEF PictureInv, AnimationInv, ChamberInv, TypeOK
  <1>3. \A h \in Holders : row'[h] = Shown(h) /\ roster'[h] = Shown(h)
    <2> SUFFICES ASSUME NEW h \in Holders
                 PROVE  row'[h] = Shown(h) /\ roster'[h] = Shown(h)
      OBVIOUS
    <2>1. CASE h = Cohort
      BY <2>1 DEF ChamberInv, TypeOK, Shown, Show
    <2>2. CASE h # Cohort
      <3>1. h < at[c]
        BY <1>1, <2>2, ManyHolders
      <3> QED
        BY <1>1, <2>2, <3>1 DEF ChamberInv, TypeOK, PictureInv, AnimationInv, Show
    <2> QED
      BY <2>1, <2>2
  <1>4. ASSUME NEW h \in Holders
        PROVE  /\ Shown(h) = "allowed" <=> liveEligibility.holders[h] = "ALLOWED"
               /\ Shown(h) = "unknown" <=> liveEligibility.holders[h] = "UNKNOWN"
    <2>1. liveEligibility.holders[h] \in Decisions
      BY <1>2 DEF Reads
    <2> QED
      BY <2>1 DEF Decisions, Shown, ClassifyLive
  <1>5. /\ summary' = Cardinality(Saying(liveEligibility.holders, Cohort + 1, "ALLOWED"))
        /\ unknowns' = Cardinality(Saying(liveEligibility.holders, Cohort + 1, "UNKNOWN"))
    BY <1>1, CountIs
  <1>6. /\ Saying(liveEligibility.holders, Cohort + 1, "ALLOWED") = {h \in Holders : row'[h] = "allowed"}
        /\ Saying(liveEligibility.holders, Cohort + 1, "UNKNOWN") = {h \in Holders : row'[h] = "unknown"}
    <2>1. \A h \in Holders : h < Cohort + 1
      BY ManyHolders
    <2> QED
      BY <1>3, <1>4, <2>1 DEF Saying
  <1>7. LivePicture'
    BY <1>1, <1>2, <1>3, <1>5, <1>6 DEF LivePicture, HowMany, Shown
  <1>8. (liveEligibility # NoRead => \A h \in Holders : roster[h] = Shown(h))'
    BY <1>1, <1>3 DEF Shown
  <1>9. (unknowns \in {KeptUnknowns, Cohort})'
    <2>1. {h \in Holders : Shown(h) = "unknown"} = {h \in Holders : row'[h] = "unknown"}
      BY <1>3
    <2> QED
      BY <1>1, <1>2, <1>5, <1>6, <2>1 DEF KeptUnknowns, Shown
  <1> QED
    BY <1>1, <1>7, <1>8, <1>9, CallEndsPicture DEF RefreshPcs, EndRefresh

\* A replay that goes on has its own rows to answer for, and touches no roster.
LEMMA ReplayGoesOnPicture ==
    ASSUME ChamberInv, PictureInv, NEW c \in Calls, pc[c] \in ReplayPcs,
           NEW place \in ReplayPcs, Awaits(c, place), OnlyRow,
           \A other \in Calls \ {c} : at'[other] = at[other], ReplayUpTo(c)'
    PROVE  PictureInv'
  <1> USE DEF OnlyRow, Awaits
  <1>1. replaying' /\ pc'[c] = place /\ place \notin {"idle", "fetching", "animating"}
    BY ReplayAlone, EndpointsTyped DEF flags, ReplayPcs
  <1>2. \A e \in Calls \ {c} : pc'[e] = "idle" /\ pc[e] = "idle" /\ at'[e] = 1
    BY OthersIdle, EndpointsTyped DEF PictureInv, StartInv
  <1>3. StartInv' /\ AnimationInv' /\ PictureOfOneCall'
    BY <1>1, <1>2 DEF StartInv, AnimationInv, PictureOfOneCall
  <1>4. ReplayInv'
    BY <1>2 DEF ReplayInv, ReplayUpTo
  <1>5. RosterInv' /\ UnknownsInv'
    <2>1. pc[c] # "animating"
      BY DEF ReplayPcs
    <2> QED
      BY <2>1, ReadShown DEF RosterInv, UnknownsInv, KeptUnknowns, Shown, answers
  <1> QED
    BY <1>3, <1>4, <1>5 DEF PictureInv

LEMMA ReplayStepPicture ==
    ASSUME ChamberInv, PictureInv, NEW c \in Calls, ReplayStep(c)
    PROVE  PictureInv'
  <1>0. /\ at \in [Calls -> Holders] /\ at[c] \in Holders /\ row \in [Holders -> RowStates]
        /\ pc \in [Calls -> {"idle"} \union RefreshPcs \union ReplayPcs]
        /\ ReplayUpTo(c)
    BY DEF ChamberInv, TypeOK, PictureInv, ReplayInv, ReplayUpTo
  <1> USE ManyHolders DEF Awaits, ReplayUpTo
  <1>1. CASE Scan(c)
    <2> DEFINE h == IF pc[c] = "queued" THEN 1 ELSE at[c] + 1
    <2>1. pc[c] \in ReplayPcs /\ "scanning" \in ReplayPcs
      BY <1>1 DEF Scan, ReplayPcs
    <2>2. /\ h \in Holders /\ Show(h, "recheck") /\ at' = [at EXCEPT ![c] = h]
          /\ OnlyRow /\ Awaits(c, "scanning")
      BY <1>0, <1>1 DEF Scan, Holders
    <2>3. pc'[c] = "scanning" /\ at'[c] = h /\ \A other \in Calls \ {c} : at'[other] = at[other]
      BY <1>0, <2>2
    <2>4. \A g \in Holders : g < h => row'[g] = "paid"
      <3>1. \A g \in Holders : g < h => row'[g] = row[g]
        BY <1>0, <2>2 DEF Show
      <3>2. \A g \in Holders : g < h => pc[c] = "marked" /\ g <= at[c] /\ g < Cohort
        <4>1. CASE pc[c] = "queued"
          BY <4>1
        <4>2. CASE pc[c] = "marked" /\ at[c] < Cohort
          <5>1. at[c] \in Nat
            BY <1>0
          <5>2. h = at[c] + 1
            BY <4>2
          <5>3. ASSUME NEW g \in Holders, g < at[c] + 1
                PROVE  pc[c] = "marked" /\ g <= at[c] /\ g < Cohort
            <6>1. g \in Nat /\ Cohort \in Nat
              OBVIOUS
            <6> QED
              BY <4>2, <5>1, <5>3, <6>1
          <5> HIDE DEF h
          <5> QED
            BY <5>2, <5>3
        <4> QED
          BY <1>1, <4>1, <4>2 DEF Scan
      <3> QED
        BY <1>0, <3>1, <3>2
    <2>5. ReplayUpTo(c)'
      BY <2>3, <2>4
    <2> QED
      BY <2>1, <2>2, <2>3, <2>5, ReplayGoesOnPicture
  <1>2. CASE Mark(c)
    <2> USE <1>2 DEF Mark
    <2>1. pc[c] \in ReplayPcs /\ "marked" \in ReplayPcs
      BY DEF ReplayPcs
    <2>2. ReplayUpTo(c)'
      <3>1. pc'[c] = "marked" /\ at' = at
        BY <1>0
      <3>2. \A g \in Holders : g <= at[c] /\ g < Cohort => row'[g] = "paid"
        <4> SUFFICES ASSUME NEW g \in Holders, g <= at[c], g < Cohort
                     PROVE  row'[g] = "paid"
          OBVIOUS
        <4>1. CASE g = at[c]
          BY <1>0, <4>1 DEF Show
        <4>2. CASE g # at[c]
          <5>1. g \in Nat /\ at[c] \in Nat
            BY <1>0
          <5>2. row'[g] = row[g]
            BY <1>0, <4>2 DEF Show
          <5>3. g < at[c]
            BY <4>2, <5>1
          <5> QED
            BY <1>0, <5>2, <5>3
        <4> QED
          BY <4>1, <4>2
      <3> QED
        BY <3>1, <3>2
    <2> QED
      BY <2>1, <2>2, ReplayGoesOnPicture
  <1>3. CASE Settled(c)
    <2> USE <1>3 DEF Settled
    <2>1. pc[c] \in ReplayPcs /\ "settled" \in ReplayPcs
      BY DEF ReplayPcs
    <2>2. ReplayUpTo(c)'
      <3>1. pc'[c] = "settled" /\ row' = row
        BY <1>0
      <3>2. \A g \in Holders : g < Cohort => row[g] = "paid"
        BY <1>0
      <3> QED
        BY <3>1, <3>2
    <2> QED
      BY <2>1, <2>2, ReplayGoesOnPicture
  <1>4. CASE Recheck(c)
    <2> USE <1>4 DEF Recheck
    <2>1. pc[c] \in ReplayPcs /\ "rechecking" \in ReplayPcs
      BY DEF ReplayPcs
    <2>2. ReplayUpTo(c)'
      <3>1. pc'[c] = "rechecking"
        BY <1>0
      <3>2. \A g \in Holders : g < Cohort => row'[g] = "paid"
        BY <1>0 DEF Show
      <3> QED
        BY <3>1, <3>2
    <2> QED
      BY <2>1, <2>2, ReplayGoesOnPicture
  <1>5. CASE Released(c)
    <2> USE <1>5 DEF Released
    <2>1. pc[c] \in ReplayPcs /\ "released" \in ReplayPcs
      BY DEF ReplayPcs
    <2>2. ReplayUpTo(c)'
      <3>1. pc'[c] = "released" /\ summary' = Cohort /\ row'[Cohort] = "released"
        BY <1>0 DEF Show
      <3>2. \A g \in Holders : g < Cohort => row'[g] = "paid"
        BY <1>0 DEF Show
      <3> QED
        BY <3>1, <3>2
    <2> QED
      BY <2>1, <2>2, ReplayGoesOnPicture
  <1>6. CASE EndReplay(c)
    <2> USE <1>6 DEF EndReplay, picture, answers
    <2>1. pc[c] \in ReplayPcs /\ pc[c] # "animating" /\ reality = "VERIFIED_EXECUTION_REPLAY"
      BY ReplayAlone DEF ReplayPcs
    <2>4. (unknowns \in {KeptUnknowns, Cohort})'
      BY <2>1, ReadShown DEF KeptUnknowns, Shown
    <2>2. ReplayPicture'
      <3>1. \A h \in Holders : row[h] = ReplayEnd(h)
        BY <1>0 DEF ReplayEnd
      <3> QED
        BY <1>0, <2>1, <2>4, <3>1 DEF ReplayPicture, ReplayEnd
    <2>3. (liveEligibility # NoRead => \A h \in Holders : roster[h] = Shown(h))'
      BY <2>1, ReadShown DEF Shown
    <2> QED
      BY <2>1, <2>2, <2>3, <2>4, CallEndsPicture
  <1> QED
    BY <1>1, <1>2, <1>3, <1>4, <1>5, <1>6 DEF ReplayStep

LEMMA StepPicture == ChamberInv /\ PictureInv /\ [Next]_vars => PictureInv'
  <1> SUFFICES ASSUME ChamberInv, PictureInv, [Next]_vars PROVE PictureInv'
    OBVIOUS
  <1>1. ASSUME NEW c \in Calls, ManualRefresh(c) \/ Clock(c) \/ BeginReplay(c)
        PROVE  PictureInv'
    BY <1>1, CallStartsPicture DEF ManualRefresh, Clock
  <1>2. ASSUME NEW c \in Calls, RefreshStep(c) \/ ReplayStep(c)
        PROVE  PictureInv'
    BY <1>2, ReadSucceedsPicture, ReadFailsPicture, ShowVerdictPicture, ShowLastPicture,
       ReplayStepPicture DEF RefreshStep
  <1>3. ASSUME NEW c \in Calls, ServerStep(c)
        PROVE  PictureInv'
    BY <1>3, NothingDrawn DEF ServerStep, page, flags
  <1>4. CASE ShowPage
    BY <1>4, CallStartsPicture, NothingDrawn DEF ShowPage, flags
  <1>5. CASE TimePasses \/ Hide \/ World \/ UNCHANGED vars
    BY <1>5, NothingDrawn DEF TimePasses, Hide, World, vars, page, flags
  <1> QED
    BY <1>1, <1>2, <1>3, <1>4, <1>5 DEF Next

\* Whenever nothing runs, rows, summary and reality class are those of one call as
\* a whole, and the roster has the verdicts of the last read that succeeded, for
\* any number of holders: no interleaving leaves half of one picture in another.
\* The count of UNKNOWN is that of the last read, which a replay leaves standing.
THEOREM OnePictureAtATime == Spec => []PictureOfOneCall
  <1>1. PictureInv => PictureOfOneCall
    BY DEF PictureInv
  <1> QED
    BY InitChamber, StepChamber, InitPicture, StepPicture, <1>1, PTL DEF Spec

=============================================================================
