--------------------------- MODULE OnboardingProofs ---------------------------
(***************************************************************************)
(* Theorems about the onboarding scripts, for any number of processes,     *)
(* keys, addresses and requests.  Nothing the chain or Cleanverse has given*)
(* out is taken back (Kept), so whatever a script has read stays true while*)
(* it waits, and so does what it writes back.                              *)
(***************************************************************************)
EXTENDS OnboardingState, TLAPS

USE NoneAssumption, HoldersAssumption

RunType == [script : Scripts, at : Points, saved : Records,
            holder : 0..Holders, last : 0..Holders]

\* What a script has in hand at each of its points.
HandTrue(r) ==
    /\ r.at = "provision" => r.script = "apass" /\ r.saved.key \in Keys /\ r.holder \in 1..r.last
    /\ r.at = "deployment" => r.script = "register"
    /\ r.at \in {"post", "reply"} => r.script \in {"launch", "register"}
    /\ r.at \in {"deploy", "wait"} => r.script \in {"deploy cva", "deploy vault"}
    /\ r.at = "ask" => /\ r.script \in {"launch status", "register status"}
                       /\ r.saved.request # None
    /\ r.at \in {"deployment", "post", "reply", "deploy", "wait"} =>
         r.saved.status = "unknown"
    /\ r.at \in {"deployment", "post"} => r.saved.request = None
    /\ r.at = "wait" =>
         /\ r.saved.contract \in Contracts
         /\ contract[r.saved.contract].kind =
              (IF r.script = "deploy cva" THEN "token" ELSE "vault")
         /\ contract[r.saved.contract].admin = r.saved.key
         /\ contract[r.saved.contract].state # "unused"
    /\ r.at \in {"post", "reply", "ask", "open", "write"} =>
         RecordTrue(Target(r.script), r.saved) /\ VerdictTrue(r.saved)

FileTrue(f) == (Readable(f) => RecordTrue(f, file[f])) /\ VerdictTrue(file[f])

FreshInv == \A r \in Requests : request[r].state = "unused" => request[r].kind = "unused"

OnboardingInv ==
    /\ TypeOK
    /\ FreshInv
    /\ RegisteredByOwner
    /\ \A f \in Files : FileTrue(f)
    /\ \A p \in Runs : HandTrue(run[p])

\* What a step may not take back: who a contract belongs to once it is sent,
\* that it stands once it is mined, what a request was made for, its verdict.
Kept ==
    /\ \A c \in Contracts : contract[c].state # "unused" =>
         /\ contract'[c].kind = contract[c].kind
         /\ contract'[c].admin = contract[c].admin
         /\ contract'[c].state # "unused"
         /\ contract[c].state = "mined" => contract'[c].state = "mined"
    /\ \A r \in Requests : request[r].state # "unused" =>
         /\ request'[r].kind = request[r].kind
         /\ request'[r].contract = request[r].contract
         /\ request'[r].by = request[r].by
         /\ request[r].state # "open" => request'[r].state = request[r].state

---------------------------------------------------------------------------
(* Lemmas about what files and hands hold.                                 *)

LEMMA TargetType == \A script : Target(script) \in Files
  BY Zenon DEF Target, Files

LEMMA TargetOf ==
    /\ Target("launch") = "apply" /\ Target("launch status") = "apply"
    /\ Target("register") = "register" /\ Target("register status") = "register"
    /\ Target("deploy cva") = "cva" /\ Target("deploy vault") = "vault"
    /\ Target("wallets") = "wallets" /\ Target("none") = "wallets"
  BY DEF Target

LEMMA BlankType == Blank \in Records /\ Idle \in RunType
  BY DEF Blank, Records, Idle, RunType, Scripts, Points

LEMMA KeptStands ==
    ASSUME TypeOK, TypeOK', Kept, NEW c, NEW kind, NEW admin, Stands(c, kind, admin)
    PROVE  Stands(c, kind, admin)'
  BY DEF TypeOK, Kept, Stands

LEMMA KeptRecord ==
    ASSUME TypeOK, TypeOK', FreshInv, Kept, NEW f \in Files, NEW record \in Records
    PROVE  /\ RecordTrue(f, record) => RecordTrue(f, record)'
           /\ VerdictTrue(record) => VerdictTrue(record)'
  <1>1. ASSUME NEW kind \in {"launch", "register"}, Made(record, kind)
        PROVE  Made(record, kind)'
    BY <1>1 DEF Made, Kept, TypeOK, Records, FreshInv
  <1>2. RecordTrue(f, record) => RecordTrue(f, record)'
    BY <1>1, KeptStands DEF RecordTrue
  <1>3. VerdictTrue(record) => VerdictTrue(record)'
    BY DEF VerdictTrue, Kept, TypeOK, Records
  <1> QED
    BY <1>2, <1>3

LEMMA KeptHand ==
    ASSUME TypeOK, TypeOK', FreshInv, Kept, NEW r \in RunType, HandTrue(r)
    PROVE  HandTrue(r)'
  <1>1. r.saved \in Records /\ Target(r.script) \in Files
    BY TargetType DEF RunType
  <1>2. /\ RecordTrue(Target(r.script), r.saved) => RecordTrue(Target(r.script), r.saved)'
        /\ VerdictTrue(r.saved) => VerdictTrue(r.saved)'
    BY <1>1, KeptRecord
  <1>3. r.at = "wait" =>
          /\ r.saved.contract \in Contracts
          /\ contract'[r.saved.contract].kind =
               (IF r.script = "deploy cva" THEN "token" ELSE "vault")
          /\ contract'[r.saved.contract].admin = r.saved.key
          /\ contract'[r.saved.contract].state # "unused"
    BY DEF HandTrue, Kept
  <1> QED
    BY <1>2, <1>3 DEF HandTrue

LEMMA KeptRegistrations ==
    ASSUME OnboardingInv, TypeOK', Kept, NEW r \in Requests,
           request[r].state # "unused" \/ request'[r] = request[r],
           request'[r].kind = "register"
    PROVE  Stands(request[r].contract, "token", request[r].by)'
           /\ request'[r].contract = request[r].contract /\ request'[r].by = request[r].by
  <1>1. /\ request[r].kind = "register"
        /\ request'[r].contract = request[r].contract /\ request'[r].by = request[r].by
    BY DEF Kept
  <1>2. Stands(request[r].contract, "token", request[r].by)
    BY <1>1 DEF OnboardingInv, RegisteredByOwner
  <1> QED
    BY <1>1, <1>2, KeptStands DEF OnboardingInv

---------------------------------------------------------------------------
(* What one script's step preserves.                                       *)

\* A step of process p that leaves the files alone: it is enough that p has
\* the truth in hand.
LEMMA ScriptStep ==
    ASSUME OnboardingInv, TypeOK', Kept, NEW p \in Runs,
           \A q \in Runs : q # p => run'[q] = run[q],
           HandTrue(run[p])', UNCHANGED file
    PROVE  /\ \A q \in Runs : HandTrue(run[q])'
           /\ \A f \in Files : FileTrue(f)'
  <1>1. \A q \in Runs : run[q] \in RunType
    BY DEF OnboardingInv, TypeOK, RunType
  <1>2. ASSUME NEW q \in Runs, q # p PROVE HandTrue(run[q])'
    <2>1. run[q] \in RunType /\ HandTrue(run[q]) /\ run'[q] = run[q]
      BY <1>1, <1>2 DEF OnboardingInv
    <2> QED
      BY <2>1, KeptHand DEF OnboardingInv
  <1>3. ASSUME NEW f \in Files PROVE FileTrue(f)'
    <2>1. file[f] \in Records
      BY DEF OnboardingInv, TypeOK
    <2>2. /\ RecordTrue(f, file[f]) => RecordTrue(f, file[f])'
          /\ VerdictTrue(file[f]) => VerdictTrue(file[f])'
      BY <2>1, KeptRecord DEF OnboardingInv
    <2> QED
      BY <2>2 DEF OnboardingInv, FileTrue, Readable
  <1> QED
    BY <1>2, <1>3

LEMMA SameChain == UNCHANGED <<contract, request>> => Kept
  BY DEF Kept

LEMMA SameRegistrations ==
    ASSUME OnboardingInv, TypeOK', Kept, UNCHANGED request
    PROVE  FreshInv' /\ RegisteredByOwner'
  <1>1. FreshInv'
    BY DEF OnboardingInv, FreshInv
  <1>2. RegisteredByOwner'
    BY KeptRegistrations DEF RegisteredByOwner
  <1> QED
    BY <1>1, <1>2

\* A step that changes neither a file nor what the chain and Cleanverse hold.
LEMMA QuietStep ==
    ASSUME OnboardingInv, TypeOK', NEW p \in Runs,
           \A q \in Runs : q # p => run'[q] = run[q],
           HandTrue(run[p])', UNCHANGED <<file, contract, request>>
    PROVE  OnboardingInv'
  <1>1. Kept
    BY SameChain
  <1>2. FreshInv' /\ RegisteredByOwner'
    BY <1>1, SameRegistrations
  <1>3. (\A q \in Runs : HandTrue(run[q])') /\ (\A f \in Files : FileTrue(f)')
    BY <1>1, ScriptStep
  <1> QED
    BY <1>2, <1>3 DEF OnboardingInv

LEMMA InitOnboarding == Init => OnboardingInv
  <1> SUFFICES ASSUME Init PROVE OnboardingInv
    OBVIOUS
  <1>1. TypeOK
    BY DEF Init, TypeOK, Idle, Blank, Records, Scripts, Points, Files, Fates
  <1>2. FreshInv /\ RegisteredByOwner
    BY DEF Init, FreshInv, RegisteredByOwner
  <1>3. \A f \in Files : FileTrue(f)
    BY DEF Init, FileTrue, Readable, VerdictTrue, Blank
  <1>4. \A p \in Runs : HandTrue(run[p])
    BY DEF Init, HandTrue, Idle
  <1> QED
    BY <1>1, <1>2, <1>3, <1>4 DEF OnboardingInv

LEMMA DieSafe ==
    ASSUME OnboardingInv, NEW p \in Runs, Die(p) PROVE OnboardingInv'
  <1>1. TypeOK'
    BY BlankType DEF OnboardingInv, TypeOK, Die, RunType
  <1>2. HandTrue(run[p])'
    BY DEF OnboardingInv, TypeOK, Die, HandTrue, Idle
  <1>3. \A q \in Runs : q # p => run'[q] = run[q]
    BY DEF Die, OnboardingInv, TypeOK
  <1> QED
    BY <1>1, <1>2, <1>3, QuietStep DEF Die

LEMMA BeginSafe ==
    ASSUME OnboardingInv, NEW p \in Runs, NEW script \in Scripts, NEW point \in Points,
           NEW record \in Records, Begin(p, script, point, record),
           drawn' \subseteq Keys, UNCHANGED <<file, contract, request, pass>>,
           HandTrue([Idle EXCEPT !.script = script, !.at = point, !.saved = record])
    PROVE  OnboardingInv'
  <1> DEFINE new == [Idle EXCEPT !.script = script, !.at = point, !.saved = record]
  <1>1. new \in RunType /\ run'[p] = new /\ \A q \in Runs : q # p => run'[q] = run[q]
    BY BlankType DEF Begin, OnboardingInv, TypeOK, RunType, Idle
  <1>2. TypeOK'
    BY <1>1 DEF OnboardingInv, TypeOK, Begin, RunType
  <1>3. HandTrue(new)'
    BY <1>1, <1>2, SameChain, KeptHand DEF OnboardingInv
  <1>4. HandTrue(run[p])'
    BY <1>1, <1>3
  <1> QED
    BY <1>1, <1>2, <1>4, QuietStep

LEMMA GotoSafe ==
    ASSUME OnboardingInv, NEW p \in Runs, NEW point \in Points, NEW record \in Records,
           GotoWith(p, point, record), UNCHANGED <<file, drawn, contract, request, pass>>,
           HandTrue([run[p] EXCEPT !.at = point, !.saved = record])
    PROVE  OnboardingInv'
  <1>1. PICK new \in RunType : new = [run[p] EXCEPT !.at = point, !.saved = record]
    <2>1. run[p] \in RunType
      BY DEF OnboardingInv, TypeOK, RunType
    <2>2. [run[p] EXCEPT !.at = point, !.saved = record] \in RunType
      BY <2>1 DEF RunType
    <2> QED
      BY <2>2
  <1>2. run'[p] = new /\ \A q \in Runs : q # p => run'[q] = run[q]
    BY <1>1 DEF GotoWith, OnboardingInv, TypeOK
  <1>3. TypeOK'
    BY <1>1 DEF OnboardingInv, TypeOK, GotoWith, RunType
  <1>4. HandTrue(new)'
    BY <1>1, <1>3, SameChain, KeptHand DEF OnboardingInv
  <1>5. HandTrue(run[p])'
    BY <1>2, <1>4
  <1> QED
    BY <1>2, <1>3, <1>5, QuietStep

---------------------------------------------------------------------------
(* The steps of a script.                                                  *)

LEMMA BootstrapSafe ==
    ASSUME OnboardingInv, NEW p \in Runs, Bootstrap(p) PROVE OnboardingInv'
  <1>1. PICK k \in Keys \ drawn : drawn' = drawn \cup {k}
                               /\ Begin(p, "wallets", "open", [Blank EXCEPT !.key = k])
    BY DEF Bootstrap
  <1> DEFINE record == [Blank EXCEPT !.key = k]
  <1>2. record \in Records /\ record.status = "unknown"
    BY DEF Records, Blank
  <1>3. RecordTrue("wallets", record) /\ VerdictTrue(record)
    BY <1>2 DEF RecordTrue, VerdictTrue
  <1>4. HandTrue([Idle EXCEPT !.script = "wallets", !.at = "open", !.saved = record])
    BY <1>3, TargetOf DEF HandTrue, Idle
  <1>5. drawn' \subseteq Keys /\ "wallets" \in Scripts /\ "open" \in Points
    BY <1>1 DEF OnboardingInv, TypeOK, Scripts, Points
  <1> HIDE DEF record
  <1> QED
    BY <1>1, <1>2, <1>4, <1>5, BeginSafe DEF record, Bootstrap

LEMMA ReadWalletsSafe ==
    ASSUME OnboardingInv, NEW p \in Runs, NEW script, NEW point,
           \/ (script = "launch" /\ point = "post")
           \/ (script = "register" /\ point = "deployment")
           \/ (script \in {"deploy cva", "deploy vault"} /\ point = "deploy"),
           ReadWallets(p, script, point)
    PROVE  OnboardingInv'
  <1>1. PICK record \in Records : record = [Blank EXCEPT !.key = file["wallets"].key]
    BY DEF OnboardingInv, TypeOK, Records, Blank, Files
  <1>2. record.status = "unknown" /\ record.request = None
    BY <1>1 DEF Blank
  <1>3. VerdictTrue(record) /\ RecordTrue("apply", record)
    BY <1>2 DEF VerdictTrue, RecordTrue, Made
  <1>4. HandTrue([Idle EXCEPT !.script = script, !.at = point, !.saved = record])
    BY <1>2, <1>3, TargetOf DEF HandTrue, Idle
  <1>5. script \in Scripts /\ point \in Points /\ drawn' \subseteq Keys
    BY DEF Scripts, Points, ReadWallets, OnboardingInv, TypeOK
  <1> QED
    BY <1>1, <1>4, <1>5, BeginSafe DEF ReadWallets

LEMMA ReadRequestSafe ==
    ASSUME OnboardingInv, NEW p \in Runs, NEW script \in {"launch status", "register status"},
           ReadRequest(p, script)
    PROVE  OnboardingInv'
  <1>1. Target(script) \in Files
    BY TargetType
  <1>2. PICK record \in Records : record = file[Target(script)]
    BY <1>1 DEF OnboardingInv, TypeOK
  <1>3. record.request # None /\ RecordTrue(Target(script), record) /\ VerdictTrue(record)
    <2>1. FileTrue(Target(script))
      BY <1>1 DEF OnboardingInv
    <2> QED
      BY <1>2, <2>1 DEF FileTrue, ReadRequest
  <1>4. HandTrue([Idle EXCEPT !.script = script, !.at = "ask", !.saved = record])
    BY <1>3 DEF HandTrue, Idle
  <1>5. script \in Scripts /\ "ask" \in Points /\ drawn' \subseteq Keys
    BY DEF Scripts, Points, ReadRequest, OnboardingInv, TypeOK
  <1> QED
    BY <1>2, <1>4, <1>5, BeginSafe DEF ReadRequest

LEMMA ReadDeploymentSafe ==
    ASSUME OnboardingInv, NEW p \in Runs, ReadDeployment(p) PROVE OnboardingInv'
  <1>1. PICK record \in Records :
          record = [run[p].saved EXCEPT !.contract = file["cva"].contract]
    <2>1. run[p].saved \in Records /\ file["cva"] \in Records
      BY DEF OnboardingInv, TypeOK, Files
    <2>2. [run[p].saved EXCEPT !.contract = file["cva"].contract] \in Records
      BY <2>1 DEF Records
    <2> QED
      BY <2>2
  <1>2. /\ run[p] \in RunType /\ run[p].script = "register"
        /\ run[p].saved.status = "unknown" /\ run[p].saved.request = None
    BY DEF ReadDeployment, At, OnboardingInv, TypeOK, RunType, HandTrue
  <1>3. record.status = "unknown" /\ record.request = None
    BY <1>1, <1>2 DEF RunType, Records
  <1>4. Stands(record.contract, "token", record.key)
    <2>1. RecordTrue("cva", file["cva"])
      BY DEF OnboardingInv, FileTrue, ReadDeployment, Files
    <2>2. Stands(file["cva"].contract, "token", file["cva"].key)
      BY <2>1 DEF RecordTrue
    <2>3. record.contract = file["cva"].contract /\ record.key = file["cva"].key
      BY <1>1, <1>2 DEF ReadDeployment, RunType, Records
    <2> QED
      BY <2>2, <2>3
  <1>5. RecordTrue("register", record) /\ VerdictTrue(record)
    BY <1>3, <1>4 DEF RecordTrue, Made, VerdictTrue
  <1>6. HandTrue([run[p] EXCEPT !.at = "post", !.saved = record])
    BY <1>2, <1>3, <1>5, TargetOf DEF HandTrue, RunType
  <1>7. "post" \in Points
    BY DEF Points
  <1> QED
    BY <1>1, <1>6, <1>7, GotoSafe DEF ReadDeployment

LEMMA ReadHoldersSafe ==
    ASSUME OnboardingInv, NEW p \in Runs, ReadHolders(p) PROVE OnboardingInv'
  <1>1. file["wallets"].key \in Keys
    BY DEF ReadHolders, Readable, OnboardingInv, TypeOK, Files, Records
  <1>2. PICK record \in Records : record = [Blank EXCEPT !.key = file["wallets"].key]
    <2>1. [Blank EXCEPT !.key = file["wallets"].key] \in Records
      BY <1>1 DEF Records, Blank
    <2> QED
      BY <2>1
  <1>3. record.key \in Keys
    BY <1>1, <1>2 DEF Blank
  <1>4. PICK last \in {1, Holders} :
          run' = [run EXCEPT ![p] = [script |-> "apass", at |-> "provision",
                                     saved |-> record, holder |-> 1, last |-> last]]
    BY <1>2 DEF ReadHolders
  <1>5. PICK new \in RunType : new = [script |-> "apass", at |-> "provision",
                                    saved |-> record, holder |-> 1, last |-> last]
    <2>1. last \in 0..Holders /\ 1 \in 0..Holders
      BY <1>4
    <2>2. "apass" \in Scripts /\ "provision" \in Points
      BY DEF Scripts, Points
    <2>3. [script |-> "apass", at |-> "provision", saved |-> record,
           holder |-> 1, last |-> last] \in RunType
      BY <2>1, <2>2 DEF RunType
    <2> QED
      BY <2>3
  <1>6. run'[p] = new /\ \A q \in Runs : q # p => run'[q] = run[q]
    BY <1>4, <1>5 DEF OnboardingInv, TypeOK
  <1>7. TypeOK'
    BY <1>4, <1>5 DEF OnboardingInv, TypeOK, RunType, ReadHolders
  <1>8. HandTrue(run[p])'
    BY <1>3, <1>5, <1>6 DEF HandTrue
  <1> QED
    BY <1>6, <1>7, <1>8, QuietStep DEF ReadHolders

LEMMA StopSafe ==
    ASSUME OnboardingInv, NEW p \in Runs, run' = [run EXCEPT ![p] = Idle],
           pass' \in [Keys -> SUBSET (1..Holders)],
           UNCHANGED <<file, drawn, contract, request>>
    PROVE  OnboardingInv'
  <1>1. TypeOK'
    BY BlankType DEF OnboardingInv, TypeOK, RunType
  <1>2. HandTrue(run[p])'
    BY DEF OnboardingInv, TypeOK, HandTrue, Idle
  <1>3. \A q \in Runs : q # p => run'[q] = run[q]
    BY DEF OnboardingInv, TypeOK
  <1> QED
    BY <1>1, <1>2, <1>3, QuietStep

LEMMA ProvisionPassSafe ==
    ASSUME OnboardingInv, NEW p \in Runs, ProvisionPass(p) PROVE OnboardingInv'
  <1>1. PICK old \in RunType : old = run[p]
    BY DEF OnboardingInv, TypeOK, RunType
  <1>2. /\ old.at = "provision" /\ old.script = "apass"
        /\ old.saved.key \in Keys /\ old.holder \in 1..old.last /\ old.last \in 0..Holders
    BY <1>1 DEF ProvisionPass, At, OnboardingInv, HandTrue, RunType
  <1>3. pass' \in [Keys -> SUBSET (1..Holders)]
    BY <1>1, <1>2 DEF ProvisionPass, OnboardingInv, TypeOK
  <1>4. CASE run' = [run EXCEPT ![p] = Idle]
    BY <1>3, <1>4, StopSafe DEF ProvisionPass
  <1>5. CASE old.holder < old.last /\ run' = [run EXCEPT ![p].holder = @ + 1]
    <2>1. PICK new \in RunType : new = [old EXCEPT !.holder = @ + 1]
      <3>1. [old EXCEPT !.holder = @ + 1] \in RunType
        BY <1>2, <1>5 DEF RunType
      <3> QED
        BY <3>1
    <2>2. /\ new.at = "provision" /\ new.script = "apass"
          /\ new.saved.key \in Keys /\ new.holder \in 1..new.last
      BY <1>2, <1>5, <2>1 DEF RunType
    <2>3. run'[p] = new /\ \A q \in Runs : q # p => run'[q] = run[q]
      BY <1>1, <1>5, <2>1 DEF OnboardingInv, TypeOK
    <2>4. run' = [run EXCEPT ![p] = new]
      BY <1>1, <1>5, <2>1 DEF OnboardingInv, TypeOK
    <2>5. TypeOK'
      BY <1>3, <2>1, <2>4 DEF OnboardingInv, TypeOK, RunType, ProvisionPass
    <2>6. HandTrue(run[p])'
      BY <2>2, <2>3 DEF HandTrue
    <2> QED
      BY <2>3, <2>5, <2>6, QuietStep DEF ProvisionPass
  <1> QED
    BY <1>1, <1>4, <1>5 DEF ProvisionPass

LEMMA RefusePassSafe ==
    ASSUME OnboardingInv, NEW p \in Runs, RefusePass(p) PROVE OnboardingInv'
  BY StopSafe DEF RefusePass, OnboardingInv, TypeOK

LEMMA RefuseSafe ==
    ASSUME OnboardingInv, NEW p \in Runs, Refuse(p) PROVE OnboardingInv'
  <1>1. PICK old \in RunType : old = run[p]
    BY DEF OnboardingInv, TypeOK, RunType
  <1>2. HandTrue(old) /\ old.at = "post" /\ old.saved \in Records
    BY <1>1 DEF OnboardingInv, Refuse, At, RunType
  <1>3. GotoWith(p, "reply", old.saved)
    BY <1>1 DEF Refuse, Goto, GotoWith, OnboardingInv, TypeOK, RunType
  <1>4. HandTrue([run[p] EXCEPT !.at = "reply", !.saved = old.saved])
    BY <1>1, <1>2 DEF HandTrue, RunType
  <1>5. "reply" \in Points
    BY DEF Points
  <1> QED
    BY <1>2, <1>3, <1>4, <1>5, GotoSafe DEF Refuse

LEMMA ReplySafe ==
    ASSUME OnboardingInv, NEW p \in Runs, Reply(p) PROVE OnboardingInv'
  <1>1. PICK old \in RunType : old = run[p]
    BY DEF OnboardingInv, TypeOK, RunType
  <1>2. HandTrue(old) /\ old.at = "reply" /\ old.saved \in Records
    BY <1>1 DEF OnboardingInv, Reply, RunType
  <1>3. PICK record \in Records :
          /\ GotoWith(p, "open", record)
          /\ record \in {old.saved, [old.saved EXCEPT !.request = None]}
    <2>1. CASE Goto(p, "open")
      <3>1. GotoWith(p, "open", old.saved)
        BY <1>1, <2>1 DEF Goto, GotoWith, OnboardingInv, TypeOK, RunType
      <3> QED
        BY <1>2, <3>1
    <2>2. CASE GotoWith(p, "open", [run[p].saved EXCEPT !.request = None])
      <3>1. [old.saved EXCEPT !.request = None] \in Records
        BY <1>2 DEF Records
      <3> QED
        BY <1>1, <2>2, <3>1
    <2> QED
      BY <2>1, <2>2 DEF Reply
  <1>4. VerdictTrue(record) /\ RecordTrue(Target(old.script), record)
    BY <1>2, <1>3 DEF HandTrue, VerdictTrue, RecordTrue, Made, Records
  <1>5. HandTrue([run[p] EXCEPT !.at = "open", !.saved = record])
    BY <1>1, <1>4 DEF HandTrue, RunType
  <1>6. "open" \in Points
    BY DEF Points
  <1> QED
    BY <1>3, <1>5, <1>6, GotoSafe DEF Reply

LEMMA AskSafe ==
    ASSUME OnboardingInv, NEW p \in Runs, Ask(p) PROVE OnboardingInv'
  <1>1. PICK old \in RunType : old = run[p]
    BY DEF OnboardingInv, TypeOK, RunType
  <1>2. /\ HandTrue(old) /\ old.at = "ask" /\ old.saved \in Records
        /\ old.saved.request \in Requests
    BY <1>1 DEF OnboardingInv, Ask, RunType, HandTrue, Records
  <1>3. PICK answer \in {request[old.saved.request].state, "unknown"} :
          GotoWith(p, "open", [old.saved EXCEPT !.status = answer])
    BY <1>1 DEF Ask
  <1>4. request[old.saved.request].state \in Fates
    <2>1. Made(old.saved, "launch") \/ Made(old.saved, "register")
      BY <1>2, TargetOf DEF HandTrue, RecordTrue
    <2>2. request[old.saved.request].kind # "unused"
      BY <1>2, <2>1 DEF Made, HandTrue
    <2> QED
      BY <1>2, <2>2 DEF OnboardingInv, FreshInv, TypeOK
  <1>5. PICK record \in Records : record = [old.saved EXCEPT !.status = answer]
    <2>1. [old.saved EXCEPT !.status = answer] \in Records
      BY <1>2, <1>3, <1>4 DEF Records
    <2> QED
      BY <2>1
  <1>6. /\ record.request = old.saved.request /\ record.status = answer
        /\ record.contract = old.saved.contract /\ record.key = old.saved.key
    BY <1>2, <1>5 DEF Records
  <1>7. VerdictTrue(record) /\ RecordTrue(Target(old.script), record)
    <2>1. VerdictTrue(record)
      BY <1>2, <1>3, <1>6 DEF VerdictTrue, HandTrue
    <2>2. RecordTrue(Target(old.script), old.saved)
      BY <1>2 DEF HandTrue
    <2>3. RecordTrue(Target(old.script), record)
      BY <1>6, <2>2 DEF RecordTrue, Made
    <2> QED
      BY <2>1, <2>3
  <1>8. HandTrue([run[p] EXCEPT !.at = "open", !.saved = record])
    BY <1>1, <1>7 DEF HandTrue, RunType
  <1>9. "open" \in Points
    BY DEF Points
  <1> QED
    BY <1>3, <1>5, <1>8, <1>9, GotoSafe DEF Ask

LEMMA DeployedSafe ==
    ASSUME OnboardingInv, NEW p \in Runs, Deployed(p) PROVE OnboardingInv'
  <1>1. PICK old \in RunType : old = run[p]
    BY DEF OnboardingInv, TypeOK, RunType
  <1>2. /\ HandTrue(old) /\ old.at = "wait" /\ old.saved \in Records
        /\ contract[old.saved.contract].state = "mined"
    BY <1>1 DEF OnboardingInv, Deployed, RunType
  <1>3. GotoWith(p, "open", old.saved)
    BY <1>1 DEF Deployed, Goto, GotoWith, OnboardingInv, TypeOK, RunType
  <1>4. VerdictTrue(old.saved)
    BY <1>2 DEF HandTrue, VerdictTrue
  <1>5. RecordTrue(Target(old.script), old.saved)
    <2>1. contract[old.saved.contract] =
            [kind |-> IF old.script = "deploy cva" THEN "token" ELSE "vault",
             admin |-> old.saved.key, state |-> "mined"]
      BY <1>2 DEF HandTrue, OnboardingInv, TypeOK
    <2>2. CASE old.script = "deploy cva"
      BY <1>2, <2>1, <2>2, TargetOf DEF HandTrue, RecordTrue, Stands
    <2>3. CASE old.script = "deploy vault"
      BY <1>2, <2>1, <2>3, TargetOf DEF HandTrue, RecordTrue, Stands
    <2> QED
      BY <1>2, <2>2, <2>3 DEF HandTrue
  <1>6. HandTrue([run[p] EXCEPT !.at = "open", !.saved = old.saved])
    BY <1>1, <1>4, <1>5 DEF HandTrue, RunType
  <1>7. "open" \in Points
    BY DEF Points
  <1> QED
    BY <1>2, <1>3, <1>6, <1>7, GotoSafe DEF Deployed

LEMMA AcceptSafe ==
    ASSUME OnboardingInv, NEW p \in Runs, Accept(p) PROVE OnboardingInv'
  <1>1. PICK old \in RunType : old = run[p]
    BY DEF OnboardingInv, TypeOK, RunType
  <1>2. /\ HandTrue(old) /\ old.at = "post" /\ old.saved \in Records
        /\ old.script \in {"launch", "register"}
    BY <1>1 DEF OnboardingInv, Accept, At, RunType
  <1>3. PICK r \in Requests :
          /\ request[r].state = "unused"
          /\ request' = [request EXCEPT ![r] =
                           [kind |-> old.script, contract |-> old.saved.contract,
                            by |-> old.saved.key, state |-> "open"]]
          /\ GotoWith(p, "reply", [old.saved EXCEPT !.request = r])
    BY <1>1 DEF Accept
  <1>4. PICK record \in Records : record = [old.saved EXCEPT !.request = r]
    <2>1. [old.saved EXCEPT !.request = r] \in Records
      BY <1>2 DEF Records
    <2> QED
      BY <2>1
  <1>5. /\ record.request = r /\ record.status = "unknown"
        /\ record.contract = old.saved.contract /\ record.key = old.saved.key
    BY <1>2, <1>4 DEF Records, HandTrue
  <1>6. PICK new \in RunType : new = [old EXCEPT !.at = "reply", !.saved = record]
    <2>1. [old EXCEPT !.at = "reply", !.saved = record] \in RunType
      BY DEF RunType, Points
    <2> QED
      BY <2>1
  <1>7. run' = [run EXCEPT ![p] = new]
    BY <1>1, <1>3, <1>4, <1>6 DEF GotoWith, OnboardingInv, TypeOK
  <1>8. TypeOK'
    <2>1. [kind |-> old.script, contract |-> old.saved.contract,
           by |-> old.saved.key, state |-> "open"]
            \in [kind : {"unused", "launch", "register"}, contract : Contracts \cup {None},
                by : Keys \cup {None}, state : Fates \cup {"unused"}]
      BY <1>2 DEF Records, Fates
    <2> QED
      BY <1>3, <1>7, <2>1 DEF OnboardingInv, TypeOK, RunType, Accept
  <1>9. Kept /\ FreshInv'
    BY <1>2, <1>3 DEF Kept, FreshInv, OnboardingInv, TypeOK, Accept
  <1>10. old.script = "register" => Stands(old.saved.contract, "token", old.saved.key)'
    <2>1. old.script = "register" => Stands(old.saved.contract, "token", old.saved.key)
      BY <1>2, TargetOf DEF HandTrue, RecordTrue
    <2> QED
      BY <1>8, <1>9, <2>1, KeptStands DEF OnboardingInv
  <1>11. RegisteredByOwner'
    <2> SUFFICES ASSUME NEW q \in Requests, request'[q].kind = "register"
                 PROVE  Stands(request[q].contract, "token", request[q].by)'
      BY DEF RegisteredByOwner
    <2>1. CASE q = r
      <3>1. /\ request'[q].contract = old.saved.contract /\ request'[q].by = old.saved.key
            /\ old.script = "register"
        BY <1>3, <2>1 DEF OnboardingInv, TypeOK
      <3> QED
        BY <1>10, <3>1
    <2>2. CASE q # r
      <3>1. request'[q] = request[q]
        BY <1>3, <2>2 DEF OnboardingInv, TypeOK
      <3>2. /\ Stands(request[q].contract, "token", request[q].by)'
            /\ request'[q].contract = request[q].contract /\ request'[q].by = request[q].by
        BY <1>8, <1>9, <3>1, KeptRegistrations
      <3> QED
        BY <3>2
    <2> QED
      BY <2>1, <2>2
  <1>12. HandTrue(new)'
    <2>1. Made(record, old.script)'
      BY <1>3, <1>5 DEF Made, OnboardingInv, TypeOK
    <2>2. RecordTrue(Target(old.script), record)' /\ VerdictTrue(record)'
      BY <1>2, <1>5, <1>10, <2>1, TargetOf DEF RecordTrue, VerdictTrue
    <2>3. new.at = "reply" /\ new.script = old.script /\ new.saved = record
      BY <1>6 DEF RunType
    <2> QED
      BY <1>2, <1>5, <2>2, <2>3 DEF HandTrue
  <1>13. HandTrue(run[p])' /\ \A q \in Runs : q # p => run'[q] = run[q]
    BY <1>7, <1>12 DEF OnboardingInv, TypeOK
  <1>14. (\A q \in Runs : HandTrue(run[q])') /\ (\A f \in Files : FileTrue(f)')
    BY <1>8, <1>9, <1>13, ScriptStep DEF Accept
  <1> QED
    BY <1>8, <1>9, <1>11, <1>14 DEF OnboardingInv

LEMMA DeploySafe ==
    ASSUME OnboardingInv, NEW p \in Runs, Deploy(p) PROVE OnboardingInv'
  <1>1. PICK old \in RunType : old = run[p]
    BY DEF OnboardingInv, TypeOK, RunType
  <1>2. /\ HandTrue(old) /\ old.at = "deploy" /\ old.saved \in Records
        /\ old.script \in {"deploy cva", "deploy vault"} /\ old.saved.status = "unknown"
    BY <1>1 DEF OnboardingInv, Deploy, RunType, HandTrue
  <1>3. PICK c \in Contracts :
          /\ contract[c].state = "unused"
          /\ contract' = [contract EXCEPT ![c] =
                [kind |-> IF old.script = "deploy cva" THEN "token" ELSE "vault",
                 admin |-> old.saved.key, state |-> "pending"]]
          /\ GotoWith(p, "wait", [old.saved EXCEPT !.contract = c])
    BY <1>1 DEF Deploy
  <1>4. PICK record \in Records : record = [old.saved EXCEPT !.contract = c]
    <2>1. [old.saved EXCEPT !.contract = c] \in Records
      BY <1>2 DEF Records
    <2> QED
      BY <2>1
  <1>5. record.contract = c /\ record.status = "unknown" /\ record.key = old.saved.key
    BY <1>2, <1>4 DEF Records
  <1>6. PICK new \in RunType : new = [old EXCEPT !.at = "wait", !.saved = record]
    <2>1. [old EXCEPT !.at = "wait", !.saved = record] \in RunType
      BY DEF RunType, Points
    <2> QED
      BY <2>1
  <1>7. run' = [run EXCEPT ![p] = new]
    BY <1>1, <1>3, <1>4, <1>6 DEF GotoWith, OnboardingInv, TypeOK
  <1>8. TypeOK'
    <2>1. [kind |-> IF old.script = "deploy cva" THEN "token" ELSE "vault",
           admin |-> old.saved.key, state |-> "pending"]
            \in [kind : {"unused", "token", "vault"}, admin : Keys \cup {None},
                state : {"unused", "pending", "mined", "reverted"}]
      BY <1>2 DEF Records
    <2> QED
      BY <1>3, <1>7, <2>1 DEF OnboardingInv, TypeOK, RunType, Deploy
  <1>9. Kept
    BY <1>3 DEF Kept, OnboardingInv, TypeOK, Deploy
  <1>10. FreshInv' /\ RegisteredByOwner'
    BY <1>8, <1>9, SameRegistrations DEF Deploy
  <1>11. HandTrue(new)'
    <2>1. new.at = "wait" /\ new.script = old.script /\ new.saved = record
      BY <1>6 DEF RunType
    <2> QED
      BY <1>2, <1>3, <1>5, <2>1 DEF HandTrue, OnboardingInv, TypeOK
  <1>12. HandTrue(run[p])' /\ \A q \in Runs : q # p => run'[q] = run[q]
    BY <1>7, <1>11 DEF OnboardingInv, TypeOK
  <1>13. (\A q \in Runs : HandTrue(run[q])') /\ (\A f \in Files : FileTrue(f)')
    BY <1>8, <1>9, <1>12, ScriptStep DEF Deploy
  <1> QED
    BY <1>8, <1>10, <1>13 DEF OnboardingInv

LEMMA HandsKept ==
    ASSUME OnboardingInv, TypeOK', Kept
    PROVE  /\ \A q \in Runs : run'[q] = run[q] => HandTrue(run[q])'
           /\ \A f \in Files : file'[f] = file[f] => FileTrue(f)'
  <1>1. ASSUME NEW q \in Runs, run'[q] = run[q] PROVE HandTrue(run[q])'
    <2>1. run[q] \in RunType /\ HandTrue(run[q])
      BY DEF OnboardingInv, TypeOK, RunType
    <2> QED
      BY <1>1, <2>1, KeptHand DEF OnboardingInv
  <1>2. ASSUME NEW f \in Files, file'[f] = file[f] PROVE FileTrue(f)'
    <2>1. file[f] \in Records
      BY DEF OnboardingInv, TypeOK
    <2>2. /\ RecordTrue(f, file[f]) => RecordTrue(f, file[f])'
          /\ VerdictTrue(file[f]) => VerdictTrue(file[f])'
      BY <1>2, <2>1, KeptRecord DEF OnboardingInv
    <2> QED
      BY <1>2, <2>2 DEF OnboardingInv, FileTrue, Readable
  <1> QED
    BY <1>1, <1>2

LEMMA DecideSafe ==
    ASSUME OnboardingInv, NEW r \in Requests, Decide(r) PROVE OnboardingInv'
  <1>1. TypeOK'
    BY DEF OnboardingInv, TypeOK, Decide, Fates
  <1>2. Kept /\ FreshInv'
    BY DEF Kept, FreshInv, OnboardingInv, TypeOK, Decide, Fates
  <1>3. RegisteredByOwner'
    <2> SUFFICES ASSUME NEW q \in Requests, request'[q].kind = "register"
                 PROVE  Stands(request[q].contract, "token", request[q].by)'
      BY DEF RegisteredByOwner
    <2>1. request[q].state # "unused" \/ request'[q] = request[q]
      BY DEF Decide, OnboardingInv, TypeOK
    <2> QED
      BY <1>1, <1>2, <2>1, KeptRegistrations
  <1>4. (\A q \in Runs : HandTrue(run[q])') /\ (\A f \in Files : FileTrue(f)')
    BY <1>1, <1>2, HandsKept DEF Decide
  <1> QED
    BY <1>1, <1>2, <1>3, <1>4 DEF OnboardingInv

LEMMA MineSafe ==
    ASSUME OnboardingInv, NEW c \in Contracts, Mine(c) PROVE OnboardingInv'
  <1>1. TypeOK'
    BY DEF OnboardingInv, TypeOK, Mine
  <1>2. Kept
    BY DEF Kept, OnboardingInv, TypeOK, Mine
  <1>3. FreshInv' /\ RegisteredByOwner'
    BY <1>1, <1>2, SameRegistrations DEF Mine
  <1>4. (\A q \in Runs : HandTrue(run[q])') /\ (\A f \in Files : FileTrue(f)')
    BY <1>1, <1>2, HandsKept DEF Mine
  <1> QED
    BY <1>1, <1>3, <1>4 DEF OnboardingInv

LEMMA BlankTrue ==
    ASSUME NEW f \in Files, file'[f] = Blank PROVE FileTrue(f)'
  BY DEF FileTrue, Readable, VerdictTrue, Blank

LEMMA OpenSafe ==
    ASSUME OnboardingInv, NEW p \in Runs, Open(p) PROVE OnboardingInv'
  <1>1. PICK old \in RunType : old = run[p]
    BY DEF OnboardingInv, TypeOK, RunType
  <1>2. HandTrue(old) /\ old.at = "open"
    BY <1>1 DEF OnboardingInv, Open
  <1>3. PICK new \in RunType : new = [old EXCEPT !.at = "write"]
    <2>1. [old EXCEPT !.at = "write"] \in RunType
      BY DEF RunType, Points
    <2> QED
      BY <2>1
  <1>4. run' = [run EXCEPT ![p] = new]
    BY <1>1, <1>3 DEF Open, Goto, OnboardingInv, TypeOK
  <1>5. TypeOK'
    BY <1>4, BlankType DEF OnboardingInv, TypeOK, RunType, Open
  <1>6. Kept
    BY SameChain DEF Open
  <1>7. HandTrue(new)
    BY <1>2, <1>3 DEF HandTrue, RunType
  <1>8. HandTrue(new)'
    BY <1>5, <1>6, <1>7, KeptHand DEF OnboardingInv
  <1>9. ASSUME NEW q \in Runs PROVE HandTrue(run[q])'
    <2>1. CASE q = p
      <3>1. run'[q] = new
        BY <1>4, <2>1 DEF OnboardingInv, TypeOK
      <3> QED
        BY <1>8, <3>1
    <2>2. CASE q # p
      <3>1. run'[q] = run[q]
        BY <1>4, <2>2 DEF OnboardingInv, TypeOK
      <3> QED
        BY <1>5, <1>6, <3>1, HandsKept
    <2> QED
      BY <2>1, <2>2
  <1>10. ASSUME NEW f \in Files PROVE FileTrue(f)'
    <2>1. file'[f] = file[f] \/ file'[f] = Blank
      BY DEF Open, OnboardingInv, TypeOK
    <2> QED
      BY <1>5, <1>6, <2>1, HandsKept, BlankTrue
  <1>11. FreshInv' /\ RegisteredByOwner'
    BY <1>5, <1>6, SameRegistrations DEF Open
  <1> QED
    BY <1>5, <1>9, <1>10, <1>11 DEF OnboardingInv

LEMMA WriteSafe ==
    ASSUME OnboardingInv, NEW p \in Runs, Write(p) PROVE OnboardingInv'
  <1>1. PICK old \in RunType : old = run[p]
    BY DEF OnboardingInv, TypeOK, RunType
  <1>2. HandTrue(old) /\ old.at = "write" /\ old.saved \in Records
    BY <1>1 DEF OnboardingInv, Write, RunType
  <1>3. /\ file' \in [Files -> Records]
        /\ \A f \in Files : \/ file'[f] = file[f]
                          \/ file'[f] = Blank
                          \/ (f = Target(old.script) /\ file'[f] = old.saved)
    <2>1. PICK f0 \in Files : f0 = Target(old.script)
      BY TargetType
    <2>2. PICK text \in Records : file' = [file EXCEPT ![f0] = text]
                               /\ text \in {old.saved, Blank}
      BY <1>1, <1>2, <2>1, BlankType DEF Write
    <2>3. file \in [Files -> Records]
      BY DEF OnboardingInv, TypeOK
    <2> QED
      BY <2>1, <2>2, <2>3
  <1>4. TypeOK'
    BY <1>3, BlankType DEF OnboardingInv, TypeOK, RunType, Write
  <1>5. Kept
    BY SameChain DEF Write
  <1>6. HandTrue(Idle)'
    BY DEF HandTrue, Idle
  <1>7. ASSUME NEW q \in Runs PROVE HandTrue(run[q])'
    <2>1. run'[q] = Idle \/ run'[q] = run[q]
      BY DEF Write, OnboardingInv, TypeOK
    <2> QED
      BY <1>4, <1>5, <1>6, <2>1, HandsKept
  <1>8. RecordTrue(Target(old.script), old.saved)' /\ VerdictTrue(old.saved)'
    BY <1>2, <1>4, <1>5, TargetType, KeptRecord DEF OnboardingInv, HandTrue
  <1>9. ASSUME NEW f \in Files PROVE FileTrue(f)'
    <2>1. CASE file'[f] = file[f] \/ file'[f] = Blank
      BY <1>4, <1>5, <2>1, HandsKept, BlankTrue
    <2>2. CASE f = Target(old.script) /\ file'[f] = old.saved
      <3>1. RecordTrue(f, file[f])' /\ VerdictTrue(file[f])'
        BY <1>8, <2>2
      <3> QED
        BY <3>1 DEF FileTrue
    <2> QED
      BY <1>3, <2>1, <2>2
  <1>10. FreshInv' /\ RegisteredByOwner'
    BY <1>4, <1>5, SameRegistrations DEF Write
  <1> QED
    BY <1>4, <1>7, <1>9, <1>10 DEF OnboardingInv

---------------------------------------------------------------------------
(* The invariant, and the theorems.                                        *)

LEMMA NextSafe == OnboardingInv /\ [Next]_vars => OnboardingInv'
  <1> SUFFICES ASSUME OnboardingInv, [Next]_vars PROVE OnboardingInv'
    OBVIOUS
  <1>1. CASE UNCHANGED vars
    <2>1. TypeOK'
      BY <1>1 DEF vars, OnboardingInv, TypeOK
    <2>2. Kept
      BY <1>1, SameChain DEF vars
    <2>3. FreshInv' /\ RegisteredByOwner'
      BY <1>1, <2>1, <2>2, SameRegistrations DEF vars
    <2>4. (\A q \in Runs : HandTrue(run[q])') /\ (\A f \in Files : FileTrue(f)')
      BY <1>1, <2>1, <2>2, HandsKept DEF vars
    <2> QED
      BY <2>1, <2>3, <2>4 DEF OnboardingInv
  <1>2. ASSUME NEW r \in Requests, Decide(r) PROVE OnboardingInv'
    BY <1>2, DecideSafe
  <1>3. ASSUME NEW c \in Contracts, Mine(c) PROVE OnboardingInv'
    BY <1>3, MineSafe
  <1>4. ASSUME NEW p \in Runs,
               \/ Bootstrap(p) \/ ReadHolders(p) \/ Launch(p) \/ DeployCva(p)
               \/ Register(p) \/ DeployVault(p) \/ LaunchStatus(p) \/ RegisterStatus(p)
               \/ ReadDeployment(p) \/ ProvisionPass(p) \/ RefusePass(p)
               \/ Accept(p) \/ Refuse(p) \/ Reply(p) \/ Ask(p)
               \/ Deploy(p) \/ Deployed(p) \/ Open(p) \/ Write(p) \/ Die(p)
        PROVE  OnboardingInv'
    <2>1. CASE Launch(p) \/ DeployCva(p) \/ Register(p) \/ DeployVault(p)
      <3>1. ReadWallets(p, "launch", "post") => OnboardingInv'
        BY ReadWalletsSafe
      <3>2. ReadWallets(p, "deploy cva", "deploy") => OnboardingInv'
        BY ReadWalletsSafe
      <3>3. ReadWallets(p, "register", "deployment") => OnboardingInv'
        BY ReadWalletsSafe
      <3>4. ReadWallets(p, "deploy vault", "deploy") => OnboardingInv'
        BY ReadWalletsSafe
      <3> QED
        BY <2>1, <3>1, <3>2, <3>3, <3>4 DEF Launch, DeployCva, Register, DeployVault
    <2>2. CASE LaunchStatus(p) \/ RegisterStatus(p)
      BY <2>2, ReadRequestSafe DEF LaunchStatus, RegisterStatus
    <2>3. CASE Bootstrap(p) \/ ReadHolders(p) \/ ReadDeployment(p)
      BY <2>3, BootstrapSafe, ReadHoldersSafe, ReadDeploymentSafe
    <2>4. CASE ProvisionPass(p) \/ RefusePass(p)
      BY <2>4, ProvisionPassSafe, RefusePassSafe
    <2>5. CASE Accept(p) \/ Refuse(p) \/ Reply(p) \/ Ask(p)
      BY <2>5, AcceptSafe, RefuseSafe, ReplySafe, AskSafe
    <2>6. CASE Deploy(p) \/ Deployed(p)
      BY <2>6, DeploySafe, DeployedSafe
    <2>7. CASE Open(p) \/ Write(p) \/ Die(p)
      BY <2>7, OpenSafe, WriteSafe, DieSafe
    <2> QED
      BY <1>4, <2>1, <2>2, <2>3, <2>4, <2>5, <2>6, <2>7
  <1> QED
    BY <1>1, <1>2, <1>3, <1>4 DEF Next

LEMMA OnboardingInvariant == Spec => []OnboardingInv
  <1>1. Init => OnboardingInv
    BY InitOnboarding
  <1>2. OnboardingInv /\ [Next]_vars => OnboardingInv'
    BY NextSafe
  <1> QED
    BY <1>1, <1>2, PTL DEF Spec

\* A script at some holder has seen the holders before it provisioned.
PassInv ==
    /\ PassesInOrder
    /\ \A p \in Runs : run[p].at = "provision" =>
         1..(run[p].holder - 1) \subseteq pass[run[p].saved.key]

LEMMA PassElsewhere ==
    ASSUME PassInv, UNCHANGED pass,
           \A p \in Runs : run'[p] = run[p] \/ run'[p].at # "provision"
    PROVE  PassInv'
  BY DEF PassInv, PassesInOrder

LEMMA BeginElsewhere ==
    ASSUME OnboardingInv, PassInv, UNCHANGED pass, NEW p \in Runs, NEW script, NEW point, NEW record,
           point # "provision", Begin(p, script, point, record)
    PROVE  PassInv'
  <1>1. \A q \in Runs : run'[q] = run[q] \/ run'[q].at # "provision"
    BY DEF Begin, Idle, OnboardingInv, TypeOK
  <1> QED
    BY <1>1, PassElsewhere

LEMMA PassProvision ==
    ASSUME OnboardingInv, PassInv, NEW p \in Runs, ProvisionPass(p) PROVE PassInv'
  <1>1. PICK k \in Keys : k = run[p].saved.key
    BY DEF ProvisionPass, At, OnboardingInv, HandTrue
  <1>2. PICK n \in 1..Holders : n = run[p].holder
    <2>1. run[p].holder \in 1..run[p].last
      BY DEF ProvisionPass, At, OnboardingInv, HandTrue
    <2>2. run[p].last \in 0..Holders
      BY DEF OnboardingInv, TypeOK
    <2> QED
      BY <2>1, <2>2
  <1>3. 1..(n - 1) \subseteq pass[k] /\ pass \in [Keys -> SUBSET (1..Holders)]
    BY <1>1, <1>2 DEF PassInv, ProvisionPass, At, OnboardingInv, TypeOK
  <1>4. pass' = [pass EXCEPT ![k] = @ \cup {n}]
    BY <1>1, <1>2 DEF ProvisionPass
  <1>5. 1..n \subseteq pass'[k] /\ \A j \in Keys : pass[j] \subseteq pass'[j]
    BY <1>3, <1>4
  <1>6. PassesInOrder'
    <2> SUFFICES ASSUME NEW j \in Keys, NEW h \in pass'[j] PROVE 1..h \subseteq pass'[j]
      BY DEF PassesInOrder
    <2>1. CASE h \in pass[j]
      BY <1>5, <2>1 DEF PassInv, PassesInOrder
    <2>2. CASE h \notin pass[j]
      <3>1. j = k /\ h = n
        BY <1>3, <1>4, <2>2
      <3> QED
        BY <1>5, <3>1
    <2> QED
      BY <2>1, <2>2
  <1>7. ASSUME NEW q \in Runs, run'[q].at = "provision"
        PROVE  1..(run'[q].holder - 1) \subseteq pass'[run'[q].saved.key]
    <2>1. CASE run'[q] = run[q]
      <3>1. run[q].saved.key \in Keys /\ 1..(run[q].holder - 1) \subseteq pass[run[q].saved.key]
        BY <1>7, <2>1 DEF PassInv, OnboardingInv, HandTrue
      <3> QED
        BY <1>5, <2>1, <3>1
    <2>2. CASE run'[q] # run[q]
      <3>1. q = p /\ run' = [run EXCEPT ![p].holder = @ + 1]
        BY <1>7, <2>2 DEF ProvisionPass, OnboardingInv, TypeOK, Idle
      <3>2. run'[q].holder = n + 1 /\ run'[q].saved.key = k
        BY <1>1, <1>2, <3>1 DEF OnboardingInv, TypeOK
      <3> QED
        BY <1>2, <1>5, <3>2
    <2> QED
      BY <2>1, <2>2
  <1> QED
    BY <1>6, <1>7 DEF PassInv

LEMMA PassReadHolders ==
    ASSUME OnboardingInv, PassInv, NEW p \in Runs, ReadHolders(p) PROVE PassInv'
  <1>1. PassesInOrder'
    BY DEF PassInv, PassesInOrder, ReadHolders
  <1>2. ASSUME NEW q \in Runs, run'[q].at = "provision"
        PROVE  1..(run'[q].holder - 1) \subseteq pass'[run'[q].saved.key]
    <2>1. CASE run'[q] = run[q]
      BY <1>2, <2>1 DEF PassInv, ReadHolders
    <2>2. CASE run'[q] # run[q]
      <3>1. run'[q].holder = 1
        BY <2>2 DEF ReadHolders, OnboardingInv, TypeOK
      <3> QED
        BY <3>1
    <2> QED
      BY <2>1, <2>2
  <1> QED
    BY <1>1, <1>2 DEF PassInv

LEMMA PassNext == OnboardingInv /\ PassInv /\ [Next]_vars => PassInv'
  <1> SUFFICES ASSUME OnboardingInv, PassInv, [Next]_vars PROVE PassInv'
    OBVIOUS
  <1> DEFINE Elsewhere == /\ UNCHANGED pass
                          /\ \A p \in Runs : run'[p] = run[p] \/ run'[p].at # "provision"
  <1> USE DEF OnboardingInv, TypeOK
  <1>1. CASE UNCHANGED vars
    <2>1. Elsewhere
      BY <1>1 DEF vars
    <2> QED
      BY <2>1, PassElsewhere
  <1>2. CASE (\E r \in Requests : Decide(r)) \/ (\E c \in Contracts : Mine(c))
    <2>1. Elsewhere
      BY <1>2 DEF Decide, Mine
    <2> QED
      BY <2>1, PassElsewhere
  <1>3. ASSUME NEW p \in Runs, Bootstrap(p) \/ Launch(p) \/ DeployCva(p) \/ Register(p)
                             \/ DeployVault(p) \/ LaunchStatus(p) \/ RegisterStatus(p)
        PROVE  PassInv'
    <2>1. PICK script, point, record : point # "provision" /\ Begin(p, script, point, record)
      <3>1. CASE Bootstrap(p)
        BY <3>1 DEF Bootstrap
      <3>2. CASE Launch(p) \/ DeployCva(p) \/ Register(p) \/ DeployVault(p)
        BY <3>2 DEF Launch, DeployCva, Register, DeployVault, ReadWallets
      <3>3. CASE LaunchStatus(p) \/ RegisterStatus(p)
        BY <3>3 DEF LaunchStatus, RegisterStatus, ReadRequest
      <3> QED
        BY <1>3, <3>1, <3>2, <3>3
    <2>2. UNCHANGED pass
      BY <1>3 DEF Bootstrap, Launch, DeployCva, Register, DeployVault, LaunchStatus,
                  RegisterStatus, ReadWallets, ReadRequest
    <2> QED
      BY <2>1, <2>2, BeginElsewhere
  <1>4. ASSUME NEW p \in Runs, ReadDeployment(p) \/ Accept(p) \/ Refuse(p) \/ Reply(p)
                             \/ Ask(p) \/ Deploy(p) \/ Deployed(p) \/ Open(p)
        PROVE  PassInv'
    <2>1. UNCHANGED pass
      BY <1>4 DEF ReadDeployment, Accept, Refuse, Reply, Ask, Deploy, Deployed, Open
    <2>2. PICK point : /\ point # "provision"
                       /\ Goto(p, point) \/ \E record : GotoWith(p, point, record)
      BY <1>4 DEF ReadDeployment, Accept, Refuse, Reply, Ask, Deploy, Deployed, Open
    <2>3. Elsewhere
      BY <2>1, <2>2 DEF Goto, GotoWith
    <2> QED
      BY <2>3, PassElsewhere
  <1>5. ASSUME NEW p \in Runs, RefusePass(p) \/ Write(p) \/ Die(p) PROVE PassInv'
    <2>1. Elsewhere
      BY <1>5 DEF RefusePass, Write, Die, Idle
    <2> QED
      BY <2>1, PassElsewhere
  <1> QED
    BY <1>1, <1>2, <1>3, <1>4, <1>5, PassProvision, PassReadHolders DEF Next

\* Whatever scripts run at once and wherever they die, each file and each
\* script's memory stays within the values the next script can read.
THEOREM OnboardingTypeCorrect == Spec => []TypeOK
  <1>1. OnboardingInv => TypeOK
    BY DEF OnboardingInv
  <1> QED
    BY <1>1, OnboardingInvariant, PTL

\* A whole file under .local/ tells of contracts that stand and of requests
\* that were made for them, however its writers and readers interleave.
THEOREM FilesTellTheTruth == Spec => []RecordsAreTrue
  <1>1. OnboardingInv => RecordsAreTrue
    BY DEF OnboardingInv, RecordsAreTrue, FileTrue
  <1> QED
    BY <1>1, OnboardingInvariant, PTL

\* A status query never pairs the verdict on one request with another one
\* (query-atoken-status.mjs:41, query-custom-cva-register-status.mjs:41).
THEOREM VerdictOnItsRequest == Spec => []StatusOfRequest
  <1>1. OnboardingInv => StatusOfRequest
    BY DEF OnboardingInv, StatusOfRequest, FileTrue, Files
  <1> QED
    BY <1>1, OnboardingInvariant, PTL

\* Only the admin of a mined token has ever had it registered
\* (register-custom-cva.mjs:26).
THEOREM OwnersRegister == Spec => []RegisteredByOwner
  <1>1. OnboardingInv => RegisteredByOwner
    BY DEF OnboardingInv
  <1> QED
    BY <1>1, OnboardingInvariant, PTL

\* No run of generate-apass goes past a holder whose pass it was refused, so
\* the holders of a wallet set with an A-Pass are the first ones of the set
\* (generate-apass.mjs:51-59).
THEOREM PassesAreAPrefix == Spec => []PassesInOrder
  <1>1. Init => PassInv
    BY DEF Init, PassInv, PassesInOrder, Idle
  <1>2. OnboardingInv /\ PassInv /\ [Next]_vars => PassInv'
    BY PassNext
  <1>3. PassInv => PassesInOrder
    BY DEF PassInv
  <1> QED
    BY <1>1, <1>2, <1>3, OnboardingInvariant, PTL DEF Spec
=============================================================================
