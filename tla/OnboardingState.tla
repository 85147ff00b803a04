---------------------------- MODULE OnboardingState ----------------------------
(***************************************************************************)
(* The scripts that bring an issuer on board (src/scripts): the wallets,   *)
(* the A-Passes of the holders, the launch of an A-Token, the deployment   *)
(* of the custom CVA, its registration with Cleanverse, the deployment of  *)
(* the vault, and the two queries of the status of a request.              *)
(*                                                                         *)
(* A script is a process of its own: it reads what earlier scripts left    *)
(* under .local/, calls Cleanverse or the chain, writes one file, ends.    *)
(* The files are all the scripts share.  Nothing locks them: several       *)
(* scripts may run at once, and each may die between any two of its steps, *)
(* which is also what a failed check, an RPC error or an uncaught          *)
(* exception does to it.  writeFile empties the file and then writes it,   *)
(* and a file caught in between does not parse: it is then as good as      *)
(* missing, for every script reads with JSON.parse(await readFile(..)).    *)
(*                                                                         *)
(* A set of wallets is the name of its keys; contracts and requests are    *)
(* names given out by the chain and by Cleanverse.                         *)
(***************************************************************************)
EXTENDS Naturals, FiniteSets

CONSTANTS
    Runs,       \* the processes that run a script at the same time
    Keys,       \* the wallet sets bootstrap-wallets may draw
    Contracts,  \* the addresses the chain may give out
    Requests,   \* the request ids Cleanverse may give out
    Holders,    \* how many holders a wallet set has (5 in the code)
    None        \* no key, no contract, no request

ASSUME NoneAssumption == None \notin Keys \cup Contracts \cup Requests
ASSUME HoldersAssumption == Holders \in Nat \ {0}

VARIABLES
    file,       \* what each file of .local/ holds
    run,        \* the script each process runs, and what it remembers
    drawn,      \* the wallet sets that exist
    contract,   \* the chain: kind, admin and fate of each address
    request,    \* Cleanverse: kind, subject, signer and fate of each request
    pass        \* Cleanverse: the holders of each wallet set with an A-Pass

vars == <<file, run, drawn, contract, request, pass>>

Files == {"wallets", "apply", "cva", "register", "vault"}
Scripts == {"none", "wallets", "apass", "launch", "launch status",
            "deploy cva", "register", "register status", "deploy vault"}
Points == {"idle", "provision", "deployment", "post", "reply", "ask",
           "deploy", "wait", "open", "write"}
Fates == {"open", "issued", "rejected"}

\* What a file says, or a script has in hand to write: whose key, which
\* contract, which request, and the answer to the last status query.
Records == [key : Keys \cup {None}, contract : Contracts \cup {None},
            request : Requests \cup {None}, status : Fates \cup {"unknown"}]

Blank == [key |-> None, contract |-> None, request |-> None, status |-> "unknown"]

\* A file that is missing, empty or torn; every whole file names a key.
Readable(f) == file[f].key # None

Idle == [script |-> "none", at |-> "idle", saved |-> Blank, holder |-> 0, last |-> 0]

\* The file a script writes.
Target(script) ==
    CASE script \in {"launch", "launch status"} -> "apply"
      [] script \in {"register", "register status"} -> "register"
      [] script = "deploy cva" -> "cva"
      [] script = "deploy vault" -> "vault"
      [] OTHER -> "wallets"

TypeOK ==
    /\ file \in [Files -> Records]
    /\ run \in [Runs -> [script : Scripts, at : Points, saved : Records,
                         holder : 0..Holders, last : 0..Holders]]
    /\ drawn \subseteq Keys
    /\ contract \in [Contracts -> [kind : {"unused", "token", "vault"},
                                   admin : Keys \cup {None},
                                   state : {"unused", "pending", "mined", "reverted"}]]
    /\ request \in [Requests -> [kind : {"unused", "launch", "register"},
                                 contract : Contracts \cup {None},
                                 by : Keys \cup {None},
                                 state : Fates \cup {"unused"}]]
    /\ pass \in [Keys -> SUBSET (1..Holders)]

Init ==
    /\ file = [f \in Files |-> Blank]
    /\ run = [p \in Runs |-> Idle]
    /\ drawn = {}
    /\ contract = [c \in Contracts |->
                     [kind |-> "unused", admin |-> None, state |-> "unused"]]
    /\ request = [r \in Requests |->
                    [kind |-> "unused", contract |-> None, by |-> None,
                     state |-> "unused"]]
    /\ pass = [k \in Keys |-> {}]

\* Process p is at this point of one of these scripts.
At(p, point, scripts) == run[p].at = point /\ run[p].script \in scripts

Goto(p, point) == run' = [run EXCEPT ![p].at = point]
GotoWith(p, point, record) == run' = [run EXCEPT ![p].at = point, ![p].saved = record]
Begin(p, script, point, record) ==
    /\ run[p] = Idle
    /\ run' = [run EXCEPT ![p] = [Idle EXCEPT !.script = script, !.at = point,
                                              !.saved = record]]

---------------------------------------------------------------------------
(* The beginnings of the scripts: what each reads before it acts.          *)

\* bootstrap-wallets draws new keys; it does not look whether there are some.
Bootstrap(p) ==
    /\ \E k \in Keys \ drawn :
         /\ drawn' = drawn \cup {k}
         /\ Begin(p, "wallets", "open", [Blank EXCEPT !.key = k])
    /\ UNCHANGED <<file, contract, request, pass>>

\* The scripts that sign read the wallets first: the launch, the deployments
\* and the registration, which goes on to read the deployed CVA.
ReadWallets(p, script, point) ==
    /\ Readable("wallets")
    /\ Begin(p, script, point, [Blank EXCEPT !.key = file["wallets"].key])
    /\ UNCHANGED <<file, drawn, contract, request, pass>>

\* generate-apass, for the first holder or with --all for each in turn.
ReadHolders(p) ==
    /\ Readable("wallets")
    /\ run[p] = Idle
    /\ \E last \in {1, Holders} :
         run' = [run EXCEPT ![p] =
                   [script |-> "apass", at |-> "provision",
                    saved |-> [Blank EXCEPT !.key = file["wallets"].key],
                    holder |-> 1, last |-> last]]
    /\ UNCHANGED <<file, drawn, contract, request, pass>>

\* Mutation: the owner of the deployed CVA is not compared with the wallets.
ReadDeploymentUnchecked(p) ==
    /\ At(p, "deployment", {"register"})
    /\ Readable("cva")
    /\ GotoWith(p, "post", [run[p].saved EXCEPT !.contract = file["cva"].contract])
    /\ UNCHANGED <<file, drawn, contract, request, pass>>

\* The registration reads the deployed CVA, in a second read, and goes on
\* only when the wallets it has read hold the key of its admin.
ReadDeployment(p) ==
    /\ At(p, "deployment", {"register"})
    /\ Readable("cva")
    /\ run[p].saved.key = file["cva"].key
    /\ GotoWith(p, "post", [run[p].saved EXCEPT !.contract = file["cva"].contract])
    /\ UNCHANGED <<file, drawn, contract, request, pass>>

\* A status query needs a file that holds a request; it keeps the whole file.
ReadRequest(p, script) ==
    /\ Readable(Target(script))
    /\ file[Target(script)].request # None
    /\ Begin(p, script, "ask", file[Target(script)])
    /\ UNCHANGED <<file, drawn, contract, request, pass>>

---------------------------------------------------------------------------
(* Cleanverse: A-Passes, requests, and their status.                       *)

\* Mutation: the loop over the holders runs once more than it should.
ProvisionPassOneMore(p) ==
    /\ At(p, "provision", {"apass"})
    /\ pass' = [pass EXCEPT ![run[p].saved.key] = @ \cup {run[p].holder}]
    /\ run' = [run EXCEPT ![p] = IF run[p].holder <= run[p].last
                                 THEN [run[p] EXCEPT !.holder = @ + 1]
                                 ELSE Idle]
    /\ UNCHANGED <<file, drawn, contract, request>>

\* Cleanverse provisions the holder's A-Pass.  On the code 0000 the script
\* takes the next holder; on any other answer, or none, it stops.
ProvisionPass(p) ==
    /\ At(p, "provision", {"apass"})
    /\ pass' = [pass EXCEPT ![run[p].saved.key] = @ \cup {run[p].holder}]
    /\ \/ /\ run[p].holder < run[p].last
          /\ run' = [run EXCEPT ![p].holder = @ + 1]
       \/ run' = [run EXCEPT ![p] = Idle]
    /\ UNCHANGED <<file, drawn, contract, request>>

\* Mutation: the holders after a refused one are provisioned all the same.
RefusePassGoesOn(p) ==
    /\ At(p, "provision", {"apass"})
    /\ run' = [run EXCEPT ![p] = IF run[p].holder < run[p].last
                                 THEN [run[p] EXCEPT !.holder = @ + 1]
                                 ELSE Idle]
    /\ UNCHANGED <<file, drawn, contract, request, pass>>

\* Cleanverse refuses the A-Pass, with a 403 or a business code: the script
\* stops there.
RefusePass(p) ==
    /\ At(p, "provision", {"apass"})
    /\ run' = [run EXCEPT ![p] = Idle]
    /\ UNCHANGED <<file, drawn, contract, request, pass>>

\* The application or the registration reaches Cleanverse, which accepts it
\* under a new request id or refuses it.
Accept(p) ==
    /\ At(p, "post", {"launch", "register"})
    /\ \E r \in Requests :
         /\ request[r].state = "unused"
         /\ request' = [request EXCEPT ![r] =
                          [kind |-> run[p].script, contract |-> run[p].saved.contract,
                           by |-> run[p].saved.key, state |-> "open"]]
         /\ GotoWith(p, "reply", [run[p].saved EXCEPT !.request = r])
    /\ UNCHANGED <<file, drawn, contract, pass>>

Refuse(p) ==
    /\ At(p, "post", {"launch", "register"})
    /\ Goto(p, "reply")
    /\ UNCHANGED <<file, drawn, contract, request, pass>>

\* Whatever the answer is, the script writes it down.  An answer that is not
\* JSON is kept as raw text, and holds no request id.
Reply(p) ==
    /\ run[p].at = "reply"
    /\ \/ Goto(p, "open")
       \/ GotoWith(p, "open", [run[p].saved EXCEPT !.request = None])
    /\ UNCHANGED <<file, drawn, contract, request, pass>>

\* Mutation: the answer is put onto what the file holds by now.
AskOntoFile(p) ==
    /\ run[p].at = "ask"
    /\ Readable(Target(run[p].script))
    /\ GotoWith(p, "open", [file[Target(run[p].script)] EXCEPT
                              !.status = request[run[p].saved.request].state])
    /\ UNCHANGED <<file, drawn, contract, request, pass>>

\* Cleanverse answers a status query with the state the request is in, or
\* with something that tells none.  The answer joins the copy read before.
Ask(p) ==
    /\ run[p].at = "ask"
    /\ \E answer \in {request[run[p].saved.request].state, "unknown"} :
         GotoWith(p, "open", [run[p].saved EXCEPT !.status = answer])
    /\ UNCHANGED <<file, drawn, contract, request, pass>>

\* Cleanverse decides on a request, once and for all.
Decide(r) ==
    /\ request[r].state = "open"
    /\ \E fate \in Fates \ {"open"} : request' = [request EXCEPT ![r].state = fate]
    /\ UNCHANGED <<file, run, drawn, contract, pass>>

---------------------------------------------------------------------------
(* The chain: deployments.                                                 *)

\* Mutation: the address is written down as soon as the transaction is sent.
DeployUnwaited(p) ==
    /\ run[p].at = "deploy"
    /\ \E c \in Contracts :
         /\ contract[c].state = "unused"
         /\ contract' = [contract EXCEPT ![c] =
                           [kind |-> IF run[p].script = "deploy cva" THEN "token" ELSE "vault",
                            admin |-> run[p].saved.key, state |-> "pending"]]
         /\ GotoWith(p, "open", [run[p].saved EXCEPT !.contract = c])
    /\ UNCHANGED <<file, drawn, request, pass>>

\* factory.deploy sends the creation of a contract whose admin, or owner, is
\* the issuer of the wallets that were read.
Deploy(p) ==
    /\ run[p].at = "deploy"
    /\ \E c \in Contracts :
         /\ contract[c].state = "unused"
         /\ contract' = [contract EXCEPT ![c] =
                           [kind |-> IF run[p].script = "deploy cva" THEN "token" ELSE "vault",
                            admin |-> run[p].saved.key, state |-> "pending"]]
         /\ GotoWith(p, "wait", [run[p].saved EXCEPT !.contract = c])
    /\ UNCHANGED <<file, drawn, request, pass>>

\* The chain mines the transaction, and the creation succeeds or reverts.
Mine(c) ==
    /\ contract[c].state = "pending"
    /\ \E fate \in {"mined", "reverted"} : contract' = [contract EXCEPT ![c].state = fate]
    /\ UNCHANGED <<file, run, drawn, request, pass>>

\* waitForDeployment returns for a mined contract only.
Deployed(p) ==
    /\ run[p].at = "wait"
    /\ contract[run[p].saved.contract].state = "mined"
    /\ Goto(p, "open")
    /\ UNCHANGED <<file, drawn, contract, request, pass>>

---------------------------------------------------------------------------
(* The end of the scripts: writeFile, or a death anywhere before.          *)

\* writeFile opens its file, which empties it ..
Open(p) ==
    /\ run[p].at = "open"
    /\ file' = [file EXCEPT ![Target(run[p].script)] = Blank]
    /\ Goto(p, "write")
    /\ UNCHANGED <<drawn, contract, request, pass>>

\* .. and writes the text from the start.  If another script has written the
\* file since, the end of a longer text stays behind, and nothing parses.
Write(p) ==
    /\ run[p].at = "write"
    /\ LET f == Target(run[p].script)
       IN \/ file' = [file EXCEPT ![f] = run[p].saved]
          \/ /\ Readable(f)
             /\ file' = [file EXCEPT ![f] = Blank]
    /\ run' = [run EXCEPT ![p] = Idle]
    /\ UNCHANGED <<drawn, contract, request, pass>>

\* The process dies: killed, or by an error nothing catches (a check that
\* throws, a lost answer, a reverted deployment).
Die(p) ==
    /\ run[p] # Idle
    /\ run' = [run EXCEPT ![p] = Idle]
    /\ UNCHANGED <<file, drawn, contract, request, pass>>

Launch(p) == ReadWallets(p, "launch", "post")
DeployCva(p) == ReadWallets(p, "deploy cva", "deploy")
Register(p) == ReadWallets(p, "register", "deployment")
DeployVault(p) == ReadWallets(p, "deploy vault", "deploy")
LaunchStatus(p) == ReadRequest(p, "launch status")
RegisterStatus(p) == ReadRequest(p, "register status")

Next ==
    \/ \E p \in Runs :
         \/ Bootstrap(p) \/ ReadHolders(p) \/ Launch(p) \/ DeployCva(p)
         \/ Register(p) \/ DeployVault(p) \/ LaunchStatus(p) \/ RegisterStatus(p)
         \/ ReadDeployment(p) \/ ProvisionPass(p) \/ RefusePass(p)
         \/ Accept(p) \/ Refuse(p) \/ Reply(p) \/ Ask(p)
         \/ Deploy(p) \/ Deployed(p) \/ Open(p) \/ Write(p) \/ Die(p)
    \/ \E r \in Requests : Decide(r)
    \/ \E c \in Contracts : Mine(c)

Spec == Init /\ [][Next]_vars

---------------------------------------------------------------------------
(* Properties.                                                             *)

\* A contract of that kind stands on the chain, under that admin.
Stands(c, kind, admin) ==
    c \in Contracts /\ contract[c] = [kind |-> kind, admin |-> admin, state |-> "mined"]

\* A request that a record names was made for what the record says it was.
Made(record, kind) ==
    record.request # None =>
        /\ request[record.request].kind = kind
        /\ request[record.request].contract = record.contract
        /\ request[record.request].by = record.key

\* What a record says is so, if file f is the one that holds it.
RecordTrue(f, record) ==
    /\ f \in {"cva", "register"} => Stands(record.contract, "token", record.key)
    /\ f = "vault" => Stands(record.contract, "vault", record.key)
    /\ f = "register" => Made(record, "register")
    /\ f = "apply" => Made(record, "launch")

\* A verdict in a record is the verdict on the request of that record.
VerdictTrue(record) ==
    record.status \in {"issued", "rejected"} =>
        /\ record.request # None
        /\ request[record.request].state = record.status

\* What a file says is so: the CVA and the vault written down stand on the
\* chain, mined, under the admin written beside them; the request beside an
\* application or a registration is the one Cleanverse keeps of that very
\* token and owner.  Scripts overwrite each other's files, die half way and
\* write back copies they read long ago; none of it may mix two records.
RecordsAreTrue == \A f \in Files : Readable(f) => RecordTrue(f, file[f])

\* A verdict in a file is the verdict on the request of that file, however
\* many launches, registrations and queries ran while the query waited
\* (query-atoken-status.mjs:41, query-custom-cva-register-status.mjs:41).
StatusOfRequest == \A f \in {"apply", "register"} : VerdictTrue(file[f])

\* Cleanverse never holds a registration that somebody else than the admin
\* of a mined token signed, although the wallets may be drawn anew between
\* the deployment and the registration, and between its two reads
\* (register-custom-cva.mjs:26).
RegisteredByOwner ==
    \A r \in Requests :
        request[r].kind = "register" =>
            Stands(request[r].contract, "token", request[r].by)

\* The holders of a wallet set with an A-Pass are the first ones of the set:
\* no run goes past a holder it was refused, or got no answer for
\* (generate-apass.mjs:51-59).
PassesInOrder ==
    \A k \in Keys : \A h \in pass[k] : 1..h \subseteq pass[k]

=============================================================================
