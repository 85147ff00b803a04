---------------------------- MODULE ReadEndpoints ----------------------------
(***************************************************************************)
(* GET /api/status (api/status.js) and GET /api/eligibility                *)
(* (api/eligibility.js), over lib/rpc.js, as one page calls them: each     *)
(* call c of the page has a request to either under way.                   *)
(*                                                                         *)
(* Both are stateless.  What a refusal says (CHAIN_MISMATCH, RPC_ERROR,    *)
(* RUNTIME_VAULT_NOT_CONFIGURED, DECIMALS_MISMATCH) and the figures of     *)
(* the status are left out: the page treats all refusals alike.            *)
(***************************************************************************)
EXTENDS Integers, FiniteSets

CONSTANTS
    Calls,   \* the page's calls of an asynchronous function under way
    Cohort,  \* how many holders there are (DEMO_COHORT)
    Fickle   \* BOUND: the holders whose standing with Cleanverse changes

Holders == 1 .. Cohort

ASSUME CohortAssumption == Cohort \in Nat \ {0} /\ Fickle \subseteq Holders

VARIABLES
    verdict,      \* what the policy would answer for each holder
    status,       \* where the request to /api/status of each call is
    eligibility,  \* and the one to /api/eligibility
    decision,     \* what the latter has found out of each holder
    grounds       \* history: what the policy would have answered for each
                  \* holder since the call began

endpoints == <<status, eligibility, decision, grounds>>

Verdicts == {"ALLOW", "BLOCK"}
Decisions == {"ALLOWED", "BLOCKED", "UNKNOWN"}
Stages == {"none", "connecting", "asking", "refused", "lost", "ok"}

Undecided == [h \in Holders |-> "none"]
NoGrounds == [h \in Holders |-> {}]

EndpointsTypeOK ==
    /\ verdict \in [Holders -> Verdicts]
    /\ status \in [Calls -> Stages \ {"asking"}]
    /\ eligibility \in [Calls -> Stages]
    /\ decision \in [Calls -> [Holders -> Decisions \union {"none"}]]
    /\ grounds \in [Calls -> [Holders -> SUBSET Verdicts]]

EndpointsInit ==
    /\ verdict \in [Holders -> Verdicts]
    /\ status = [c \in Calls |-> "none"]
    /\ eligibility = [c \in Calls |-> "none"]
    /\ decision = [c \in Calls |-> Undecided]
    /\ grounds = [c \in Calls |-> NoGrounds]

-----------------------------------------------------------------------------
(* What the page does with them: two fetches at once, and no more interest *)
(* in either once the call has what it needs.                              *)

Fetch(c) ==
    /\ status' = [status EXCEPT ![c] = "connecting"]
    /\ eligibility' = [eligibility EXCEPT ![c] = "connecting"]
    /\ grounds' = [grounds EXCEPT ![c] = [h \in Holders |-> {verdict[h]}]]
    /\ UNCHANGED decision

Forget(c) ==
    /\ status' = [status EXCEPT ![c] = "none"]
    /\ eligibility' = [eligibility EXCEPT ![c] = "none"]
    /\ decision' = [decision EXCEPT ![c] = Undecided]
    /\ grounds' = [grounds EXCEPT ![c] = NoGrounds]

-----------------------------------------------------------------------------
(* /api/status: the network's chain id, then everything else at once.      *)

StatusEnds(c, how) ==
    /\ status[c] = "connecting"
    /\ status' = [status EXCEPT ![c] = how]
    /\ UNCHANGED <<verdict, eligibility, decision, grounds>>

\* 200; a 502 or 503; or an answer that never arrives.
StatusSettles(c) == \E how \in {"ok", "refused", "lost"} : StatusEnds(c, how)

-----------------------------------------------------------------------------
(* /api/eligibility: chain id, vault and decimals; then one canTransfer    *)
(* for each holder, all under way together.                                *)

\* Mutation: whoever is not blocked is allowed.
DecisionFailsOpen(answer) ==
    IF answer \in {"false", "CALL_EXCEPTION"} THEN "BLOCKED" ELSE "ALLOWED"

\* The boolean, or classifyCallError.
Decision(answer) ==
    CASE answer = "true" -> "ALLOWED"
      [] answer \in {"false", "CALL_EXCEPTION"} -> "BLOCKED"
      [] OTHER -> "UNKNOWN"

\* An eth_call comes back with the policy's word, true, false or a revert, which
\* ethers reports as a CALL_EXCEPTION; with a JSON-RPC error of the node, which
\* it reports as a CALL_EXCEPTION too, without revert data; or not at all.
Answers(h) ==
    (IF verdict[h] = "ALLOW" THEN {"true"} ELSE {"false"})
        \union {"CALL_EXCEPTION", "NETWORK_ERROR"}

Connect(c) ==
    /\ eligibility[c] = "connecting"
    /\ eligibility' = [eligibility EXCEPT ![c] = "asking"]
    /\ UNCHANGED <<verdict, status, decision, grounds>>

Refuse(c) ==
    /\ eligibility[c] = "connecting"
    /\ eligibility' = [eligibility EXCEPT ![c] = "refused"]
    /\ UNCHANGED <<verdict, status, decision, grounds>>

CanTransfer(c, h) ==
    /\ eligibility[c] = "asking"
    /\ decision[c][h] = "none"
    /\ \E answer \in Answers(h) :
          decision' = [decision EXCEPT ![c][h] = Decision(answer)]
    /\ UNCHANGED <<verdict, status, eligibility, grounds>>

\* The 200, once every canTransfer has settled.
Respond(c) ==
    /\ eligibility[c] = "asking"
    /\ \A h \in Holders : decision[c][h] # "none"
    /\ eligibility' = [eligibility EXCEPT ![c] = "ok"]
    /\ UNCHANGED <<verdict, status, decision, grounds>>

LoseEligibility(c) ==
    /\ eligibility[c] \in {"connecting", "asking"}
    /\ eligibility' = [eligibility EXCEPT ![c] = "lost"]
    /\ UNCHANGED <<verdict, status, decision, grounds>>

EligibilityStep(c) ==
    \/ Connect(c) \/ Refuse(c) \/ Respond(c) \/ LoseEligibility(c)
    \/ \E h \in Holders : CanTransfer(c, h)

\* Cleanverse changes its mind about a holder.
VerdictChange(h, v) ==
    /\ h \in Fickle
    /\ verdict[h] # v
    /\ verdict' = [verdict EXCEPT ![h] = v]
    /\ grounds' = [c \in Calls |->
                     IF status[c] = "none" THEN grounds[c]
                     ELSE [grounds[c] EXCEPT ![h] = @ \union {v}]]
    /\ UNCHANGED <<status, eligibility, decision>>

=============================================================================
