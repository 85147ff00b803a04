--------------------------- MODULE SettlementLedger ---------------------------
(***************************************************************************)
(* What Suspense promises of a settlement, with no transaction, loop,      *)
(* balance or server in sight: a batch of claims is settled or held in one *)
(* indivisible step, as the policy stands at that moment; a held claim     *)
(* keeps its recipient and amount until it is released, which the policy   *)
(* must allow at that moment; a settled claim is paid once, and is final.  *)
(***************************************************************************)
EXTENDS Integers

CONSTANTS Ids, Recipients, NoRecipient

VARIABLES
    claims,   \* each claim: to whom, how much, and where it stands
    paidTo,   \* tokens moved for each claim, to each recipient
    verdict   \* the policy's answer for each recipient, now

vars == <<claims, paidTo, verdict>>

Unclaimed == [recipient |-> NoRecipient, amount |-> 0, status |-> "NONE"]
Claims(status) ==
    [recipient : Recipients, amount : Nat \ {0}, status : {status}]

Allowed(r) == verdict[r] = "ALLOW"

Unchanged(id) == claims'[id] = claims[id] /\ paidTo'[id] = paidTo[id]

\* The recipient of the claim gets its whole amount; nobody else gets any.
Pays(id) ==
    LET c == claims'[id]
    IN  paidTo'[id] = [paidTo[id] EXCEPT ![c.recipient] = @ + c.amount]

Settles(id) ==
    /\ claims[id] = Unclaimed
    /\ claims'[id] \in Claims("SETTLED")
    /\ Allowed(claims'[id].recipient)
    /\ Pays(id)

Holds(id) ==
    /\ claims[id] = Unclaimed
    /\ claims'[id] \in Claims("HELD")
    /\ ~Allowed(claims'[id].recipient)
    /\ paidTo'[id] = paidTo[id]

Releases(id) ==
    /\ claims[id].status = "HELD"
    /\ Allowed(claims[id].recipient)
    /\ claims'[id] = [claims[id] EXCEPT !.status = "SETTLED"]
    /\ Pays(id)

Shape ==
    /\ claims' = [id \in Ids |-> claims'[id]]
    /\ paidTo' = [id \in Ids |-> paidTo'[id]]

Init ==
    /\ claims = [id \in Ids |-> Unclaimed]
    /\ paidTo = [id \in Ids |-> [r \in Recipients |-> 0]]
    /\ verdict \in [Recipients -> {"ALLOW", "DENY", "REVERT"}]

\* distribute: all the items of a batch, or none.
SettleBatch ==
    /\ verdict' = verdict
    /\ Shape
    /\ \A id \in Ids : Unchanged(id) \/ Settles(id) \/ Holds(id)

\* release: one held claim.
Release(id) ==
    /\ verdict' = verdict
    /\ Shape
    /\ Releases(id)
    /\ \A other \in Ids \ {id} : Unchanged(other)

PolicyChange ==
    /\ UNCHANGED <<claims, paidTo>>
    /\ verdict' \in [Recipients -> {"ALLOW", "DENY", "REVERT"}]

Next ==
    \/ SettleBatch
    \/ \E id \in Ids : Release(id)
    \/ PolicyChange

Spec == Init /\ [][Next]_vars

=============================================================================
