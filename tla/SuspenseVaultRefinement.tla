----------------------- MODULE SuspenseVaultRefinement -----------------------
(***************************************************************************)
(* The vault implements the settlement ledger: seen from outside its       *)
(* transactions, a distribute is one step, whatever its loops do.          *)
(***************************************************************************)
EXTENDS SuspenseVault

StatusOf(state) ==
    CASE state \in {"PAID", "RELEASED"} -> "SETTLED"
      [] state = "SUSPENDED" -> "HELD"
      [] OTHER -> "NONE"

ClaimOf(a) ==
    [recipient |-> a.recipient, amount |-> a.amount, status |-> StatusOf(a.state)]

Ledger == INSTANCE SettlementLedger WITH
    NoRecipient <- ZeroAddress,
    claims <- [id \in Ids |-> ClaimOf(Committed.allocations[id])],
    paidTo <- Committed.paidTo,
    verdict <- verdict[VaultPolicy]

\* Every behaviour of the vault is one of the ledger: batches are atomic, with
\* reverts undone; blocked items are held and the others paid, each as the
\* policy stands; only held claims are released, and only when allowed.
LedgerSpec == Ledger!Spec

=============================================================================
