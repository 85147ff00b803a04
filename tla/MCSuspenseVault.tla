-------------------------- MODULE MCSuspenseVault --------------------------
(***************************************************************************)
(* SuspenseVault on small instances: two recipients, two or three          *)
(* allocations, and calls of distribute that meet every outcome.           *)
(***************************************************************************)
EXTENDS SuspenseVaultLedgerProofs, Functions

CONSTANTS a1, a2, a3, r1, r2, zero

Batch(ids, recipients, amounts) ==
    [ids |-> ids, recipients |-> recipients, amounts |-> amounts]

Pair == Batch(<<a1, a2>>, <<r1, r2>>, <<1, 2>>)
Single == Batch(<<a3>>, <<r2>>, <<1>>)
Overlap == Batch(<<a3, a1>>, <<r1, r1>>, <<1, 1>>)
Refused ==
    {Batch(<<>>, <<>>, <<>>),
     Batch(<<a1, a2>>, <<r1>>, <<1, 1>>),
     Batch(<<a1>>, <<r1>>, <<1, 1>>),
     Batch(<<a3>>, <<zero>>, <<1>>),
     Batch(<<a3, a2>>, <<r1, r2>>, <<1, 0>>),
     Batch(<<a2, a3>>, <<r1, r2>>, <<MaxUint, 1>>)}

MCCalls == {Pair, Single, Overlap} \union Refused
Pairs == {Pair, Single}

\* The suspended allocations together are held: no sequence of fundings,
\* batches and releases leaves the vault with less than it has suspended.
SuspendedFullyHeld ==
    pc = "idle" =>
       vaultBalance >=
          SumFunctionOnSet([id \in Ids |-> allocations[id].amount],
                           {id \in Ids : allocations[id].state = "SUSPENDED"})

=============================================================================
