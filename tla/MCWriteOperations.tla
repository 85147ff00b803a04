------------------------- MODULE MCWriteOperations -------------------------
(***************************************************************************)
(* WriteOperations on small instances: two invocations that share one or   *)
(* two operationIds, and a cohort of one or two holders.                   *)
(***************************************************************************)
EXTENDS WriteOperations, TLC

CONSTANTS q1, q2, o1, o2, h1, h2, none

Distribute(op, dry) ==
    [kind |-> "distribute", op |-> op, target |-> none, dryRun |-> dry]
Release(op, a, dry) ==
    [kind |-> "release", op |-> op, target |-> a, dryRun |-> dry]

Fund(op, dry) ==
    [kind |-> "fund", op |-> op, target |-> none, dryRun |-> dry]

TwoHolders == <<h1, h2>>
OneHolder == <<h1>>

\* What can be asked of one operation.
OneOperation ==
    {Distribute(o1, FALSE), Fund(o1, FALSE), Fund(o1, TRUE),
     Release(o1, <<o1, h1>>, FALSE), Release(o1, none, FALSE)}

\* Two operators: a distribution, releases of its allocation under two
\* operationIds, and the dry runs.
TwoOperators ==
    {Distribute(o1, FALSE), Release(o1, <<o1, h1>>, FALSE),
     Release(o2, <<o1, h1>>, FALSE), Distribute(o1, TRUE),
     Release(o1, <<o1, h1>>, TRUE), Release(o1, none, TRUE)}

Distributions == {Distribute(o1, FALSE), Distribute(o2, FALSE)}
Everyone == Permutations(Requests)

=============================================================================
