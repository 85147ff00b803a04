--------------------------- MODULE MCRuntimeDeploy ---------------------------
(***************************************************************************)
(* RuntimeDeploy with two or three invocations and two operationIds.       *)
(***************************************************************************)
EXTENDS RuntimeDeploy, TLC

CONSTANTS q1, q2, q3, o1, o2

Interchangeable == Permutations(Requests) \union Permutations(Operations)

=============================================================================
