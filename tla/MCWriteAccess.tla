---------------------------- MODULE MCWriteAccess ----------------------------
(***************************************************************************)
(* WriteAccess on small instances: one browser with two requests in        *)
(* flight, two secrets, a session of two seconds and an arm of one.      *)
(***************************************************************************)
EXTENDS WriteAccess, TLC

CONSTANTS q1, q2, s1, s2

\* The table of lib/ratelimit.js.
Deployed == {"auth", "distribute", "release"}

OneOfEach == {"auth", "write-arm", "distribute", "write-status"}

Interchangeable == Permutations({q1, q2}) \union Permutations({s1, s2})

=============================================================================
