------------------------------ MODULE ReplayKeys ------------------------------
(***************************************************************************)
(* lib/replay.js: the Redis keys that stop an operationId from being used  *)
(* twice, and tell how far its operation got.  Each lives 600 seconds from *)
(* its reservation.  A call that fails may have reached Redis or not.      *)
(***************************************************************************)
EXTENDS Integers, FiniteSets

CONSTANTS
    Scopes,      \* the endpoints that reserve operationIds
    Operations,  \* operationIds, UUIDs chosen by the client
    Faults       \* what may fail: "redis", "rpc", "kill"

Keys == Scopes \X Operations

VARIABLES
    replay,   \* the keys
    expiries  \* how often each has expired

redis == <<replay, expiries>>

OpStates == {"RESERVED", "SUBMITTED", "CONFIRMED", "FAILED"}
Absent == [state |-> "ABSENT", expires |-> FALSE]

InitKeys ==
    /\ replay = [k \in Keys |-> Absent]
    /\ expiries = [k \in Keys |-> 0]

\* Mutation: the key is set whether or not it exists.
ReserveAlways(k) ==
    replay' = [replay EXCEPT ![k] = [state |-> "RESERVED", expires |-> TRUE]]

\* SET NX EX
Reserve(k) ==
    /\ replay[k] = Absent
    /\ replay' = [replay EXCEPT ![k] = [state |-> "RESERVED", expires |-> TRUE]]

\* What reserveOperationId can return: reserved, 409, or 503.
Reserved(k) == Reserve(k) /\ UNCHANGED expiries
Duplicate(k) == replay[k] # Absent /\ UNCHANGED redis
Unavailable(k) ==
    /\ "redis" \in Faults
    /\ Reserve(k) \/ replay' = replay
    /\ UNCHANGED expiries

\* Mutation: KEEPTTL is left out, so the key loses its expiry.
UpdateLosesTtl(k, state) ==
    /\ \/ /\ replay[k] # Absent
          /\ replay' = [replay EXCEPT ![k] = [state |-> state, expires |-> FALSE]]
       \/ /\ replay[k] = Absent \/ "redis" \in Faults
          /\ replay' = replay
    /\ UNCHANGED expiries

\* SET XX KEEPTTL: every failure is swallowed.
UpdateOperationState(k, state) ==
    /\ \/ /\ replay[k] # Absent
          /\ replay' = [replay EXCEPT ![k].state = state]
       \/ /\ replay[k] = Absent \/ "redis" \in Faults
          /\ replay' = replay
    /\ UNCHANGED expiries

\* The TTL runs out.
ExpireKey(k) ==
    /\ replay[k].expires
    /\ replay' = [replay EXCEPT ![k] = Absent]
    /\ expiries' = [expiries EXCEPT ![k] = @ + 1]

=============================================================================
