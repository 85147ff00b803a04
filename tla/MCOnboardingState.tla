--------------------------- MODULE MCOnboardingState ---------------------------
(* A small instance of OnboardingState.  All eight scripts on two processes  *)
(* are more than TLC can visit, and the scripts that share no file only      *)
(* interleave: so each behaviour keeps to the scripts of one shift, which    *)
(* share files, and one run of TLC visits every shift.                       *)
EXTENDS OnboardingState, TLC

VARIABLE shift

Shifts == {{"wallets", "deploy cva", "register", "register status"},
           {"wallets", "launch", "launch status"},
           {"wallets", "apass"},
           {"wallets", "deploy cva", "deploy vault"}}

MCInit == Init /\ shift \in Shifts

MCNext ==
    /\ Next
    /\ \A p \in Runs : run'[p].script \in shift \cup {"none"}
    /\ UNCHANGED shift

MCSpec == MCInit /\ [][MCNext]_<<vars, shift>>

Symmetry == Permutations(Runs) \cup Permutations(Keys)
            \cup Permutations(Contracts) \cup Permutations(Requests)
=============================================================================
