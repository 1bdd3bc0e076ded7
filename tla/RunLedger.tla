----------------------------- MODULE RunLedger -----------------------------
(***************************************************************************)
(* What the compile driver promises of a branch: each run is open until it *)
(* is verified or reverted, no run starts over an open one, and a verified *)
(* run is reopened by nothing but a revert.                                *)
(***************************************************************************)
EXTENDS Naturals

VARIABLE ledger     \* run number -> disposition

Dispositions == {"open", "verified", "reverted"}

Init == ledger = << >>

\* A run starts above all earlier ones, when none of those is open.
Start == \E n \in DOMAIN ledger' \ DOMAIN ledger :
           /\ \A m \in DOMAIN ledger : m < n /\ ledger[m] # "open"
           /\ ledger' = [m \in DOMAIN ledger \cup {n} |->
                           IF m = n THEN "open" ELSE ledger[m]]

Verify == \E m \in DOMAIN ledger :
            /\ ledger[m] = "open"
            /\ ledger' = [ledger EXCEPT ![m] = "verified"]

Revert == \E m \in DOMAIN ledger :
            /\ ledger[m] # "reverted"
            /\ ledger' = [ledger EXCEPT ![m] = "reverted"]

Next == Start \/ Verify \/ Revert

Spec == Init /\ [][Next]_ledger
=============================================================================
