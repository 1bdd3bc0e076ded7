------------------------------ MODULE RunMutex ------------------------------
(***************************************************************************)
(* What the run lockfile of the compile engine promises, without files:    *)
(* at most one run owns the repository; a run that dies leaves the lock    *)
(* orphaned; an orphaned lock is freed by an explicit break, and by        *)
(* nothing else.                                                           *)
(***************************************************************************)
CONSTANTS Procs,      \* process identifiers of compile and verify runs
          Nobody,     \* the lock is free
          Orphan      \* the lock outlived the run that took it

VARIABLE owner

Owners == Procs \cup {Nobody, Orphan}

Init == owner = Nobody

Take(p) == owner = Nobody /\ owner' = p

Give(p) == owner = p /\ owner' = Nobody

Die(p) == owner = p /\ owner' = Orphan

BreakOrphan == owner = Orphan /\ owner' = Nobody

Next == \/ \E p \in Procs : Take(p) \/ Give(p) \/ Die(p)
        \/ BreakOrphan

Spec == Init /\ [][Next]_owner
=============================================================================
