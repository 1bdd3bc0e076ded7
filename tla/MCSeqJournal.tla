---------------------------- MODULE MCSeqJournal ----------------------------
(***************************************************************************)
(* SeqJournal on small instances.                                          *)
(***************************************************************************)
EXTENDS SeqJournal

CONSTANTS p1, p2, p3, runs, registrations

NoProcs == {}
OnlyP1 == {p1}
OnlyP2 == {p2}
TwoProcs == {p1, p2}
ThreeProcs == {p1, p2, p3}

OneChain == {runs}
TwoChains == {runs, registrations}

AllRuns == [p \in Procs |-> runs]
OnlyP1Runs == [p \in Procs |-> IF p = p1 THEN runs ELSE registrations]
=============================================================================
