-------------------------- MODULE MCRetirePublish --------------------------
(***************************************************************************)
(* RetirePublish on small instances.                                       *)
(***************************************************************************)
EXTENDS RetirePublish, TLC

CONSTANTS v1, v2, t1, t2

TwoViews == {v1, v2}
OneTerminal == {t1}
TwoTerminals == {t1, t2}
Symmetry == Permutations(Views) \cup Permutations(Terminals)
=============================================================================
