----------------------------- MODULE MCRunLock -----------------------------
(***************************************************************************)
(* RunLock on small instances.                                             *)
(***************************************************************************)
EXTENDS RunLock

CONSTANTS p1, p2, p3

NoProcs == {}
TwoProcs == {p1, p2}
ThreeProcs == {p1, p2, p3}
OnlyP1 == {p1}
=============================================================================
