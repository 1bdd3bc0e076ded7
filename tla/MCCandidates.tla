---------------------------- MODULE MCCandidates ----------------------------
(***************************************************************************)
(* Candidates on small instances.                                          *)
(***************************************************************************)
EXTENDS Candidates

CONSTANTS c, d, g1, g2, h1, h2, r1, r2, p1, p2

OneCand == {c}
TwoCands == {c, d}
TwoArtifacts == {g1, g2}
AllArmC == [g \in Artifacts |-> c]
OwnCommit == [g \in Artifacts |-> g]
OneHarvester == {h1}
OneReconciler == {r1}
TwoReconcilers == {r1, r2}
TwoPromoters == {p1, p2}
OnlyP1 == {p1}
NoProcs == {}
NoFiles == {}
BadTomorrow == {<<c, 2>>}
TwoHarvesters == {h1, h2}
=============================================================================
