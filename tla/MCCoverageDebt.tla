--------------------------- MODULE MCCoverageDebt ---------------------------
(***************************************************************************)
(* An instance of CoverageDebt for TLC.                                    *)
(***************************************************************************)
EXTENDS CoverageDebt, TLC

Symmetry == Permutations(Events) \cup Permutations(Claims)

=============================================================================
