------------------------- MODULE MCAttributionWalk -------------------------
(***************************************************************************)
(* AttributionWalk on small instances.                                     *)
(***************************************************************************)
EXTENDS AttributionWalk, TLC

CONSTANTS x, y

TwoPieces == {x, y}
Symmetry == Permutations(TwoPieces)
=============================================================================
