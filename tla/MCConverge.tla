----------------------------- MODULE MCConverge -----------------------------
(***************************************************************************)
(* Converge on small instances.                                            *)
(***************************************************************************)
EXTENDS Converge

CONSTANTS e1, e2, r1, r2

OneRounder == {r1}
TwoRounders == {r1, r2}
TwoTexts == {e1, e2}

Ans(verdict, uncertainty) == [verdict |-> verdict, uncertainty |-> uncertainty]

\* One answer for each next state, one disagreement, and one that is no verdict.
OneOfEach == {Ans("confirmed", "confident"), Ans("confirmed", "needs-operational-data"),
              Ans("confirmed", "reasonable-disagreement"), Ans("rejected", "confident"),
              Unreadable}
=============================================================================
