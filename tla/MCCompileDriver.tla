-------------------------- MODULE MCCompileDriver --------------------------
(***************************************************************************)
(* CompileDriver on small instances.                                       *)
(***************************************************************************)
EXTENDS CompileDriver

CONSTANTS a, b, e, s1, s2

BothViews == {a, b}
OneView == {a}
NoNewViews == {}
OneEvent == {e}
OneNewView == {b}
OneSession == {s1}
TwoSessions == {s1, s2}

RunOnly == {"run"}
WithoutSetAside == {"run", "reverify", "revert"}
RunAndRevert == {"run", "revert"}
=============================================================================
