---------------------------- MODULE MCCompileRun ----------------------------
(***************************************************************************)
(* CompileRun on small instances.                                          *)
(***************************************************************************)
EXTENDS CompileRun

CONSTANTS a, b

BothViews == {a, b}
NoFailures == {}
OwnCommits == {"compile", "revert", "revert-failed"}
=============================================================================
