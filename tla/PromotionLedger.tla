-------------------------- MODULE PromotionLedger --------------------------
(***************************************************************************)
(* What the promotion gate promises, without ledger, lock or files: a raw  *)
(* event is written once, under one signed artifact, and is then promoted  *)
(* under that artifact; a signed commit promotes once.                     *)
(***************************************************************************)
CONSTANTS Events,       \* staged candidate files
          Artifacts,    \* signed gate artifacts
          CommitOf,     \* the commit that introduced each artifact
          NoArtifact

VARIABLES raws,         \* the artifact each raw event was written under
          promotions    \* the promotions on record: event and artifact

Init == raws = [e \in Events |-> NoArtifact] /\ promotions = {}

WriteEvent(e, g) ==
  /\ raws[e] = NoArtifact
  /\ raws' = [raws EXCEPT ![e] = g]
  /\ UNCHANGED promotions

Record(e, g) ==
  /\ raws[e] = g
  /\ \A p \in promotions : CommitOf[p[2]] # CommitOf[g]
  /\ promotions' = promotions \cup {<<e, g>>}
  /\ UNCHANGED raws

Next == \E e \in Events, g \in Artifacts : WriteEvent(e, g) \/ Record(e, g)

Spec == Init /\ [][Next]_<<raws, promotions>>
=============================================================================
