\* Two promotions with two artifacts for one candidate, beside a harvester and a reconciler.
\* Every promoter may be done and every bound be reached, so the system stops.
CONSTANTS
  c = c
  d = d
  g1 = g1
  g2 = g2
  h1 = h1
  h2 = h2
  r1 = r1
  r2 = r2
  p1 = p1
  p2 = p2
  NoArtifact = NoArtifact
  Nobody = Nobody
  Cands <- OneCand
  Artifacts <- TwoArtifacts
  ArmsOf <- AllArmC
  CommitOf <- OwnCommit
  Harvesters <- OneHarvester
  Reconcilers <- OneReconciler
  Promoters <- TwoPromoters
  MayCrash <- OnlyP1
  SlowHolders = FALSE
  BadFiles <- BadTomorrow
  MaxDay = 2
  ExpiryDays = 0
  MaxMishaps = 1
SPECIFICATION FairSpec
INVARIANTS Inv SingleUse NoOrphanLeft
PROPERTIES ImplementsGate AllSettle
CHECK_DEADLOCK FALSE
