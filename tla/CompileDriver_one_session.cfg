\* One session at a time uses every verb; it may be killed once.
\* Every session may end and every bound be reached, so the system stops.
CONSTANTS
  a = a
  b = b
  e = e
  s1 = s1
  s2 = s2
  Nobody = Nobody
  Orphan = Orphan
  NoView = NoView
  Views <- BothViews
  NewViews <- OneNewView
  Events <- OneEvent
  Sessions <- OneSession
  Verbs <- AllVerbs
  Verdicts <- AllVerdicts
  MaxLegs = 2
  MaxSeq = 4
  MaxReverts = 2
  MaxCrashes = 1
SPECIFICATION FairSpec
INVARIANTS Inv RevertedTextGone LegOnEveryAbsorption
PROPERTIES RevertUndoesOnlyItsRun ConfirmedStands ImplementsLedger ImplementsMutex BlockedIsResolved
CHECK_DEADLOCK FALSE
