SPECIFICATION Spec
CONSTANTS
  v1 = v1
  v2 = v2
  t1 = t1
  t2 = t2
  Views <- TwoViews
  Terminals <- OneTerminal
  Quiet = TRUE
  Synced = TRUE
  MembersAlone = FALSE
  MaxMade = 5
  MaxCrashes = 1
SYMMETRY Symmetry
INVARIANTS Inv
PROPERTIES RemainderStaysOut ForwardOnly ImplementsPublication
CHECK_DEADLOCK FALSE
