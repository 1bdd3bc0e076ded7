\* Three runs, none of which breaks a lock; two crashes; pids are reused.
CONSTANTS
  p1 = p1
  p2 = p2
  p3 = p3
  NoPid = NoPid
  Orphan = Orphan
  Pids <- ThreeProcs
  Breakers <- NoProcs
  Forcers <- NoProcs
  CliHolders <- OnlyP1
  PidReuse = TRUE
  MaxCrashes = 2
SPECIFICATION LockSpec
INVARIANTS MutualExclusion
PROPERTIES ImplementsMutex
