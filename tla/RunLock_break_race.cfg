\* Two runs break the same stale lock.
CONSTANTS
  p1 = p1
  p2 = p2
  p3 = p3
  NoPid = NoPid
  Orphan = Orphan
  Pids <- TwoProcs
  Breakers <- TwoProcs
  Forcers <- NoProcs
  CliHolders <- NoProcs
  PidReuse = FALSE
  MaxCrashes = 1
SPECIFICATION LockSpec
PROPERTIES LiveLockNeverBroken
