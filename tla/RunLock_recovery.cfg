\* Two runs that pass --break-stale-lock are retried until they get the lock.
CONSTANTS
  p1 = p1
  p2 = p2
  p3 = p3
  NoPid = NoPid
  Orphan = Orphan
  Pids <- TwoProcs
  Breakers <- TwoProcs
  Forcers <- NoProcs
  CliHolders <- OnlyP1
  PidReuse = FALSE
  MaxCrashes = 2
SPECIFICATION FairLockSpec
PROPERTIES OrphanRecovered
