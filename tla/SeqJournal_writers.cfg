\* A verify run is the only writer of its chain; of two processes that register in
\* another chain one may be killed, and both others then find its lock stale.
\* Every process ends, so the system stops.
CONSTANTS
  p1 = p1
  p2 = p2
  p3 = p3
  runs = runs
  registrations = registrations
  NoProc = NoProc
  Procs <- ThreeProcs
  Chains <- TwoChains
  ChainOf <- OnlyP1Runs
  Annotators <- OnlyP1
  MayCrash <- OnlyP2
  SlowHolders = FALSE
SPECIFICATION FairSpec
INVARIANTS ChainsAtRest
PROPERTIES ImplementsAppendLog WaiterServed
CHECK_DEADLOCK FALSE
