\* Crashes and failed commits, and an operator who clears leftovers before the next verb.
\* Every session may end and every bound be reached, so the system stops.
CONSTANTS
  a = a
  b = b
  Views <- BothViews
  Tidy = TRUE
  MayFail <- OwnCommits
  MaxRecords = 5
  MaxCrashes = 2
SPECIFICATION Spec
INVARIANTS Inv HeadMatchesJournal
PROPERTIES RefusalLeavesNoTrace NeverSilent ImplementsHistory
CHECK_DEADLOCK FALSE
