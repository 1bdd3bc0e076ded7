SPECIFICATION Spec
CONSTANTS
  Events = {e1, e2}
  Claims = {c1}
  Whole = Whole
  Unrouted = Unrouted
  Misnames = FALSE
  MaxRuns = 2
  MaxSeq = 6
SYMMETRY Symmetry
INVARIANTS Inv NothingForgotten DebtIsTakenOver
CHECK_DEADLOCK FALSE
