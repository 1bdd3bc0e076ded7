\* Histories of one view of two pieces, up to six commits, and every walk over them.
\* The bound on commits ends every history.
SPECIFICATION HistorySpec
CONSTANTS
  x = x
  y = y
  Pieces <- TwoPieces
  MaxCommits = 6
SYMMETRY Symmetry
INVARIANT WalkInv
CHECK_DEADLOCK FALSE
