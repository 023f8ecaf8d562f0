SPECIFICATION MCSpec
CONSTANTS
  Funds = {f1, f2}
  Names = {general, grant}
  MinYear = 2022
  MaxYear = 2024
  NULL = NULL
  MaxWrites = 3
SYMMETRY Symmetry
INVARIANTS
  FundsSound
PROPERTIES
  ClosedRowsKept
  EditShowsInItsYear
  ImplementsTimeline
CHECK_DEADLOCK FALSE
