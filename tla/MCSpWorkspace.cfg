SPECIFICATION MCSpec
CONSTANTS
  r1 = r1
  r2 = r2
  won = won
  Scenes = {"server", "browser"}
  Requests = {r1, r2}
  Tables = {"lock", "budget", "result"}
  Values = {won}
  NULL = NULL
  Years = {2024, 2025}
  Cells = {"text", "amount"}
  MaxEdits = 2
  MaxLoads = 1
  MaxLocks = 1
  MaxFailures = 1
INVARIANTS
  SoundTables
  TypedKeepsYear
PROPERTIES
  BudgetSettles
  EditArrives
CHECK_DEADLOCK FALSE
