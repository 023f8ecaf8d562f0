SPECIFICATION ViewsSpec
CONSTANTS
  NULL = NULL
  Ysu = ysu
  u1 = u1
  u2 = u2
  u3 = u3
  s1 = s1
  s2 = s2
  d1 = d1
  d2 = d2
  d3 = d3
  Universities = {u1, u2, u3}
  CollegeSeries = {s1, s2}
  CollegeDepts = {d1, d2, d3}
  Remote = remote
  SchoolYears = {2024, 2025}
  MetricIds = {students}
  Boxes <- MCBoxes
  Calls = {1, 2}
  MaxEdits = 4
  MaxTicks = 4
  Rosters <- MCOffices
  Askable <- TableTargets
  Tabled <- RawTables
  MaxRows = 2
  MaxQueries = 2
  Scenes = {"select", "store", "table"}
INVARIANTS
  CollapseKeepsUnits
  TablesTellUnits
  RelativeOfPivot
PROPERTIES
  SpinnerEnds
CHECK_DEADLOCK FALSE
