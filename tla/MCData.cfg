SPECIFICATION DataSpec
CONSTANTS
  Depts = {d1}
  Bases = {b1}
  SourceType <- MCSourceType
  Values = {v1, v2}
  Requests = {r1, r2}
  MaxRows = 2
  Deleted = Deleted
  NULL = NULL
  Seeds <- MCSeeds
  OtherName = "other"
  Readers = {q1, q2}
  MaxId = 3
  Categories = {a, b}
  Browsers = {w1, w2}
  MaxMetric = 2
SYMMETRY Symmetry
INVARIANTS
  DeskSound
  NoCycle
  SaveIsComplete

  
CHECK_DEADLOCK FALSE
