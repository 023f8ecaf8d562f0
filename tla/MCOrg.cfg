SPECIFICATION MCSpec
CONSTANTS
  Series = {su, s1}
  Uncategorized = su
  Departments = {d1}
  Groups = {g1}
  Offices = {o1}
  Names = {n1, n2}
  MinYear = 2022
  MaxYear = 2024
  MaxWrites = 4
  DeptFacts = {df}
  OfficeFacts = {of}
  Remarks = {x}
  Syncs = {q1, q2}
  MaxRows = 2
  NULL = NULL
SYMMETRY Symmetry
INVARIANTS
  SoundTrees
  SyncTellsLog
PROPERTIES
  VersionsTellYears
CHECK_DEADLOCK FALSE
