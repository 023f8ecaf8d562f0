SPECIFICATION MCSpec
CONSTANTS
  NULL = NULL
  Uncat = Uncat
  Pages = {"metrics", "organisation"}
  SourceTypes = {"ALIMI", "INTERNAL", "MONITORING"}
  MaxCat = 3
  MaxMetric = 4
  Locked = {2}
  May <- MCMay
  MaxActs <- MCActs
  MaxWire <- MCWire
  MinYear = 2024
  MaxYear = 2025
  Series = {1, 2}
  Departments = {11, 12, 13}
  OfficeGroups = {21, 22}
  Offices = {31, 32, 33}
  Patient = TRUE
  Errands <- MCErrands
  MaxOrgWire = 2
INVARIANTS
  
  DropExact
  
PROPERTIES
  SavedShows
CHECK_DEADLOCK FALSE
