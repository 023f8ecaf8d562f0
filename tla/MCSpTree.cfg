SPECIFICATION MCSpec
CONSTANTS
  g1 = g1
  g2 = g2
  s1 = s1
  t1 = t1
  u1 = u1
  k1 = k1
  k2 = k2
  k3 = k3
  Goals = {g1, g2}
  Strategies = {s1}
  Tasks = {t1}
  Subtasks = {u1}
  Kpis = {k1, k2, k3}
  Home <- MCHome
  Letter <- MCLetter
  Names = {plan}
  MaxLetter = 3
  MinYear = 2022
  MaxYear = 2024
  NULL = NULL
  MaxWrites = 3
INVARIANTS
  HistorySound
  PlansAreTrees
PROPERTIES
  AbolitionClosesUp
  YearsKeptApart
CHECK_DEADLOCK FALSE
