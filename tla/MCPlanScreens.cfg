SPECIFICATION PlanScreensSpec
CONSTANTS
  NULL = NULL
  g1 = g1
  s1 = s1
  t1 = t1
  u1 = u1
  k1 = k1
  k2 = k2
  Goals = {g1}
  Strategies = {s1}
  Tasks = {t1}
  Subtasks = {u1}
  Kpis = {k1, k2}
  Home <- MCHome
  Letter <- MCLetter
  Names <- MCNames
  MaxLetter = 3
  MinYear = 2022
  MaxYear = 2023
  MaxWrites = 9
  Seeds <- MCSeeds
  Funds = {1, 2, 3}
  Plots <- MCPlots
  MaxCalls = 2

  
  
PROPERTIES
  
  FundMoveSwaps
CHECK_DEADLOCK FALSE
