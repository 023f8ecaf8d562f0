SPECIFICATION MCSpec
CONSTANTS
  NULL = NULL
  a = a
  b = b
  own = own
  old = old
  inner = inner
  outer = outer
  leave = leave
  pay = pay
  fee = fee
  cost = cost
  open = open
  total = total
  away = away
  score = score
  d1 = d1
  d2 = d2
  d3 = d3
  gone = gone
  Years = {2024, 2025}
  SeriesOf <- MCSeriesOf
  OtherUnits = {gone}
  Figures <- MCFigures
  Parts <- MCParts
  LinkTo <- MCLinkTo
  MetricsOf <- MCMetricsOf
  Computed <- EvaluateFormula
  TermsOf <- AnalyzeFormula
  Uploads <- MCUploads
  Hideable <- MCHideable
  Scenes = {"type", "dialog", "bands", "direct", "plain", "students", "accounting", "formula"}
INVARIANTS
  FormulaKept
  SourceTellsValue
  PlainBarsAreReal
  TogglesAgree
  BandsWithinTenth
CHECK_DEADLOCK FALSE
