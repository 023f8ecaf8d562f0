------------------------------ MODULE FormulaRow ------------------------------
(* The registry's row of a metric that has a formula, and its sub-metrics. *)
EXTENDS Absent

VARIABLES
  label,    \* the sub-metrics of the metric: id -> [word, spaced, suffix]
  formula,  \* compute_formula, tokens or NULL
  on        \* compute_enabled
=============================================================================
