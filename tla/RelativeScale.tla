---------------------------- MODULE RelativeScale ----------------------------
(***************************************************************************)
(* The relative comparison (relativeCompare.ts, internalRelativeTargets.ts):*)
(* which targets are compared, and the scale their values of a school year *)
(* are put on, the mean in its middle.                                     *)
(***************************************************************************)
EXTENDS PivotRows

UnivLevel(t) == t.depts = {} /\ t.dept = NULL

CollectUnivLevelCodes(targets) ==
  UNION {IF t.univs # {} THEN t.univs ELSE {t.univ} : t \in {x \in ToSet(targets) : UnivLevel(x)}}

OwnTarget(t) == t.univ = Ysu

\* The own college as a whole, and another one to compare it with.
ShouldShowRelativeCompare(targets) ==
  /\ \E t \in ToSet(targets) : OwnTarget(t) /\ UnivLevel(t)
  /\ \E t \in ToSet(targets) : ~OwnTarget(t)
  /\ Cardinality(CollectUnivLevelCodes(targets)) >= 2

-----------------------------------------------------------------------------
(* Inside the college: against the average of all its departments          *)

CollectYeonsungUnivTarget(t) ==
  IF Home \notin DOMAIN t \/ MemberDepts(t, Home) = {} THEN {}
  ELSE {Target(Home, "group", Ysu, NULL, {}, MemberDepts(t, Home))}

CollectAllSeriesTargets(t) ==
  {Target(n, "group", Ysu, NULL, {}, CollectDepts(t, n)) :
     n \in {m \in DOMAIN t : t[m].level = "series" /\ CollectDepts(t, m) # {}}}

\* The departments on screen and those of any year asked for.
CollectAllDeptTargets(t) ==
  {Single(Ysu, d) : d \in {t[n].dept : n \in {m \in DOMAIN t : t[m].level = "dept"}}
                          \cup UNION {t[n].period : n \in DOMAIN t}}

\* The average of the college always; then all series, all departments, or,
\* with neither asked for, what is chosen.
CollectInternalRelativeTargets(t, chosen, expand) ==
  LET more == (IF "allSeries" \in expand THEN CollectAllSeriesTargets(t) ELSE {})
              \cup (IF "allDepts" \in expand THEN CollectAllDeptTargets(t) ELSE {})
              \cup (IF expand = {} THEN ToSet(chosen) ELSE {})
  IN more \cup {u \in CollectYeonsungUnivTarget(t) : \A x \in more : x.key # u.key}

-----------------------------------------------------------------------------
(* The scale of a year                                                     *)

\* The rows with a value; a scale takes two.
Scored(rows, y) == {r \in rows : r.values[y] # NULL}

\* How far the greatest value is above the mean and the least below it, both
\* times the number of rows.
Total(rows, y) == SumFunction([r \in rows |-> r.values[y]])
Above(rows, y) == Cardinality(rows) * Max({r.values[y] : r \in rows}) - Total(rows, y)
Below(rows, y) == Total(rows, y) - Cardinality(rows) * Min({r.values[y] : r \in rows})

\* toRelativePosition() in units of 1/(Above * Below), where the unit is not 0:
\* the mean at 50, the greatest value at 100, the least at 0.
Position(rows, y, v) ==
  LET off == Cardinality(rows) * v - Total(rows, y)
  IN IF off >= 0 THEN 50 * Below(rows, y) * (Above(rows, y) + off)
     ELSE 50 * Above(rows, y) * (Below(rows, y) + off)

\* buildRelativeScales(), buildRelativeScalesFromPivotRows(): by year, where
\* each row stands; with equal values all stand in the middle.
BuildRelativeScales(rows, years) ==
  [y \in {x \in years : Cardinality(Scored(rows, x)) >= 2} |->
     LET scored == Scored(rows, y)
         unit == IF Above(scored, y) = 0 THEN 1 ELSE Above(scored, y) * Below(scored, y)
     IN [unit |-> unit,
         at |-> [k \in {r.key : r \in scored} |->
                   IF Above(scored, y) = 0 THEN 50
                   ELSE Position(scored, y, (CHOOSE r \in scored : r.key = k).values[y])]]]
=============================================================================
