------------------------------ MODULE PivotRows ------------------------------
(***************************************************************************)
(* The table a query for a comparison returns (PivotService.pivot) for one *)
(* metric: a row for each target, a value for each school year.            *)
(*                                                                         *)
(* raw maps a cell (university, department or the university as a whole,   *)
(* year) to the number stored for it, or to NULL for a text that is no     *)
(* number; a cell nobody uploaded is not in its domain.  The values are    *)
(* put in buckets that all the rows of a query share.                      *)
(***************************************************************************)
EXTENDS TargetTree, Integers

CONSTANTS SchoolYears

VARIABLES raw,
          metric,   \* how values are aggregated, and whether it is hidden
          offices,  \* offices[y][s]: the departments of series s in year y
          found     \* the lookups in the own organisation that succeed

All == "_ALL_"

Cells == ({Ysu} \cup Universities) \X (CollegeDepts \cup {All}) \X SchoolYears

Numeric(c) == c \in DOMAIN raw /\ raw[c] # NULL

\* aggregate() and the mean of a group; nothing of nothing.  A bucket maps what its
\* numbers were found for to the numbers; their order does not matter.
Mean(b) == IF DOMAIN b = {} THEN NULL ELSE SumFunction(b) \div Cardinality(DOMAIN b)

Aggregate(b) ==
  IF DOMAIN b = {} THEN NULL
  ELSE CASE metric.type = "AVG" -> Mean(b)
         [] metric.type = "MAX" -> Max(Range(b))
         [] metric.type = "MIN" -> Min(Range(b))
         [] OTHER               -> SumFunction(b)

Known(f(_), S) == [x \in {z \in S : f(z) # NULL} |-> f(x)]

-----------------------------------------------------------------------------
(* The buckets of a query                                                  *)

IsUnivGroup(t) == t.mode = "group" /\ t.univs # {}
IsDeptGroup(t) == t.mode = "group" /\ t.univ # NULL /\ t.depts # {}
IsIndividual(t) == ~IsUnivGroup(t) /\ ~IsDeptGroup(t) /\ t.univ # NULL

\* The departments of the own college in any of the years asked for.
YearUnion(years) == IF "union" \in found
                    THEN {<<Ysu, d>> : d \in UNION {UNION {offices[y][s] : s \in CollegeSeries} : y \in years}}
                    ELSE {}

\* The universities whose own value, and the departments whose value is wanted.
NeedUnivAll(targets) ==
  UNION {CASE IsUnivGroup(t) -> t.univs
           [] IsDeptGroup(t) -> {t.univ}
           [] IsIndividual(t) /\ t.dept = NULL -> {t.univ}
           [] OTHER -> {} : t \in ToSet(targets)}

NeedDepts(targets, years) ==
  YearUnion(years) \cup
  UNION {CASE IsDeptGroup(t) -> t.depts
           [] IsIndividual(t) /\ t.dept # NULL -> {t.key}
           [] OTHER -> {} : t \in ToSet(targets)}

\* Something was uploaded by department, be it a number or not.
HasDeptLevel(u, y) == \E d \in CollegeDepts : <<u, d, y>> \in DOMAIN raw

\* The rows that ask for one department.
AskingFor(targets, d) ==
  {i \in DOMAIN targets : IsIndividual(targets[i]) /\ targets[i].dept # NULL /\ targets[i].key = d}

Slip_DeptBucket(targets, years, d, y) ==
  [i \in (IF d \in NeedDepts(targets, years) /\ Numeric(<<d[1], d[2], y>>) THEN {0} ELSE {})
         \cup (IF Numeric(<<d[1], All, y>>) THEN AskingFor(targets, d) ELSE {})
     |-> raw[IF i = 0 THEN <<d[1], d[2], y>> ELSE <<d[1], All, y>>]]

\* The value of a department; or, where a metric has none by department, the
\* value of its university once for every row that asks for the department.
DeptBucket(targets, years, d, y) ==
  IF HasDeptLevel(d[1], y)
  THEN IF d \in NeedDepts(targets, years) /\ Numeric(<<d[1], d[2], y>>)
       THEN <<raw[<<d[1], d[2], y>>]>> ELSE <<>>
  ELSE IF ~Numeric(<<d[1], All, y>>) THEN <<>>
  ELSE [i \in AskingFor(targets, d) |-> raw[<<d[1], All, y>>]]

UnivBucket(targets, u, y) ==
  IF u \in NeedUnivAll(targets) /\ Numeric(<<u, All, y>>) THEN <<raw[<<u, All, y>>]>> ELSE <<>>

\* resolveUnivYearValue(): without a value of its own, that of its departments.
UnivValue(targets, u, y) ==
  IF DOMAIN UnivBucket(targets, u, y) # {} THEN Aggregate(UnivBucket(targets, u, y))
  ELSE IF u \notin NeedUnivAll(targets) THEN NULL
  ELSE Aggregate(Known(LAMBDA d : IF Numeric(<<u, d, y>>) THEN raw[<<u, d, y>>] ELSE NULL,
                       CollegeDepts))

-----------------------------------------------------------------------------
(* The rows                                                                *)

\* The departments a group stands for in a year: those of the college or of the
\* series in that year, or the ones the browser sent if they cannot be read.
MembersIn(t, y) ==
  LET own(S) == {<<Ysu, d>> : d \in UNION {offices[y][s] : s \in S}} IN
  IF t.univ # Ysu \/ "members" \notin found THEN t.depts
  ELSE IF t.key = Home THEN own(CollegeSeries)
  ELSE IF t.key[1] = "series" THEN own({t.key[2]})
  ELSE t.depts

GroupValue(targets, years, t, y) ==
  LET depts == Known(LAMBDA d : Aggregate(DeptBucket(targets, years, d, y)), MembersIn(t, y))
  IN IF DOMAIN depts # {} THEN Mean(depts)
     ELSE IF HasDeptLevel(t.univ, y) THEN NULL
     ELSE Aggregate(UnivBucket(targets, t.univ, y))

ValueOf(targets, years, t, y) ==
  CASE IsUnivGroup(t) -> Mean(Known(LAMBDA u : UnivValue(targets, u, y), t.univs))
    [] IsDeptGroup(t) -> GroupValue(targets, years, t, y)
    [] IsIndividual(t) /\ t.dept = NULL -> UnivValue(targets, t.univ, y)
    [] IsIndividual(t) /\ t.dept # NULL -> Aggregate(DeptBucket(targets, years, t.key, y))

\* A target without a value in any year has no row.
Pivot(targets, years) ==
  IF metric.hidden THEN {}
  ELSE {r \in {[key |-> t.key, values |-> [y \in years |-> ValueOf(targets, years, t, y)]] :
                 t \in ToSet(targets)} :
          \E y \in years : r.values[y] # NULL}
=============================================================================
