------------------------------- MODULE MCViews -------------------------------
(***************************************************************************)
(* The comparison screens on small instances, in scenes fixed in the first *)
(* state: "select" ticks the whole tree, "store" runs queries over each    *)
(* other on a few boxes, "table" asks for two targets of every raw table.  *)
(***************************************************************************)
EXTENDS AnalysisStore

CONSTANTS Scenes, u1, u2, u3, s1, s2, d1, d2, d3, MaxTicks,
          Rosters,   \* the departments of each series in each year
          Askable,   \* the targets a table may be asked for
          Tabled,    \* the raw tables
          MaxRows    \* targets in one table

VARIABLE scene, asked

Tables == <<raw, metric, offices, found>>
mvars == <<scene, asked, Tables, svars>>

MCPlace == u1 :> [type |-> "college", region |-> "capital", city |-> "Seoul"]
           @@ u2 :> [type |-> "college", region |-> "capital", city |-> "Seoul"]
           @@ u3 :> [type |-> "university", region |-> NULL, city |-> "Busan"]

\* Fewer universities for the queries.
MCPlaceFew == [u \in {u1} |-> MCPlace[u]]

\* Department d2 moves to the other series in the second year.
MCOffices == [y \in SchoolYears |-> IF y = Min(SchoolYears) THEN s1 :> {d1, d2} @@ s2 :> {}
                              ELSE s1 :> {d1} @@ s2 :> {d2, d3}]

TableTargets ==
  {Single(Ysu, NULL), Single(Ysu, d1), Single(Ysu, d2), Single(u1, NULL),
   Target(Home, "group", Ysu, NULL, {}, {<<Ysu, d1>>, <<Ysu, d2>>}),
   Target(<<"series", s1>>, "group", Ysu, NULL, {}, {<<Ysu, d1>>}),
   Target(<<"root:others">>, "group", NULL, NULL, {u1, u2}, {})}

\* Of each kind of cell one that is missing, no number or a number; in the last
\* year, and for a second university, a number.
Given == <<Ysu, d2, Max(SchoolYears)>> :> 48 @@ <<u2, All, Min(SchoolYears)>> :> 60
MayHold == <<Ysu, All, Min(SchoolYears)>> :> 12 @@ <<Ysu, d1, Min(SchoolYears)>> :> 24
           @@ <<Ysu, d2, Min(SchoolYears)>> :> 36 @@ <<u1, All, Min(SchoolYears)>> :> 84
           @@ <<u1, d1, Min(SchoolYears)>> :> 12 @@ <<u1, d2, Min(SchoolYears)>> :> 60

RawTables ==
  {Given @@ [c \in h.full |-> MayHold[c]] @@ [c \in h.text |-> NULL] :
     h \in {x \in [full: SUBSET DOMAIN MayHold, text: SUBSET DOMAIN MayHold] : x.full \cap x.text = {}}}

MCBoxes == {Home, <<u1>>, <<"series", s1>>}

NoTable == raw = <<>> /\ metric = [type |-> "SUM", hidden |-> FALSE] /\ found = {"union", "members"}

\* A box of a tree: a university, a department, universities or departments together.
Offered(t) ==
  \/ \E u \in Universities \cup {Ysu} : t = Single(u, NULL)
  \/ \E d \in CollegeDepts : t = Single(Ysu, d)
  \/ /\ t = Target(t.key, "group", NULL, NULL, t.univs, {})
     /\ t.univs # {} /\ t.univs \subseteq Universities \cup {Ysu}
  \/ /\ t = Target(t.key, "group", Ysu, NULL, {}, t.depts)
     /\ t.depts # {} /\ t.depts \subseteq {Ysu} \X CollegeDepts
     /\ t.key \in {Home} \cup {<<"series", s>> : s \in CollegeSeries}

\* Each target has a key of its own; what is stored are numbers or no numbers.
ASSUME ViewsAssumption ==
  /\ NULL \notin Int \cup Universities \cup CollegeDepts \cup {Ysu}
  /\ IsFiniteSet(Universities) /\ IsFiniteSet(CollegeDepts)
  /\ \A y \in SchoolYears, s \in CollegeSeries : Rosters[y][s] \subseteq CollegeDepts
  /\ u2 \in Universities /\ \A t \in Askable : Offered(t)
  /\ \A t, x \in Askable \cup {Single(u2, NULL)} : t.key = x.key => t = x
  /\ \A table \in Tabled : \A c \in DOMAIN table : table[c] \in Int \cup {NULL}

ViewsInit ==
  /\ scene \in Scenes /\ asked = <<>>
  /\ place = (IF scene = "select" THEN MCPlace ELSE MCPlaceFew)
  /\ offices = Rosters /\ StoreInit(MetricIds)
  /\ scene # "table" => NoTable
  /\ scene = "table" =>
       /\ scope = "disclosure"
       /\ metric \in [type: {"SUM", "AVG"}, hidden: {FALSE}]
       /\ found \in {{"union", "members"}, {"union"}, {}}
       /\ raw \in Tabled

ViewsNext ==
  \/ /\ scene = "select" /\ edits < MaxTicks
     /\ \E n \in DOMAIN targetTree : Toggle(n)
     /\ UNCHANGED <<scene, asked, Tables>>
  \/ scene = "store" /\ StoreNext /\ UNCHANGED <<scene, asked, Tables>>
  \/ /\ scene = "table" /\ Len(asked) < MaxRows
     /\ \E t \in Askable \ ToSet(asked) : asked' = Append(asked, t)
     /\ UNCHANGED <<scene, Tables, svars>>

ViewsSpec == ViewsInit /\ [][ViewsNext]_mvars /\ StoreFairness
-----------------------------------------------------------------------------
(* Selections and tables                                                   *)

\* What a target stands for.
Units(t) == IF t.univs # {} THEN {<<u>> : u \in t.univs} ELSE IF t.depts # {} THEN t.depts ELSE {t.key}

UnitsOf(targets) == UNION {Units(t) : t \in targets}

\* Folding a selection into averages loses no university and no department and
\* counts none twice, and folding what is folded, as the server does once more,
\* changes nothing (collapsePivotTargets, collapseSelectedTargets).  The college
\* as a whole and its departments are units of different kinds.  Only a caller of
\* POST /pivot can ask for folding (hierarchyIntegrate): no screen switches it on.
CollapseKeepsUnits ==
  LET rows == Collapse(wish.targets, targetTree, TRUE) IN
  scene = "select" =>
    /\ UnitsOf(ToSet(rows)) = UnitsOf(ToSet(wish.targets))
    /\ \A i, j \in DOMAIN rows : i # j => Units(rows[i]) \cap Units(rows[j]) = {}
    /\ ToSet(Collapse(rows, targetTree, TRUE)) = ToSet(rows)

Alone(t, y) == ValueOf(<<t>>, SchoolYears, t, y)

\* The rows of a query do not depend on each other though they share buckets: a
\* target has the value it has when asked for alone, and an average is that of
\* the values its members have when asked for alone (PivotService.pivot).  While
\* the union of departments cannot be read, members that can are not all counted.
RowsTellUnits ==
  scene = "table" /\ ("union" \in found \/ "members" \notin found) =>
    \A t \in ToSet(asked) : \A y \in SchoolYears :
      LET v == ValueOf(asked, SchoolYears, t, y)
      IN /\ v = Alone(t, y)
         /\ IsUnivGroup(t) => v = Mean(Known(LAMBDA u : Alone(Single(u, NULL), y), t.univs))
         /\ IsDeptGroup(t) /\ MembersIn(t, y) # {} =>
              v = Mean(Known(LAMBDA d : Alone(Single(d[1], d[2]), y), MembersIn(t, y)))

\* On the scale of a year the rows stand in the order of their values, equal
\* ones in the same place, between 0 and 100 (toRelativePosition).
ScaleKeepsOrder ==
  scene = "table" =>
    LET rows == Pivot(Append(asked, Single(u2, NULL)), SchoolYears)
        scales == BuildRelativeScales(rows, SchoolYears)
    IN \A y \in DOMAIN scales : \A r, q \in Scored(rows, y) :
         /\ scales[y].at[r.key] \in 0..100 * scales[y].unit
         /\ r.values[y] <= q.values[y] <=> scales[y].at[r.key] <= scales[y].at[q.key]

\* The two together: a table can be read row by row, and so can the scale beside it.
TablesTellUnits == RowsTellUnits /\ ScaleKeepsOrder

-----------------------------------------------------------------------------
(* Queries over each other                                                 *)

\* On the public screen the comparison always is of the table next to it, however
\* queries, presets and resets overlap (fetchPivot).
RelativeOfPivot ==
  scope = "disclosure" /\ relative # NULL =>
    /\ pivot # NULL /\ relative.metrics = pivot.metrics /\ relative.years = pivot.years
    /\ {<<u>> : u \in relative.univs} = UnitsOf(pivot.targets)

\* The screen does not stay "loading": a query that began ends, whatever fails.
SpinnerEnds == loading ~> ~loading
=============================================================================
