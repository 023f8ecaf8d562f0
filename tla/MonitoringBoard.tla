--------------------------- MODULE MonitoringBoard ---------------------------
(***************************************************************************)
(* The board of the university's key figures (fetchMonitoringData.ts and   *)
(* what it calls): how a figure is put together from uploaded values, from *)
(* disclosed ones and from the formula of its metric, for the university   *)
(* and for each department, where it is said to come from, and the bars    *)
(* that compare departments.                                               *)
(*                                                                         *)
(* The values of a metric in a year are a function of units: departments   *)
(* and the university as a whole, All.                                     *)
(***************************************************************************)
EXTENDS FormulaRow, Integers, Sequences, FiniteSetsExt, Functions

CONSTANTS
  Years,
  SeriesOf,   \* the departments of the organisation, each with its series
  OtherUnits, \* departments with values that are not in the organisation
  Figures,    \* root metrics of the board, each with its [kind, code]
  Parts,      \* ids of the metrics a figure is made of: [figure -> [part -> sequence]]
  LinkTo,     \* the disclosed metric linked to a code: [code -> metric]
  MetricsOf(_),     \* the metrics a formula refers to,
  Computed(_, _),   \* its value, a fraction or NULL, where they have these values,
  TermsOf(_),       \* and its terms and constant if it only adds and subtracts
  Uploads,    \* values uploaded while the board is fetched: [metric, unit, year, value]
  Hideable    \* metrics an administrator hides meanwhile

VARIABLES
  uploaded, \* uploaded values: [<<metric, unit, year>> -> number or NULL]
  hidden,   \* metrics hidden by an administrator
  bundle,   \* what the screen has fetched
  toggles,  \* parts of figures that are switched off
  year,     \* selectedYear
  marks     \* the values of a list of bars, which stays

boardVars == <<uploaded, hidden, bundle, toggles, year, marks>>

All == "_ALL_"
LinkedMetrics == {LinkTo[c] : c \in DOMAIN LinkTo}
Enrolled == {"inner", "outer"}

Numbers(f) == \A x \in DOMAIN f : f[x] \in Int \cup {NULL}

\* The disclosed metrics are no parts of a figure, and there is none for the number of
\* those enrolled within, or beyond, the quota alone (MONITORING_ALIMI_LINKS has the
\* total and those on leave).
ASSUME BoardAssumption ==
  /\ NULL \notin Int /\ NULL \notin {"ALIMI", "MONITORING", "MIXED"}
  /\ Years \subseteq Nat /\ IsFiniteSet(Years)
  /\ All \notin DOMAIN SeriesOf \cup OtherUnits
  /\ IsFiniteSet(DOMAIN SeriesOf) /\ IsFiniteSet(OtherUnits)
  /\ \A k \in DOMAIN Figures : Figures[k].kind = "students" =>
       /\ IsFiniteSet(DOMAIN Parts[k])
       /\ \A p \in DOMAIN Parts[k] : \A i \in DOMAIN Parts[k][p] : Parts[k][p][i] \notin LinkedMetrics
       /\ \A p \in Enrolled : Append(Figures[k].code, p) \notin DOMAIN LinkTo
  /\ \A x \in Uploads : x.value \in Int \cup {NULL} /\ x.year \in Years

OrgDepts == DOMAIN SeriesOf
Units == OrgDepts \cup {All}

SumOf(f) == SumFunctionOnSet(f, {x \in DOMAIN f : f[x] # NULL})

\* A sum of what there is, nothing of nothing (sumYearMaps).
SumKnown(f) == IF \A x \in DOMAIN f : f[x] = NULL THEN NULL ELSE SumOf(f)

-----------------------------------------------------------------------------
(* Rows                                                                    *)

Cell(table, m, u, y) == IF <<m, u, y>> \in DOMAIN table THEN table[<<m, u, y>>] ELSE NULL

HasDeptLevel(table, m, y) == \E d \in OrgDepts \cup OtherUnits : <<m, d, y>> \in DOMAIN table

\* The row of the pivot query: the university without a value gets the sum of
\* its departments, departments without values that of the university.
PivotRow(table, m, y) ==
  [u \in Units |->
     IF u = All
     THEN IF Cell(table, m, All, y) # NULL THEN Cell(table, m, All, y)
          ELSE SumKnown([d \in OrgDepts \cup OtherUnits |-> Cell(table, m, d, y)])
     ELSE IF HasDeptLevel(table, m, y) THEN Cell(table, m, u, y) ELSE Cell(table, m, All, y)]

\* extractHierarchy(): of several metrics, for each unit the first with a row.
ExtractHierarchy(table, ids, y) ==
  [u \in Units |->
     LET with == {i \in DOMAIN ids : \E x \in Years : PivotRow(table, ids[i], x)[u] # NULL}
     IN IF with = {} THEN NULL ELSE PivotRow(table, ids[Min(with)], y)[u]]

Nothing == [u \in Units |-> NULL]

Official(b, code, y) ==
  IF code \in DOMAIN b.links THEN ExtractHierarchy(b.table, <<b.links[code]>>, y) ELSE Nothing

\* preferOfficialUniversity(): for the university only.
PreferOfficialUniversity(values, official) ==
  IF official[All] = NULL THEN values ELSE [values EXCEPT ![All] = official[All]]

FillFromDepts(values) ==
  IF values[All] # NULL THEN values ELSE [values EXCEPT ![All] = SumKnown([d \in OrgDepts |-> values[d]])]

-----------------------------------------------------------------------------
(* Figures                                                                 *)

Part(b, k, p, y) == ExtractHierarchy(b.table, Parts[k][p], y)
OnParts(k) == {p \in DOMAIN Parts[k] : <<k, p>> \notin toggles}

DirectValues(b, k, y) == PreferOfficialUniversity(Part(b, k, "own", y), Official(b, Figures[k].code, y))

\* The number of students: of the parts that are switched on.
StudentPart(b, k, p, y) == PreferOfficialUniversity(Part(b, k, p, y), Official(b, Append(Figures[k].code, p), y))

\* preferOfficialStudentTotal(): the disclosed number is that of both.
StudentValues(b, k, y) ==
  LET sums == FillFromDepts([u \in Units |-> SumKnown([p \in OnParts(k) |-> StudentPart(b, k, p, y)[u]])])
      disclosed == Official(b, Figures[k].code, y)[All]
  IN IF ~(Enrolled \subseteq OnParts(k)) \/ disclosed = NULL THEN sums
     ELSE [sums EXCEPT ![All] = disclosed + SumOf([p \in OnParts(k) \ Enrolled |-> StudentPart(b, k, p, y)[All]])]

\* composeAccountingHierarchy(): income or expense.
AccountingValues(b, k, side, y) ==
  [u \in Units |-> SumKnown([i \in DOMAIN Parts[k][side] |->
                              ExtractHierarchy(b.table, Parts[k][side][i], y)[u]])]

\* composeFormulaHierarchy(): the formula where it gives a value, or else what
\* is uploaded for the metric itself.
FormulaValue(b, k, u, y) ==
  LET value == [m \in MetricsOf(b.formula) |-> ExtractHierarchy(b.table, <<m>>, y)[u]]
      result == Computed(b.formula, value)
  IN IF result # NULL THEN result.n \div result.d ELSE Part(b, k, "own", y)[u]

\* composeAdditiveHierarchy(): of the terms that are switched on.
OnTerms(b, k) == {m \in DOMAIN TermsOf(b.formula).terms : <<k, m>> \notin toggles}

Slip_AdditiveValues(b, k, y) ==
  LET form == TermsOf(b.formula)
      at(m, u) == IF m \in DOMAIN b.label THEN ExtractHierarchy(b.table, <<m>>, y)[u] ELSE NULL
  IN FillFromDepts(
       [u \in Units |-> IF form.constant = 0 /\ \A m \in OnTerms(b, k) : at(m, u) = NULL THEN NULL
                        ELSE form.constant + SumOf([m \in OnTerms(b, k) |-> at(m, u)])])

AdditiveValues(b, k, y) ==
  LET form == TermsOf(b.formula)
      at(m, u) == IF m \in DOMAIN b.label THEN ExtractHierarchy(b.table, <<m>>, y)[u] ELSE NULL
  IN FillFromDepts(
       [u \in Units |-> IF form.constant = 0 /\ \A m \in OnTerms(b, k) : at(m, u) = NULL THEN NULL
                        ELSE form.constant + SumOf([m \in OnTerms(b, k) |->
                                                 IF at(m, u) = NULL THEN NULL ELSE form.terms[m] * at(m, u)])])

AllTermsOn(b, k) == TermsOf(b.formula) # NULL => OnTerms(b, k) = DOMAIN TermsOf(b.formula).terms

FormulaValues(b, k, y) ==
  LET computed == IF TermsOf(b.formula) # NULL THEN AdditiveValues(b, k, y)
                  ELSE [u \in Units |-> FormulaValue(b, k, u, y)]
  IN IF AllTermsOn(b, k) THEN PreferOfficialUniversity(computed, Official(b, Figures[k].code, y)) ELSE computed

\* A metric with its formula switched on is shown by the formula.
UsesFormula(b, k) == Figures[k].kind = "formula" /\ b.on /\ b.formula # NULL

FigureValues(b, k, y) ==
  CASE Figures[k].kind = "students" -> StudentValues(b, k, y)
    [] Figures[k].kind = "accounting" -> AccountingValues(b, k, "income", y)
    [] UsesFormula(b, k) -> FormulaValues(b, k, y)
    [] OTHER -> DirectValues(b, k, y)

-----------------------------------------------------------------------------
(* Where the university's value comes from                                 *)

ValueSourceAt(value, official) ==
  IF value = NULL THEN NULL ELSE IF official # NULL THEN "ALIMI" ELSE "MONITORING"

PartSource(b, k, p, y) ==
  ValueSourceAt(StudentPart(b, k, p, y)[All], Official(b, Append(Figures[k].code, p), y)[All])

Slip_StudentSource(b, k, y) ==
  LET sources == (IF Enrolled \cap OnParts(k) = {} THEN {}
                  ELSE IF Official(b, Figures[k].code, y)[All] # NULL THEN {"ALIMI"} ELSE {"MONITORING"})
                 \cup {PartSource(b, k, p, y) : p \in OnParts(k) \ Enrolled}
  IN IF StudentValues(b, k, y)[All] = NULL THEN NULL
     ELSE IF {"ALIMI", "MONITORING"} \subseteq sources THEN "MIXED"
     ELSE IF "ALIMI" \in sources THEN "ALIMI" ELSE "MONITORING"

\* studentValueSourceAt()
StudentSource(b, k, y) ==
  LET sources == (IF Enrolled \cap OnParts(k) = {} THEN {}
                  ELSE IF Enrolled \subseteq OnParts(k) /\ Official(b, Figures[k].code, y)[All] # NULL
                       THEN {"ALIMI"} ELSE {"MONITORING"})
                 \cup {PartSource(b, k, p, y) : p \in OnParts(k) \ Enrolled}
  IN IF StudentValues(b, k, y)[All] = NULL THEN NULL
     ELSE IF {"ALIMI", "MONITORING"} \subseteq sources THEN "MIXED"
     ELSE IF "ALIMI" \in sources THEN "ALIMI" ELSE "MONITORING"

ValueSource(b, k, y) ==
  CASE Figures[k].kind = "students" -> StudentSource(b, k, y)
    [] Figures[k].kind = "accounting" ->
         IF \A side \in {"income", "expense"} : AccountingValues(b, k, side, y)[All] = NULL
         THEN NULL ELSE "MONITORING"
    [] OTHER ->
         ValueSourceAt(FigureValues(b, k, y)[All],
                       IF UsesFormula(b, k) /\ ~AllTermsOn(b, k) THEN NULL ELSE Official(b, Figures[k].code, y)[All])

-----------------------------------------------------------------------------
(* Comparing departments                                                   *)

\* isUnivBroadcastYear(): departments that all have the university's value.
IsUnivBroadcastYear(values) ==
  LET present == {d \in OrgDepts : values[d] # NULL}
  IN /\ present # {}
     /\ IF values[All] # NULL THEN \A d \in present : values[d] = values[All]
        ELSE /\ Cardinality(OrgDepts) > 1 /\ present = OrgDepts
             /\ Cardinality({values[d] : d \in OrgDepts}) = 1

Slip_HasHierarchyData(values) == \E d \in OrgDepts : values[d] # NULL

HasHierarchyData(values) == ~IsUnivBroadcastYear(values) /\ \E d \in OrgDepts : values[d] # NULL

\* A bar for each series and each department with a value; the figures of the
\* board are summed over a series.
CompareRows(values) ==
  {r \in {<<"series", s, SumKnown([d \in {x \in OrgDepts : SeriesOf[x] = s} |-> values[d]])>> :
             s \in {SeriesOf[d] : d \in OrgDepts}}
          \cup {<<"dept", d, values[d]>> : d \in OrgDepts} : r[3] # NULL}

BuildCompareRows(values) == IF HasHierarchyData(values) THEN CompareRows(values) ELSE {}

\* The bars of the screen; accounting has two charts.
Bars(b, k, y) ==
  IF Figures[k].kind = "accounting"
  THEN UNION {{<<side, r>> : r \in BuildCompareRows(AccountingValues(b, k, side, y))} : side \in {"income", "expense"}}
  ELSE {<<"own", r>> : r \in BuildCompareRows(FigureValues(b, k, y))}

Slip_AssignHighlightBands(value, highIsGood) ==
  LET valid == {i \in DOMAIN value : value[i] # NULL}
      k == Cardinality(valid) \div 10
      high(i) == Cardinality({j \in valid : value[j] > value[i]}) < k
      low(i) == Cardinality({j \in valid : value[j] < value[i]}) < k
  IN [i \in DOMAIN value |->
        IF i \notin valid \/ k = 0 \/ Cardinality({value[j] : j \in valid}) = 1 THEN "none"
        ELSE IF high(i) THEN IF highIsGood THEN "top" ELSE "bottom"
        ELSE IF low(i) THEN IF highIsGood THEN "bottom" ELSE "top"
        ELSE "none"]

\* assignHighlightBands(): the best and the worst tenth; values that tie over
\* its border are left out.
AssignHighlightBands(value, highIsGood) ==
  LET valid == {i \in DOMAIN value : value[i] # NULL}
      k == Cardinality(valid) \div 10
      high(i) == Cardinality({j \in valid : value[j] >= value[i]}) <= k
      low(i) == Cardinality({j \in valid : value[j] <= value[i]}) <= k
  IN [i \in DOMAIN value |->
        IF i \notin valid \/ k = 0 \/ Cardinality({value[j] : j \in valid}) = 1 THEN "none"
        ELSE IF high(i) THEN IF highIsGood THEN "top" ELSE "bottom"
        ELSE IF low(i) THEN IF highIsGood THEN "bottom" ELSE "top"
        ELSE "none"]

-----------------------------------------------------------------------------
(* The screen                                                              *)

\* Students on leave and those who put off their degree are not counted at first.
OffAtFirst == {k \in DOMAIN Figures : Figures[k].kind = "students"} \X {"leave", "deferred"}

BoardInit ==
  /\ Numbers(uploaded) /\ \A c \in DOMAIN uploaded : c[3] \in Years
  /\ hidden = {} /\ bundle = NULL /\ toggles = OffAtFirst /\ year \in Years
  /\ marks \in Seq(Int \cup {NULL})

AvailableYears == {c[3] : c \in DOMAIN uploaded}

\* fetchMonitoringBundle(): the tree of metrics without the hidden ones, the links
\* and the years are read together, the values later.
FetchTree ==
  /\ bundle = NULL
  /\ bundle' = [label |-> [m \in DOMAIN label \ hidden |-> label[m]], formula |-> formula, on |-> on,
                links |-> LinkTo, years |-> AvailableYears, hidden |-> hidden, table |-> NULL]
  /\ UNCHANGED <<uploaded, hidden, toggles, year, marks>>

\* The screen goes to the latest year if there is nothing for the one it is on.
FetchPivot ==
  /\ bundle # NULL /\ bundle.table = NULL
  /\ bundle' = [bundle EXCEPT !.table =
                 [c \in {x \in DOMAIN uploaded : x[1] \notin bundle.hidden \cup hidden} |-> uploaded[c]]]
  /\ year' = IF year \in bundle.years \/ bundle.years = {} THEN year ELSE Max(bundle.years)
  /\ UNCHANGED <<uploaded, hidden, toggles, marks>>

FetchFails ==
  /\ bundle # NULL /\ bundle.table = NULL /\ bundle' = NULL
  /\ UNCHANGED <<uploaded, hidden, toggles, year, marks>>

Ready == bundle # NULL /\ bundle.table # NULL

\* The switches of a figure.
Switchable(k) == IF Figures[k].kind = "students" THEN DOMAIN Parts[k]
                 ELSE IF UsesFormula(bundle, k) /\ TermsOf(bundle.formula) # NULL
                 THEN DOMAIN TermsOf(bundle.formula).terms ELSE {}

OnComponentToggle(k, p) ==
  /\ Ready /\ p \in Switchable(k)
  /\ toggles' = IF <<k, p>> \in toggles THEN toggles \ {<<k, p>>} ELSE toggles \cup {<<k, p>>}
  /\ UNCHANGED <<uploaded, hidden, bundle, year, marks>>

SelectYear(y) ==
  Ready /\ y \in bundle.years /\ year' = y /\ UNCHANGED <<uploaded, hidden, bundle, toggles, marks>>

\* An administrator hides a metric or shows it again.
Hide(m) ==
  /\ ~Ready
  /\ hidden' = IF m \in hidden THEN hidden \ {m} ELSE hidden \cup {m}
  /\ UNCHANGED <<uploaded, bundle, toggles, year, marks>>

\* Values uploaded while the board is being fetched.
UploadValue(m, u, y, v) ==
  /\ ~Ready
  /\ uploaded' = [c \in DOMAIN uploaded \cup {<<m, u, y>>} |-> IF c = <<m, u, y>> THEN v ELSE uploaded[c]]
  /\ UNCHANGED <<hidden, bundle, toggles, year, marks>>

BoardNext ==
  \/ FetchTree \/ FetchPivot \/ FetchFails
  \/ \E k \in DOMAIN Figures : Ready /\ \E p \in Switchable(k) : OnComponentToggle(k, p)
  \/ \E y \in Years : SelectYear(y)
  \/ \E x \in Uploads : UploadValue(x.metric, x.unit, x.year, x.value)
  \/ \E m \in Hideable : Hide(m)

BoardSpec == BoardInit /\ [][BoardNext]_boardVars

-----------------------------------------------------------------------------

\* A bundle in which some cells have no values.
Lacking(b, cells) == [b EXCEPT !.table = [c \in DOMAIN b.table \ cells |-> b.table[c]]]
Disclosed(b) == {c \in DOMAIN b.table : c[1] \in LinkedMetrics}

\* The label at the university's value is true: a value said to be uploaded is
\* the one without disclosed values, one said to be disclosed the one without
\* uploaded values (valueSourceAt, studentValueSourceAt).
SourceTellsValue ==
  Ready => \A k \in DOMAIN Figures :
    LET from == [MONITORING |-> [bundle EXCEPT !.links = <<>>],
                 ALIMI |-> Lacking(bundle, DOMAIN bundle.table \ Disclosed(bundle))]
    IN \A s \in DOMAIN from \cap {ValueSource(bundle, k, year)} :
         FigureValues(from[s], k, year)[All] = FigureValues(bundle, k, year)[All]

UniversityCells(table) == {c \in DOMAIN table : c[2] = All}

\* A bar is of values uploaded for departments, never of one for the university
\* that stands in for them.
BarsAreReal(k) ==
  {r[2] : r \in Bars(bundle, k, year)} \subseteq
    UNION {CompareRows(v) : v \in
             LET rest == Lacking(bundle, UniversityCells(bundle.table))
             IN IF Figures[k].kind = "accounting"
                THEN {AccountingValues(rest, k, side, year) : side \in {"income", "expense"}}
                ELSE {FigureValues(rest, k, year)}}

\* That holds for a figure of one metric without a disclosed counterpart
\* (hasHierarchyData).
PlainBarsAreReal ==
  Ready => \A k \in DOMAIN Figures :
    Figures[k].kind = "direct" /\ Figures[k].code \notin DOMAIN LinkTo /\ DOMAIN Parts[k].own = {1} => BarsAreReal(k)

\* At most a tenth is marked as best and at most a tenth as worst, nothing
\* unmarked is better than the best, and equal values are marked alike
\* (assignHighlightBands).
BandsWithinTenth ==
  LET valid == {i \in DOMAIN marks : marks[i] # NULL}
      band == AssignHighlightBands(marks, TRUE)
      in(x) == {i \in DOMAIN marks : band[i] = x}
  IN /\ 10 * Cardinality(in("top")) <= Cardinality(valid) /\ 10 * Cardinality(in("bottom")) <= Cardinality(valid)
     /\ \A i, j \in valid : (band[i] = "top" /\ marks[j] >= marks[i]) => band[j] = "top"
     /\ \A i, j \in valid : (band[i] = "bottom" /\ marks[j] <= marks[i]) => band[j] = "bottom"
=============================================================================
