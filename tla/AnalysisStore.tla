---------------------------- MODULE AnalysisStore ----------------------------
(***************************************************************************)
(* One analysis screen in a browser (useDashboardStore.ts and the filter   *)
(* controls): the conditions the user sets, the presets, and the queries,  *)
(* of which several may be on their way.  A query is cut where it awaits:  *)
(* the tree, the table, the relative comparison.  The server answers each  *)
(* call in its own time, or it fails.  An answer is known by its question. *)
(***************************************************************************)
EXTENDS RelativeScale, Sublists

CONSTANTS MetricIds,
          Boxes,        \* the nodes whose boxes the user ticks
          Calls,        \* calls on their way at a time
          MaxEdits,     \* changes of the conditions
          MaxQueries    \* queries, presets loaded and trees reloaded

VARIABLES place,     \* place[u]: type of school, region and city of u, fixed
          scope,     \* "disclosure" or "internal", fixed
          wish,      \* the conditions: targets, metrics, years, expand
          pivot,     \* the question whose answer the table shows, or NULL
          relative,  \* the one whose answer the relative comparison shows, or NULL
          loading,
          call,      \* call[c]: what a call on its way will do, or NULL
          preset,    \* the conditions saved, or NULL
          edits, queries

svars == <<targetTree, place, scope, wish, pivot, relative, loading, call, preset, edits, queries>>

Free(c) == call[c] = NULL /\ \A d \in Calls : d < c => call[d] # NULL

\* The tree of a screen for the years: the organisation of the last of them.
Served(sc, ys) ==
  IF sc = "disclosure" THEN PublicTree(place)
  ELSE LET inYear(y) == UNION {offices[y][s] : s \in CollegeSeries}
       IN InternalTree(offices[Max(IF ys = {} THEN SchoolYears ELSE ys)],
                       IF Cardinality(ys) > 1 THEN UNION {inYear(y) : y \in ys} ELSE {})

\* The table of a query that asks for nothing.
Blank == [targets |-> {}, metrics |-> {}, years |-> {}]

\* The screen with its tree, and the metrics ms if the user chose them first.
StoreInit(ms) ==
  /\ scope \in {"disclosure", "internal"} /\ targetTree = Served(scope, SchoolYears)
  /\ wish = [targets |-> <<>>, metrics |-> ms, years |-> SchoolYears, expand |-> {}]
  /\ pivot = NULL /\ relative = NULL /\ loading = FALSE
  /\ call = [c \in Calls |-> NULL] /\ preset = NULL
  /\ edits = 0 /\ queries = 0

-----------------------------------------------------------------------------
(* Conditions                                                              *)

Change == edits < MaxEdits /\ edits' = edits + 1

Unticked(targets, keys) == Sublist(targets, {i \in 1..Len(targets) : targets[i].key \notin keys})

\* A tick on a node: its target comes or goes, and with a group all below it goes.
Toggle(n) ==
  LET t == BuildGroup(targetTree, n)
      rest == Unticked(wish.targets, DescendantKeys(targetTree, n) \cup {t.key})
  IN /\ Change /\ n \in DOMAIN targetTree /\ t # NULL
     /\ wish' = [wish EXCEPT !.targets = IF t.key \in SelectionKeys(wish.targets) THEN rest
                                         ELSE Append(rest, t)]
     /\ UNCHANGED <<targetTree, place, scope, pivot, relative, loading, call, preset, queries>>

ToggleMetric(m) ==
  /\ Change
  /\ wish' = [wish EXCEPT !.metrics = SymDiff(@, {m})]
  /\ UNCHANGED <<targetTree, place, scope, pivot, relative, loading, call, preset, queries>>

\* The catalogue opened: what is hidden in it by now is no longer chosen.
SyncMetricCatalog(visible) ==
  /\ Change /\ ~(wish.metrics \subseteq visible)
  /\ wish' = [wish EXCEPT !.metrics = @ \cap visible]
  /\ UNCHANGED <<targetTree, place, scope, pivot, relative, loading, call, preset, queries>>

ResetSelections ==
  /\ Change /\ (wish.targets # <<>> \/ wish.metrics # {})
  /\ wish' = [wish EXCEPT !.targets = <<>>, !.metrics = {}]
  /\ pivot' = NULL /\ relative' = NULL
  /\ UNCHANGED <<targetTree, place, scope, loading, call, preset, queries>>

\* Other years: the tree is asked for again, and no earlier request is given up.
SetYears(ys, c) ==
  /\ Change /\ ys # wish.years /\ Free(c) /\ queries < MaxQueries
  /\ wish' = [wish EXCEPT !.years = ys]
  /\ call' = [call EXCEPT ![c] = [at |-> "load", years |-> ys]]
  /\ queries' = queries + 1
  /\ UNCHANGED <<targetTree, place, scope, pivot, relative, loading, preset>>

TreeLoaded(c, ok) ==
  /\ call[c] # NULL /\ call[c].at = "load"
  /\ targetTree' = IF ok THEN Served(scope, call[c].years) ELSE <<>>
  /\ call' = [call EXCEPT ![c] = NULL]
  /\ UNCHANGED <<place, scope, wish, pivot, relative, loading, preset, edits, queries>>

SavePreset ==
  /\ Change /\ preset' = wish
  /\ UNCHANGED <<targetTree, place, scope, wish, pivot, relative, loading, call, queries>>

-----------------------------------------------------------------------------
(* A query                                                                 *)

Question(targets, w) == [targets |-> ToSet(targets), metrics |-> w.metrics, years |-> w.years]

Expanding(w) == scope = "internal" /\ w.expand # {}

Idle(w) == (w.targets = <<>> /\ ~Expanding(w)) \/ w.metrics = {} \/ w.years = {}

\* With the tree at hand the table is asked for, and the targets chosen become
\* those the query began with: a tick made since then is lost.  No screen switches
\* the folding of targets into averages on, nor does a preset.
AskTable(c, w, t, now) ==
  LET collapsed == Collapse(w.targets, t, FALSE)
      chart == IF collapsed # <<>> THEN collapsed ELSE AsSeq(CollectYeonsungUnivTarget(t))
  IN IF chart = <<>>
     THEN /\ pivot' = Blank /\ relative' = NULL /\ wish' = now
          /\ call' = [call EXCEPT ![c] = NULL]
          /\ UNCHANGED loading
     ELSE /\ loading' = TRUE /\ relative' = NULL
          /\ wish' = [now EXCEPT !.targets = collapsed]
          /\ call' = [call EXCEPT ![c] = [at |-> "pivot", ask |-> Question(chart, w),
                                          shown |-> collapsed, wish |-> w]]
          /\ UNCHANGED pivot

\* fetchPivot() with the conditions w, those of the store by then.  The public
\* tree is on screen as a rule; the internal one is asked for every time.
Fetch(c, w) ==
  /\ Free(c) /\ queries < MaxQueries /\ queries' = queries + 1
  /\ IF Idle(w)
     THEN pivot' = Blank /\ relative' = NULL /\ wish' = w /\ UNCHANGED <<loading, call>>
     ELSE IF scope = "internal" \/ DOMAIN targetTree = {}
     THEN /\ call' = [call EXCEPT ![c] = [at |-> "tree", wish |-> w]]
          /\ wish' = w
          /\ UNCHANGED <<pivot, relative, loading>>
     ELSE AskTable(c, w, targetTree, w)
  /\ UNCHANGED <<targetTree, place, scope, preset, edits>>

\* The button: not while a query is loading, nor without metrics and targets.
FetchPivot(c) ==
  /\ ~loading /\ wish.metrics # {} /\ (wish.targets # <<>> \/ Expanding(wish))
  /\ Fetch(c, wish)

\* A preset sets the conditions and queries at once, loading or not.
LoadPreset(c) == preset # NULL /\ Fetch(c, preset)

TreeForQuery(c, ok) ==
  /\ call[c] # NULL /\ call[c].at = "tree"
  /\ LET w == call[c].wish
         data == IF ok THEN Served(scope, w.years) ELSE <<>>
     IN /\ targetTree' = IF ok THEN data ELSE targetTree
        /\ AskTable(c, w, data, wish)
  /\ UNCHANGED <<place, scope, preset, edits, queries>>

Done(c) == call' = [call EXCEPT ![c] = NULL]

-----------------------------------------------------------------------------
(* The relative comparison inside the college                              *)

\* fetchInternalRelativeScales() in a call c: what it reads, it reads here; own
\* says whether it is the tail of a query, which then stops loading.
BeginRelative(c, own, w) ==
  IF w.metrics = {} \/ w.years = {}
  THEN relative' = NULL /\ Done(c) /\ loading' = (loading /\ ~own)
  ELSE /\ call' = [call EXCEPT ![c] = [at |-> "relTree", own |-> own, wish |-> w, targetTree |-> targetTree]]
       /\ UNCHANGED <<relative, loading>>

RelativeTree(c, ok) ==
  /\ call[c] # NULL /\ call[c].at = "relTree"
  /\ LET k == call[c]
         t == IF ok THEN Served(scope, k.wish.years) ELSE k.targetTree
         targets == CollectInternalRelativeTargets(t, k.wish.targets, k.wish.expand)
     IN /\ targetTree' = IF ok THEN t ELSE targetTree
        /\ IF targets = {}
           THEN relative' = NULL /\ Done(c) /\ loading' = (loading /\ ~k.own)
           ELSE /\ call' = [call EXCEPT ![c] =
                              [at |-> "relPivot", own |-> k.own,
                               ask |-> [targets |-> targets, metrics |-> k.wish.metrics,
                                        years |-> k.wish.years]]]
                /\ UNCHANGED <<relative, loading>>
  /\ UNCHANGED <<place, scope, wish, pivot, preset, edits, queries>>

RelativeTable(c, ok) ==
  /\ call[c] # NULL /\ call[c].at = "relPivot"
  /\ relative' = IF ok THEN call[c].ask ELSE NULL
  /\ loading' = (loading /\ ~call[c].own)
  /\ Done(c)
  /\ UNCHANGED <<targetTree, place, scope, wish, pivot, preset, edits, queries>>

\* A switch of the comparison, which is drawn anew if there is a table.
SetRelativeExpand(o, c) ==
  LET w == [wish EXCEPT !.expand = SymDiff(@, {o})] IN
  /\ Change /\ scope = "internal" /\ wish' = w
  /\ IF pivot = NULL THEN UNCHANGED <<relative, loading, call, queries>>
     ELSE /\ Free(c) /\ queries < MaxQueries /\ queries' = queries + 1
          /\ BeginRelative(c, FALSE, w)
  /\ UNCHANGED <<targetTree, place, scope, pivot, preset>>

-----------------------------------------------------------------------------
(* The table of a query arrives                                            *)

Show(c, k) == pivot' = k.ask /\ relative' = NULL /\ loading' = FALSE /\ Done(c)

\* On the public screen the table waits for the comparison: both are shown at
\* once.  Inside the college the table comes first.
TableAnswered(c) ==
  /\ call[c] # NULL /\ call[c].at = "pivot"
  /\ LET k == call[c] IN
     IF scope = "internal" THEN pivot' = k.ask /\ BeginRelative(c, TRUE, wish)
     ELSE IF ShouldShowRelativeCompare(k.shown)
     THEN /\ call' = [call EXCEPT ![c] = [k EXCEPT !.at = "relative"]]
          /\ UNCHANGED <<pivot, relative, loading>>
     ELSE Show(c, k)
  /\ UNCHANGED <<targetTree, place, scope, wish, preset, edits, queries>>

Compared(k) == [univs |-> CollectUnivLevelCodes(k.shown), metrics |-> k.wish.metrics,
                years |-> k.wish.years]

Slip_RelativeAnswered(c, ok) ==
  /\ call[c] # NULL /\ call[c].at = "relative"
  /\ relative' = IF ok THEN Compared(call[c]) ELSE NULL
  /\ loading' = FALSE /\ Done(c)
  /\ UNCHANGED <<targetTree, place, scope, wish, pivot, preset, edits, queries>>

RelativeAnswered(c, ok) ==
  /\ call[c] # NULL /\ call[c].at = "relative"
  /\ pivot' = call[c].ask
  /\ relative' = IF ok THEN Compared(call[c]) ELSE NULL
  /\ loading' = FALSE /\ Done(c)
  /\ UNCHANGED <<targetTree, place, scope, wish, preset, edits, queries>>

Slip_TableFails(c) ==
  /\ call[c] # NULL /\ call[c].at = "pivot"
  /\ Done(c)
  /\ UNCHANGED <<targetTree, place, scope, wish, pivot, relative, loading, preset, edits, queries>>

\* The query fails: what is on screen stays, and loading ends.
TableFails(c) ==
  /\ call[c] # NULL /\ call[c].at = "pivot"
  /\ loading' = FALSE /\ Done(c)
  /\ UNCHANGED <<targetTree, place, scope, wish, pivot, relative, preset, edits, queries>>

Answer(c) ==
  \/ \E ok \in BOOLEAN : \/ TreeLoaded(c, ok) \/ TreeForQuery(c, ok) \/ RelativeTree(c, ok)
                         \/ RelativeTable(c, ok) \/ RelativeAnswered(c, ok)
  \/ TableAnswered(c) \/ TableFails(c)

StoreNext ==
  \/ \E n \in Boxes : Toggle(n)
  \/ \E m \in MetricIds : ToggleMetric(m)
  \/ \E visible \in SUBSET MetricIds : SyncMetricCatalog(visible)
  \/ ResetSelections \/ SavePreset
  \/ \E c \in Calls : \/ \E ys \in SUBSET SchoolYears : SetYears(ys, c)
                      \/ \E o \in {"allSeries", "allDepts"} : SetRelativeExpand(o, c)
                      \/ FetchPivot(c) \/ LoadPreset(c) \/ Answer(c)

\* The server answers every call, or it fails: axios has its own end of it.
StoreFairness == \A c \in Calls : WF_svars(Answer(c))
=============================================================================
