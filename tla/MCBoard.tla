------------------------------- MODULE MCBoard -------------------------------
(***************************************************************************)
(* The board on small instances, in scenes fixed in the first state:       *)
(* "type" types every formula of up to three levels, "dialog" edits few of *)
(* them while sub-metrics are renamed and moved, "bands" looks at the best *)
(* and worst tenth, and each of the others at one figure of the board with *)
(* every table of a few values.                                            *)
(***************************************************************************)
EXTENDS MonitoringBoard, MetricFormula, SequencesExt

CONSTANTS Scenes, a, b, own, old, inner, outer, leave, pay, fee, cost, open, total, away, score, d1, d2, d3, gone

VARIABLES scene, text, meant

mcvars == <<scene, text, meant, fvars, boardVars>>

Plain(w) == [word |-> w, spaced |-> FALSE, suffix |-> FALSE]
Labels == {Plain("A"), [word |-> "A", spaced |-> TRUE, suffix |-> FALSE], [word |-> "C", spaced |-> FALSE, suffix |-> TRUE]}

MCSeriesOf == d1 :> "S" @@ d2 :> "S" @@ d3 :> "T"

MCFigures == "direct" :> [kind |-> "direct", code |-> <<"foreign">>]
             @@ "plain" :> [kind |-> "direct", code |-> <<"startups">>]
             @@ "students" :> [kind |-> "students", code |-> <<"students">>]
             @@ "accounting" :> [kind |-> "accounting", code |-> <<"tuition">>]
             @@ "formula" :> [kind |-> "formula", code |-> <<"score">>]

MCParts == "direct" :> [own |-> <<own, old>>]
           @@ "plain" :> [own |-> <<own>>]
           @@ "students" :> [inner |-> <<inner>>, outer |-> <<outer>>, leave |-> <<leave>>, deferred |-> <<>>]
           @@ "accounting" :> [income |-> <<<<pay>>, <<fee>>>>, expense |-> <<<<cost>>>>]
           @@ "formula" :> [own |-> <<own>>]

MCUploads == {[metric |-> own, unit |-> u, year |-> y, value |-> IF u = All THEN NULL ELSE 6] :
                u \in {All, d1}, y \in Years}
MCHideable == {own}
MCMetricsOf(tokens) == Refs(ParseTokens(tokens))

MCLinkTo == <<"foreign">> :> open @@ <<"students">> :> total @@ <<"students", "leave">> :> away @@ <<"score">> :> score

-----------------------------------------------------------------------------
(* Formulas                                                                *)

Atoms == {<<"num", 2>>, <<"ref", a>>, <<"ref", b>>}
Level(S, T) == {<<s, x>> : s \in {"neg", "pos"}, x \in S} \cup {<<o, l, r>> : o \in {"+", "-", "*", "/"}, l \in S, r \in T}
Small == Atoms \cup Level(Atoms, Atoms)
Large == Small \cup Level(Small, Small)

\* A formula as it is typed, each part in parentheses.
RECURSIVE Typed(_, _)
Typed(ast, children) ==
  CASE ast[1] = "num" -> <<ast>>
    [] ast[1] = "ref" -> <<IF ast[2] \in DOMAIN children THEN Name(children[ast[2]]) ELSE ast>>
    [] ast[1] \in {"neg", "pos"} -> <<Op(IF ast[1] = "neg" THEN "-" ELSE "+")>> \o Paren(Typed(ast[2], children))
    [] OTHER -> Paren(Typed(ast[2], children)) \o <<Op(ast[1])>> \o Paren(Typed(ast[3], children))

\* What the stored text groups otherwise: a right operand of its own rank, and
\* whatever stands behind a plus sign in a product.
RECURSIVE Regrouped(_)
Regrouped(ast) ==
  \/ ast[1] = "-" /\ ast[3][1] \in {"+", "-", "pos"}
  \/ ast[1] = "/" /\ ast[3][1] \in {"*", "/", "pos"}
  \/ ast[1] \in {"*", "/"} /\ \E i \in {2, 3} : ast[i][1] = "pos"
  \/ ast[1] \notin {"num", "ref"} /\ \E i \in 2..Len(ast) : Regrouped(ast[i])

FewFormulas == {<<"+", <<"ref", a>>, <<"ref", b>>>>, <<"*", <<"-", <<"ref", a>>, <<"num", 2>>>>, <<"ref", b>>>>, <<"ref", a>>}

StoredFormulas ==
  {SerializeCanonical(x) : x \in FewFormulas
     \cup {<<"-", <<"ref", a>>, <<"ref", b>>>>, <<"+", <<"ref", a>>, <<"+", <<"ref", b>>, <<"num", 2>>>>>>,
           <<"-", <<"neg", <<"ref", a>>>>, <<"ref", b>>>>}}

-----------------------------------------------------------------------------
(* Tables                                                                  *)

Cells(k) ==
  CASE k = "direct" -> <<own, All>> :> 5 @@ <<own, d1>> :> 2 @@ <<own, d2>> :> 5 @@ <<old, All>> :> 7
                       @@ <<old, d1>> :> 5 @@ <<open, All>> :> 9
    [] k = "plain" -> <<own, All>> :> 5 @@ <<own, d1>> :> 5 @@ <<own, d2>> :> 5 @@ <<own, d3>> :> 2 @@ <<own, gone>> :> 4
    [] k = "students" -> <<inner, All>> :> 50 @@ <<inner, d1>> :> 20 @@ <<outer, All>> :> 5 @@ <<outer, d2>> :> 4
                         @@ <<leave, All>> :> 9 @@ <<leave, d1>> :> 3 @@ <<total, All>> :> 60 @@ <<away, All>> :> 8
    [] k = "accounting" -> <<pay, All>> :> 10 @@ <<pay, d1>> :> 4 @@ <<fee, All>> :> 6 @@ <<cost, All>> :> 7 @@ <<cost, d2>> :> 7
    [] OTHER -> <<a, All>> :> 10 @@ <<a, d1>> :> 4 @@ <<a, d2>> :> 6 @@ <<b, All>> :> 3 @@ <<b, d1>> :> 1
                @@ <<own, All>> :> 90 @@ <<own, d1>> :> 50 @@ <<score, All>> :> 80

Table(k, S) == [c \in {<<x[1], x[2], Max(Years)>> : x \in S} |-> Cells(k)[<<c[1], c[2]>>]]

Dialogs == {"type", "dialog"}
BoardScenes == {"direct", "plain", "students", "accounting", "formula"}

MCInit ==
  /\ scene \in Scenes /\ text = NULL /\ meant = NULL /\ dialog = NULL
  /\ label = (a :> Plain("A") @@ b :> Plain("B"))
  /\ uploaded \in IF scene \in BoardScenes THEN {Table(scene, S) : S \in SUBSET DOMAIN Cells(scene)} ELSE {<<>>}
  /\ formula \in IF scene = "formula" THEN StoredFormulas ELSE {NULL}
  /\ on = (formula # NULL)
  /\ marks \in IF scene = "bands" THEN {[i \in 1..n |-> IF i <= p THEN NULL ELSE IF i <= q THEN 1 ELSE IF i <= r THEN 2 ELSE 3] :
                                         <<n, p, q, r>> \in {t \in {9, 10, 19, 20} \X (0..2) \X (0..21) \X (0..21) :
                                                               t[2] <= t[3] /\ t[3] <= t[4] /\ t[4] <= t[1]}}
               ELSE {<<>>}
  /\ BoardInit

\* No name has a space, which is dropped, or belongs to two sub-metrics.
Legible(children) == \A m \in DOMAIN children : ~children[m].spaced /\ Exact(children[m], children) = {m}

MCType(ast) == Type(Typed(ast, dialog.children)) /\ text' = ast /\ UNCHANGED meant
Garble(s) == Type(s) /\ text' = NULL /\ UNCHANGED meant

MCSave ==
  /\ Save
  /\ text' = NULL
  /\ meant' = IF text # NULL /\ Legible(dialog.children) /\ ParseDisplayFormula(dialog.expression, dialog.children) # NULL
              THEN text ELSE IF ToSave = formula THEN meant ELSE NULL

DialogNext ==
  \/ (scene = "type" => meant = NULL) /\ OpenDialog /\ text' = NULL /\ UNCHANGED meant
  \/ (scene = "type" => text = NULL) /\ \E x \in IF scene = "type" THEN Large ELSE FewFormulas : MCType(x)
  \/ MCSave
  \/ scene = "dialog" /\ \E s \in {<<>>, <<Open, Name(Plain("A"))>>} : Garble(s)
  \/ scene = "dialog" /\ (Switch \/ Cancel) /\ UNCHANGED <<text, meant>>
  \/ scene = "dialog" /\ (\/ \E l \in Labels : Relabel(a, l)
                        \/ Relabel(pay, Plain("A"))) /\ UNCHANGED <<text, meant>>
  \/ scene = "dialog" /\ (\E m \in {a, b} : TakeAway(m)) /\ UNCHANGED <<text, meant>>

\* In a scene with one figure: its own switches; uploads and hiding only where the
\* figure is of one metric, and between the two answers.
OneFigure ==
  /\ \A x \in SymDiff(toggles, toggles') : x[1] = scene
  /\ (scene = "direct" /\ bundle # NULL) \/ UNCHANGED <<uploaded, hidden>>

MCNext ==
  /\ UNCHANGED scene
  /\ \/ scene \in Dialogs /\ DialogNext /\ UNCHANGED boardVars
     \/ scene \in BoardScenes /\ BoardNext /\ OneFigure /\ UNCHANGED <<text, meant, fvars>>

MCSpec == MCInit /\ [][MCNext]_mcvars
-----------------------------------------------------------------------------
Same(p, q) == (p = NULL) = (q = NULL) /\ (p # NULL /\ q # NULL => p.n * q.d = q.n * p.d)

\* What is stored has the value of what was typed, for all values of the
\* sub-metrics (parseDisplayFormula, evaluateFormula).
SavedMeansTyped ==
  meant # NULL => /\ formula # NULL
                  /\ LET stored == ParseTokens(formula) IN
                     \A value \in [Refs(meant) -> {NULL, 0, 3, 5}] :
                       Same(Evaluated(stored, value), Evaluated(meant, value))

\* That holds for a formula the stored text does not group otherwise, and to open
\* a formula and to save it as it is shown never changes it.
FormulaKept ==
  /\ meant # NULL /\ ~Regrouped(meant) => SavedMeansTyped
  /\ formula # NULL /\ Valid(ParseTokens(formula), label) /\ Legible(label) =>
          ParseDisplayFormula(FormulaToDisplay(formula, label), label) = formula

Shown == Ready /\ scene \in DOMAIN Figures

\* With every switch on, a department shows what its formula gives, though a
\* figure with switches is added up by other code (composeAdditiveHierarchy).
TogglesAgree ==
  Shown /\ UsesFormula(bundle, scene) /\ AllTermsOn(bundle, scene) =>
    \A d \in OrgDepts :
      LET value == [m \in Refs(ParseTokens(bundle.formula)) |-> ExtractHierarchy(bundle.table, <<m>>, year)[d]]
          v == EvaluateFormula(bundle.formula, value)
      IN v # NULL => Same(v, Whole(FigureValues(bundle, scene, year)[d]))

\* Where the sub-metrics have no value the value of the metric itself is shown
\* (composeFormulaHierarchy).
ParentValueShown ==
  Shown /\ UsesFormula(bundle, scene) /\ AllTermsOn(bundle, scene) =>
    \A d \in OrgDepts :
      (\A m \in DOMAIN bundle.label : ExtractHierarchy(bundle.table, <<m>>, year)[d] = NULL) =>
        FigureValues(bundle, scene, year)[d] = Part(bundle, scene, "own", year)[d]
=============================================================================
