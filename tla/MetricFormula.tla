---------------------------- MODULE MetricFormula ----------------------------
(***************************************************************************)
(* The formula of a metric over its sub-metrics (lib/monitoring/formula.ts,*)
(* metric-formula.ts) and the dialog it is edited in                       *)
(* (FormulaEditorDialog.tsx).  A formula is typed with the names of the    *)
(* sub-metrics, stored as text with their ids, and evaluated from that     *)
(* text; here a text is the sequence of its tokens.                        *)
(***************************************************************************)
EXTENDS FormulaRow, Integers, Sequences, FiniteSets

VARIABLE dialog   \* the open dialog, or NULL

fvars == <<label, formula, on, dialog>>

\* Tokens <<kind, value>> and trees <<"num", n>>, <<"ref", m>>, <<sign, arg>>,
\* <<operator, left, right>>.
Op(o) == <<"op", o>>
Open == <<"(", 0>>
Close == <<")", 0>>
Name(l) == <<"name", l>>
IsBinary(ast) == Len(ast) = 3

-----------------------------------------------------------------------------
(* Parsing                                                                 *)

\* tokenize() drops white space, also inside a name.
Unspaced(l) == [l EXCEPT !.spaced = FALSE]

\* The one sub-metric with the name, or the one with it but for the suffix.
Exact(l, children) == {m \in DOMAIN children : children[m] = l}
Loose(l, children) == {m \in DOMAIN children : [children[m] EXCEPT !.suffix = FALSE] = l}

Resolve(l, children) ==
  LET hits == IF Cardinality(Exact(l, children)) = 1 THEN Exact(l, children) ELSE Loose(l, children)
  IN IF Cardinality(hits) = 1 THEN CHOOSE m \in hits : TRUE ELSE NULL

\* A name that is not resolved is left, and the parser refuses it.
ResolveNameTokens(tokens, children) ==
  [i \in DOMAIN tokens |->
     IF tokens[i][1] # "name" \/ Resolve(Unspaced(tokens[i][2]), children) = NULL THEN tokens[i]
     ELSE <<"ref", Resolve(Unspaced(tokens[i][2]), children)>>]

\* parseExpr, parseTerm and parseFactor are levels 1, 2 and 3.
Operators == <<{"+", "-"}, {"*", "/"}>>
Failed == [ast |-> NULL, rest |-> <<>>]
IsOp(tokens, ops) == tokens # <<>> /\ tokens[1][1] = "op" /\ tokens[1][2] \in ops

Signed(o, p) == IF p.ast = NULL THEN Failed ELSE [p EXCEPT !.ast = <<IF o = "-" THEN "neg" ELSE "pos", @>>]
Closed(p) == IF p.rest # <<>> /\ p.rest[1] = Close THEN [p EXCEPT !.rest = Tail(@)] ELSE Failed

RECURSIVE Parse(_, _), Continue(_, _)
Parse(level, tokens) ==
  IF level < 3 THEN Continue(level, Parse(level + 1, tokens))
  ELSE IF tokens = <<>> THEN Failed
  ELSE IF IsOp(tokens, {"+", "-"}) THEN Signed(tokens[1][2], Parse(3, Tail(tokens)))
  ELSE IF tokens[1] = Open THEN Closed(Parse(1, Tail(tokens)))
  ELSE IF tokens[1][1] \in {"num", "ref"} THEN [ast |-> tokens[1], rest |-> Tail(tokens)]
  ELSE Failed

Continue(level, left) ==
  IF left.ast = NULL \/ ~IsOp(left.rest, Operators[level]) THEN left
  ELSE LET right == Parse(level + 1, Tail(left.rest))
       IN IF right.ast = NULL THEN Failed
          ELSE Continue(level, [ast |-> <<left.rest[1][2], left.ast, right.ast>>, rest |-> right.rest])

ParseTokens(tokens) == LET p == Parse(1, tokens) IN IF p.rest = <<>> THEN p.ast ELSE NULL

RECURSIVE Refs(_)
Refs(ast) == CASE ast[1] = "num" -> {}
               [] ast[1] = "ref" -> {ast[2]}
               [] OTHER -> UNION {Refs(ast[i]) : i \in 2..Len(ast)}

-----------------------------------------------------------------------------
(* Storing and showing                                                     *)

Paren(tokens) == <<Open>> \o tokens \o <<Close>>

Slip_Wrap(o, node, tokens) ==
  IF o = "*" /\ IsBinary(node) /\ node[1] \in {"+", "-"} THEN Paren(tokens) ELSE tokens

\* Parentheses are put around a sum in a product only.
Wrap(o, node, tokens) ==
  IF o \in {"*", "/"} /\ IsBinary(node) /\ node[1] \in {"+", "-"} THEN Paren(tokens) ELSE tokens

RECURSIVE SerializeCanonical(_)
SerializeCanonical(ast) ==
  CASE ast[1] \in {"num", "ref"} -> <<ast>>
    [] ast[1] = "neg" -> <<Op("-")>> \o Paren(SerializeCanonical(ast[2]))
    [] ast[1] = "pos" -> SerializeCanonical(ast[2])
    [] OTHER -> Wrap(ast[1], ast[2], SerializeCanonical(ast[2])) \o <<Op(ast[1])>>
                \o Wrap(ast[1], ast[3], SerializeCanonical(ast[3]))

\* validateMetricFormula(): of at least one metric, and of sub-metrics only.
Valid(ast, children) == ast # NULL /\ Refs(ast) # {} /\ Refs(ast) \subseteq DOMAIN children

\* The text to store for a text with names, NULL if it is refused.
ParseDisplayFormula(tokens, children) ==
  LET ast == ParseTokens(ResolveNameTokens(tokens, children))
  IN IF Valid(ast, children) THEN SerializeCanonical(ast) ELSE NULL

FormulaToDisplay(tokens, children) ==
  [i \in DOMAIN tokens |-> IF tokens[i][1] = "ref" /\ tokens[i][2] \in DOMAIN children
                           THEN Name(children[tokens[i][2]]) ELSE tokens[i]]

\* The sub-metrics one after the other.
RECURSIVE DefaultSumDisplay(_, _)
DefaultSumDisplay(children, left) ==
  IF left = {} THEN <<>>
  ELSE LET m == CHOOSE x \in left : TRUE
       IN <<Name(children[m])>>
          \o (IF left = {m} THEN <<>> ELSE <<Op("+")>> \o DefaultSumDisplay(children, left \ {m}))

-----------------------------------------------------------------------------
(* Evaluating, in fractions [n, d]                                         *)

Whole(n) == [n |-> n, d |-> 1]

Combine(o, l, r) ==
  CASE l = NULL \/ r = NULL -> NULL
    [] o = "+" -> [n |-> l.n * r.d + r.n * l.d, d |-> l.d * r.d]
    [] o = "-" -> [n |-> l.n * r.d - r.n * l.d, d |-> l.d * r.d]
    [] o = "*" -> [n |-> l.n * r.n, d |-> l.d * r.d]
    [] OTHER   -> IF r.n = 0 THEN NULL ELSE [n |-> l.n * r.d, d |-> l.d * r.n]

RECURSIVE EvalAst(_, _)
EvalAst(ast, value) ==
  CASE ast[1] = "num" -> Whole(ast[2])
    [] ast[1] = "ref" -> Whole(IF value[ast[2]] = NULL THEN 0 ELSE value[ast[2]])
    [] ast[1] = "neg" -> Combine("-", Whole(0), EvalAst(ast[2], value))
    [] ast[1] = "pos" -> EvalAst(ast[2], value)
    [] OTHER          -> Combine(ast[1], EvalAst(ast[2], value), EvalAst(ast[3], value))

\* evaluateFormula(): nothing if no metric it refers to has a value.
Evaluated(ast, value) ==
  IF ast = NULL \/ \A m \in Refs(ast) : value[m] = NULL THEN NULL ELSE EvalAst(ast, value)

EvaluateFormula(tokens, value) == Evaluated(ParseTokens(tokens), value)

\* analyzeFormula(): the coefficient of each metric in a formula that only adds
\* and subtracts, and its constant; NULL if it multiplies.
RECURSIVE IsAdditive(_), Coefficient(_, _), Constant(_)
IsAdditive(ast) == ast[1] \notin {"*", "/"} /\ (ast[1] \in {"num", "ref"} \/ \A i \in 2..Len(ast) : IsAdditive(ast[i]))

Coefficient(ast, m) ==
  CASE ast[1] = "num" -> 0
    [] ast[1] = "ref" -> IF ast[2] = m THEN 1 ELSE 0
    [] ast[1] = "neg" -> -Coefficient(ast[2], m)
    [] ast[1] = "pos" -> Coefficient(ast[2], m)
    [] ast[1] = "+"   -> Coefficient(ast[2], m) + Coefficient(ast[3], m)
    [] OTHER          -> Coefficient(ast[2], m) - Coefficient(ast[3], m)

Constant(ast) ==
  CASE ast[1] = "num" -> ast[2]
    [] ast[1] = "ref" -> 0
    [] ast[1] = "neg" -> -Constant(ast[2])
    [] ast[1] = "pos" -> Constant(ast[2])
    [] ast[1] = "+"   -> Constant(ast[2]) + Constant(ast[3])
    [] OTHER          -> Constant(ast[2]) - Constant(ast[3])

AnalyzeFormula(tokens) ==
  LET ast == IF tokens = NULL THEN NULL ELSE ParseTokens(tokens)
      terms == IF ast = NULL \/ ~IsAdditive(ast) THEN {} ELSE {m \in Refs(ast) : Coefficient(ast, m) # 0}
  IN IF terms = {} THEN NULL
     ELSE [terms |-> [m \in terms |-> Coefficient(ast, m)], constant |-> Constant(ast)]

-----------------------------------------------------------------------------
(* The dialog                                                              *)

OpenDialog ==
  /\ dialog = NULL
  /\ dialog' = [expression |-> IF formula # NULL THEN FormulaToDisplay(formula, label)
                               ELSE DefaultSumDisplay(label, DOMAIN label),
                on |-> on \/ formula = NULL, children |-> label, formula |-> formula]
  /\ UNCHANGED <<label, formula, on>>

Type(tokens) ==
  /\ dialog # NULL
  /\ dialog' = [dialog EXCEPT !.expression = tokens]
  /\ UNCHANGED <<label, formula, on>>

Switch ==
  /\ dialog # NULL
  /\ dialog' = [dialog EXCEPT !.on = ~@]
  /\ UNCHANGED <<label, formula, on>>

Cancel ==
  /\ dialog # NULL
  /\ dialog' = NULL
  /\ UNCHANGED <<label, formula, on>>

\* handleSave(): with the switch off, a text that is refused leaves the formula
\* the dialog was opened with.
ToSave == LET parsed == ParseDisplayFormula(dialog.expression, dialog.children)
          IN IF dialog.expression = <<>> THEN NULL
             ELSE IF parsed = NULL THEN dialog.formula ELSE parsed

Refused == dialog.on /\ ParseDisplayFormula(dialog.expression, dialog.children) = NULL

\* updateMetric(): the formula is looked at again while it is switched on.
Save ==
  /\ dialog # NULL /\ ~Refused
  /\ dialog.on => Valid(ParseTokens(ToSave), label)
  /\ formula' = ToSave /\ on' = dialog.on
  /\ dialog' = NULL
  /\ UNCHANGED label

\* Another administrator renames a sub-metric, moves one in, or takes one away.
Relabel(m, l) ==
  /\ label' = [x \in DOMAIN label \cup {m} |-> IF x = m THEN l ELSE label[x]]
  /\ UNCHANGED <<formula, on, dialog>>

TakeAway(m) ==
  /\ m \in DOMAIN label
  /\ label' = [x \in DOMAIN label \ {m} |-> label[x]]
  /\ UNCHANGED <<formula, on, dialog>>
=============================================================================
