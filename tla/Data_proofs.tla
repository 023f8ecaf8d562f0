-------------------------- MODULE Data_proofs -----------------------------
(***************************************************************************)
(* Theorems about the metric tree, the desk where raw values are uploaded  *)
(* and corrected, the monitoring catalogue and the board of key figures,   *)
(* for any sets of users, metrics, names, seeds and figures.               *)
(*                                                                         *)
(* The tree: however saves of old copies mix, no metric becomes its own    *)
(* ancestor, and a save nothing disturbs leaves the tree as it was seen.   *)
(* NoCycle is not inductive: two saves could each set one half of a        *)
(* circle.  What rules it out is that a parent is older than its child, in *)
(* the registry and in every copy, because ids are given in order and      *)
(* nothing in the screen hangs a metric under another (OlderParents).      *)
(*                                                                         *)
(* The catalogue: that a seed is there once rests on what a request may    *)
(* still do.  One that fills an empty catalogue has it to itself or double *)
(* says otherwise (FillsAlone), so that what it found missing is missing   *)
(* when it is created (CreatesMissing).                                    *)
(*                                                                         *)
(* The board: a label is true of any table the screen may hold (BoardInv), *)
(* because the label and the value ask the same questions of it.           *)
(***************************************************************************)
EXTENDS MCData, MonitoringBoard, FiniteSetTheorems, TLAPS

-----------------------------------------------------------------------------
(* A set of numbers has a least one.                                       *)

\* Otherwise adding one maps the lower bounds of the set into the lower bounds but
\* zero, one to one, and the pigeonhole principle says it cannot.
LEMMA LeastNumber ==
  ASSUME NEW S \in SUBSET Nat, S # {}
  PROVE  \E m \in S : \A k \in S : m <= k
<1> SUFFICES ASSUME \A m \in S : \E k \in S : k < m
             PROVE  FALSE
  OBVIOUS
<1> PICK n \in S : TRUE
  OBVIOUS
<1> DEFINE L == {x \in 0..n : \A k \in S : x <= k}
<1>1. IsFiniteSet(L)
  <2>1. IsFiniteSet(0..n)
    BY FS_Interval
  <2>2. L \in SUBSET (0..n)
    OBVIOUS
  <2> HIDE DEF L
  <2> QED
    BY <2>1, <2>2, FS_Subset
<1>2. 0 \in L
  OBVIOUS
<1>3. \A x \in L : x + 1 \in L \ {0}
  <2> SUFFICES ASSUME NEW x \in L
               PROVE  x + 1 \in L \ {0}
    OBVIOUS
  <2>1. \A k \in S : x + 1 <= k
    OBVIOUS
  <2> QED
    BY <2>1
<1>4. L \subseteq Nat
  OBVIOUS
<1> HIDE DEF L
<1>5. IsFiniteSet(L \ {0}) /\ Cardinality(L \ {0}) < Cardinality(L)
  <2>1. Cardinality(L) \in Nat
    BY <1>1, FS_CardinalityType
  <2>2. IsFiniteSet(L \ {0}) /\ Cardinality(L \ {0}) = Cardinality(L) - 1
    BY <1>1, <1>2, FS_RemoveElement
  <2> QED
    BY <2>1, <2>2
<1> DEFINE f == [x \in L |-> x + 1]
<1>6. f \in [L -> L \ {0}]
  BY <1>3
<1>7. \A x, y \in L : f[x] = f[y] => x = y
  BY <1>4
<1> HIDE DEF f
<1> QED
  BY <1>1, <1>5, <1>6, <1>7, FS_PigeonHole

-----------------------------------------------------------------------------
(* The board of key figures.                                               *)

LEMMA MinIsLeast ==
  ASSUME NEW S \in SUBSET Nat, S # {}
  PROVE  Min(S) \in S /\ \A y \in S : Min(S) <= y
<1>1. \E m \in S : \A y \in S : m <= y
  BY LeastNumber
<1> QED
  BY <1>1 DEF Min

-----------------------------------------------------------------------------
(* The best and the worst tenth.                                           *)

\* Of all that have a value at least as good as i, there are so many.
AtLeast(v, i) == {j \in DOMAIN v : v[j] >= v[i]}

LEMMA FewAreAtTheTop ==
  ASSUME NEW V, IsFiniteSet(V), NEW v \in [V -> Int], NEW k \in Nat
  PROVE  LET top == {i \in V : Cardinality(AtLeast(v, i)) <= k}
         IN /\ Cardinality(top) <= k
            /\ \A i \in top, j \in V : v[j] >= v[i] => j \in top
<1> DEFINE A(i) == AtLeast(v, i)
           top == {i \in V : Cardinality(A(i)) <= k}
           left == {k - Cardinality(A(i)) : i \in top}
<1>1. ASSUME NEW i \in V PROVE A(i) \in SUBSET V /\ i \in A(i) /\ IsFiniteSet(A(i)) /\ Cardinality(A(i)) \in Nat
  <2>1. A(i) \in SUBSET V /\ i \in A(i)
    BY DEF AtLeast
  <2> HIDE DEF A
  <2> QED
    BY <2>1, FS_Subset, FS_CardinalityType
<1>2. ASSUME NEW i \in V, NEW j \in V, v[j] >= v[i] PROVE A(j) \in SUBSET A(i) /\ Cardinality(A(j)) <= Cardinality(A(i))
  <2>1. A(j) \in SUBSET A(i)
    BY <1>2 DEF AtLeast
  <2> HIDE DEF A
  <2> QED
    BY <2>1, <1>1, FS_Subset
<1>3. \A i \in top, j \in V : v[j] >= v[i] => j \in top
  <2> SUFFICES ASSUME NEW i \in top, NEW j \in V, v[j] >= v[i] PROVE j \in top
    OBVIOUS
  <2>1. Cardinality(A(j)) \in Nat /\ Cardinality(A(i)) \in Nat /\ Cardinality(A(j)) <= Cardinality(A(i))
    BY <1>1, <1>2
  <2> HIDE DEF A
  <2> QED
    BY <2>1
<1>4. Cardinality(top) <= k
  <2>1. CASE top = {}
    BY <2>1, FS_EmptySet
  <2>2. CASE top # {}
    <3>1. left \in SUBSET Nat /\ left # {}
      <4> HIDE DEF A
      <4> QED
        BY <2>2, <1>1
    <3>2. PICK i \in top : \A j \in top : k - Cardinality(A(i)) <= k - Cardinality(A(j))
      <4>1. Min(left) \in left /\ \A y \in left : Min(left) <= y
        BY <3>1, MinIsLeast
      <4>2. PICK i \in top : Min(left) = k - Cardinality(A(i))
        BY <4>1
      <4>3. \A j \in top : k - Cardinality(A(j)) \in left
        OBVIOUS
      <4> HIDE DEF A, left
      <4> QED
        BY <4>1, <4>2, <4>3
    <3>3. top \subseteq A(i)
      <4> SUFFICES ASSUME NEW j \in top, j \notin A(i) PROVE FALSE
        OBVIOUS
      <4>1. v[i] >= v[j] /\ v[j] \in Int /\ v[i] \in Int
        BY DEF AtLeast
      <4>2. A(i) \in SUBSET A(j) /\ Cardinality(A(i)) <= Cardinality(A(j))
        BY <4>1, <1>2
      <4>3. Cardinality(A(j)) <= Cardinality(A(i))
        <5>1. Cardinality(A(j)) \in Nat /\ Cardinality(A(i)) \in Nat
          BY <1>1
        <5> HIDE DEF A
        <5> QED
          BY <3>2, <5>1
      <4>4. A(j) = A(i)
        <5>1. Cardinality(A(j)) \in Nat /\ Cardinality(A(i)) \in Nat /\ IsFiniteSet(A(j))
          BY <1>1
        <5> HIDE DEF A
        <5> QED
          BY <4>2, <4>3, <5>1, FS_Subset
      <4> QED
        BY <4>4, <1>1
    <3>4. IsFiniteSet(A(i)) /\ Cardinality(A(i)) \in Nat /\ Cardinality(A(i)) <= k
      BY <1>1
    <3>5. top \in SUBSET A(i)
      BY <3>3
    <3> HIDE DEF A, top
    <3>6. IsFiniteSet(top) /\ Cardinality(top) <= Cardinality(A(i))
      BY <3>4, <3>5, FS_Subset
    <3>7. Cardinality(top) \in Nat
      BY <3>6, FS_CardinalityType
    <3> QED
      BY <3>4, <3>6, <3>7
  <2> QED
    BY <2>1, <2>2
<1> QED
  BY <1>3, <1>4


\* The values of the bars are numbers where there are any, and stay.
BarsInv == marks \in Seq(Int \cup {NULL})

LEMMA TenthsAreMarked ==
  ASSUME BarsInv
  PROVE  BandsWithinTenth
<1> DEFINE valid == {i \in DOMAIN marks : marks[i] # NULL}
           k == Cardinality(valid) \div 10
           band == AssignHighlightBands(marks, TRUE)
           in(x) == {i \in DOMAIN marks : band[i] = x}
           plain == k = 0 \/ Cardinality({marks[j] : j \in valid}) = 1
           up == [i \in valid |-> marks[i]]
           down == [i \in valid |-> -marks[i]]
           high == {i \in valid : Cardinality(AtLeast(up, i)) <= k}
           low == {i \in valid : Cardinality(AtLeast(down, i)) <= k}
<1>1. IsFiniteSet(valid) /\ Cardinality(valid) \in Nat /\ k \in Nat /\ 10 * k <= Cardinality(valid)
  <2>1. IsFiniteSet(DOMAIN marks)
    <3>1. DOMAIN marks = 1..Len(marks) /\ 1 \in Int /\ Len(marks) \in Int
      BY DEF BarsInv
    <3> QED
      BY <3>1, FS_Interval
  <2>2. valid \in SUBSET DOMAIN marks
    OBVIOUS
  <2> HIDE DEF valid
  <2>3. IsFiniteSet(valid) /\ Cardinality(valid) \in Nat
    BY <2>1, <2>2, FS_Subset, FS_CardinalityType
  <2> QED
    BY <2>3
<1>2. /\ \A i \in valid : marks[i] \in Int
      /\ up \in [valid -> Int] /\ down \in [valid -> Int]
  <2>1. \A i \in valid : marks[i] \in Int
    BY DEF BarsInv
  <2> QED
    BY <2>1
<1>3. /\ Cardinality(high) <= k
      /\ \A i \in high, j \in valid : up[j] >= up[i] => j \in high
  <2> HIDE DEF valid, k, up
  <2> QED
    BY <1>1, <1>2, FewAreAtTheTop
<1>4. /\ Cardinality(low) <= k
      /\ \A i \in low, j \in valid : down[j] >= down[i] => j \in low
  <2> HIDE DEF valid, k, down
  <2> QED
    BY <1>1, <1>2, FewAreAtTheTop
<1>5. ASSUME NEW i \in valid
      PROVE  /\ {j \in valid : marks[j] >= marks[i]} = AtLeast(up, i)
             /\ {j \in valid : marks[j] <= marks[i]} = AtLeast(down, i)
  <2>1. /\ DOMAIN up = valid /\ DOMAIN down = valid
        /\ \A j \in valid : up[j] = marks[j] /\ down[j] = -marks[j] /\ marks[j] \in Int
    BY <1>2
  <2> HIDE DEF valid, up, down
  <2>2. \A j \in valid : down[j] >= down[i] <=> marks[j] <= marks[i]
    BY <2>1
  <2> QED
    BY <2>1, <2>2 DEF AtLeast
<1>6. ASSUME NEW i \in DOMAIN marks
      PROVE  /\ band[i] = "top" <=> i \in valid /\ ~plain /\ i \in high
             /\ band[i] = "bottom" <=> i \in valid /\ ~plain /\ i \notin high /\ i \in low
  <2>1. band[i] = IF i \notin valid \/ plain THEN "none"
                  ELSE IF Cardinality({j \in valid : marks[j] >= marks[i]}) <= k THEN "top"
                  ELSE IF Cardinality({j \in valid : marks[j] <= marks[i]}) <= k THEN "bottom"
                  ELSE "none"
    BY Zenon DEF AssignHighlightBands
  <2> HIDE DEF valid, band, plain, k, up, down
  <2> QED
    BY <2>1, <1>5
<1>7. in("top") \in SUBSET high /\ in("bottom") \in SUBSET low
  <2> HIDE DEF valid, band, plain, k, up, down, high, low
  <2> QED
    BY <1>6
<1>8. 10 * Cardinality(in("top")) <= Cardinality(valid) /\ 10 * Cardinality(in("bottom")) <= Cardinality(valid)
  <2>1. high \in SUBSET valid /\ low \in SUBSET valid
    OBVIOUS
  <2> HIDE DEF valid, band, plain, k, up, down, high, low, in
  <2>2. IsFiniteSet(high) /\ IsFiniteSet(low) /\ Cardinality(high) \in Nat /\ Cardinality(low) \in Nat
    BY <1>1, <2>1, FS_Subset, FS_CardinalityType
  <2>3. /\ Cardinality(in("top")) \in Nat /\ Cardinality(in("top")) <= Cardinality(high)
        /\ Cardinality(in("bottom")) \in Nat /\ Cardinality(in("bottom")) <= Cardinality(low)
    BY <1>7, <2>2, FS_Subset, FS_CardinalityType
  <2> QED
    BY <1>1, <1>3, <1>4, <2>2, <2>3
<1>9. ASSUME NEW i \in valid, NEW j \in valid, band[i] = "top", marks[j] >= marks[i] PROVE band[j] = "top"
  <2>1. up[j] >= up[i] /\ j \in DOMAIN marks /\ i \in DOMAIN marks
    BY <1>9
  <2> HIDE DEF valid, band, plain, k, up, high, low
  <2> QED
    BY <1>3, <1>6, <1>9, <2>1
<1>10. ASSUME NEW i \in valid, NEW j \in valid, band[i] = "bottom", marks[j] <= marks[i] PROVE band[j] = "bottom"
  <2>1. down[j] >= down[i] /\ up[i] >= up[j] /\ j \in DOMAIN marks /\ i \in DOMAIN marks
    BY <1>2, <1>10
  <2> HIDE DEF valid, band, plain, k, up, down, high, low
  <2> QED
    BY <1>3, <1>4, <1>6, <1>10, <2>1
<1> QED
  BY <1>8, <1>9, <1>10 DEF BandsWithinTenth

\* However many bars there are and whatever their values, at most a tenth is marked as best
\* and at most a tenth as worst, and nothing better than a best, or worse than a worst, is
\* left unmarked.
THEOREM TenthsStayTenths == BoardSpec => []BandsWithinTenth
<1>1. BoardInit => BarsInv
  BY DEF BoardInit, BarsInv
<1>2. BarsInv /\ [BoardNext]_boardVars => BarsInv'
  BY DEF BarsInv, BoardNext, boardVars, FetchTree, FetchPivot, FetchFails, OnComponentToggle, SelectYear, UploadValue, Hide
<1>3. BarsInv => BandsWithinTenth
  BY TenthsAreMarked
<1> QED
  BY <1>1, <1>2, <1>3, PTL DEF BoardSpec

-----------------------------------------------------------------------------
(* Sums.                                                                   *)

\* A sum over a finite set, taken element by element.
LEMMA SumIsNumber ==
  ASSUME NEW S, IsFiniteSet(S), NEW f, \A x \in S : f[x] \in Int
  PROVE  SumFunctionOnSet(f, S) \in Int
<1> DEFINE pick(s) == CHOOSE x \in s : TRUE
           step(g, s) == IF s = {} THEN 0 ELSE f[pick(s)] + g[s \ {pick(s)}]
           sums(g) == g = [s \in SUBSET S |-> step(g, s)]
           small(n) == {s \in SUBSET S : Cardinality(s) <= n}
           built(n) == \E g \in [small(n) -> Int] : \A s \in small(n) : g[s] = step(g, s)
<1>1. SumFunctionOnSet(f, S) = (CHOOSE g : sums(g))[S]
  BY DEF SumFunctionOnSet, FoldFunctionOnSet, MapThenFoldSet
<1>2. ASSUME NEW s \in SUBSET S PROVE IsFiniteSet(s) /\ Cardinality(s) \in Nat /\ Cardinality(s) <= Cardinality(S)
  BY FS_Subset, FS_CardinalityType
<1>3. ASSUME NEW s \in SUBSET S, s # {}
      PROVE  /\ pick(s) \in s /\ s \ {pick(s)} \in SUBSET S /\ f[pick(s)] \in Int
             /\ Cardinality(s \ {pick(s)}) = Cardinality(s) - 1
  <2>1. pick(s) \in s /\ pick(s) \in S /\ s \ {pick(s)} \in SUBSET S
    BY <1>3
  <2> HIDE DEF pick
  <2>2. Cardinality(s \ {pick(s)}) = Cardinality(s) - 1
    BY <1>2, <2>1, FS_RemoveElement
  <2> QED
    BY <2>1, <2>2
<1> HIDE DEF pick
<1>4. built(0)
  <2>1. \A s \in small(0) : s = {}
    <3> SUFFICES ASSUME NEW s \in small(0) PROVE s = {}
      OBVIOUS
    <3>1. s \in SUBSET S /\ Cardinality(s) <= 0
      OBVIOUS
    <3>2. IsFiniteSet(s) /\ Cardinality(s) = 0
      BY <1>2, <3>1
    <3> QED
      BY <3>2, FS_EmptySet
  <2> HIDE DEF small
  <2>2. [s \in small(0) |-> 0] \in [small(0) -> Int]
    OBVIOUS
  <2> QED
    BY <2>1, <2>2
<1>5. ASSUME NEW n \in Nat, built(n) PROVE built(n + 1)
  <2>1. PICK g \in [small(n) -> Int] : \A s \in small(n) : g[s] = step(g, s)
    BY <1>5
  <2> DEFINE h == [s \in small(n + 1) |-> step(g, s)]
  <2>2. ASSUME NEW s \in small(n + 1), s # {}
        PROVE  f[pick(s)] \in Int /\ s \ {pick(s)} \in small(n) /\ s \ {pick(s)} \in small(n + 1)
    <3>1. /\ f[pick(s)] \in Int /\ s \ {pick(s)} \in SUBSET S
          /\ Cardinality(s \ {pick(s)}) = Cardinality(s) - 1
          /\ Cardinality(s) \in Nat /\ Cardinality(s) <= n + 1
      BY <1>2, <1>3, <2>2
    <3>2. Cardinality(s \ {pick(s)}) <= n /\ Cardinality(s \ {pick(s)}) <= n + 1
      BY <3>1
    <3> QED
      BY <3>1, <3>2
  <2>3. \A s \in small(n) : s \in small(n + 1) /\ h[s] = g[s]
    <3> SUFFICES ASSUME NEW s \in small(n) PROVE s \in small(n + 1) /\ h[s] = g[s]
      OBVIOUS
    <3>1. s \in small(n + 1)
      BY <1>2
    <3> HIDE DEF small
    <3> QED
      BY <2>1, <3>1
  <2> HIDE DEF small
  <2>4. h \in [small(n + 1) -> Int]
    BY <2>2
  <2>5. ASSUME NEW s \in small(n + 1) PROVE h[s] = step(h, s)
    <3>1. CASE s = {}
      BY <3>1
    <3>2. CASE s # {}
      <4>1. h[s \ {pick(s)}] = g[s \ {pick(s)}]
        BY <2>2, <2>3, <3>2
      <4> QED
        BY <3>2, <4>1
    <3> QED
      BY <3>1, <3>2
  <2> QED
    BY <2>4, <2>5
<1>6. \A n \in Nat : built(n)
  <2> DEFINE bad == {n \in Nat : ~built(n)}
  <2> SUFFICES ASSUME bad # {} PROVE FALSE
    OBVIOUS
  <2>1. Min(bad) \in bad /\ \A y \in bad : Min(bad) <= y
    BY MinIsLeast
  <2> DEFINE m == Min(bad)
  <2>2. m \in Nat /\ ~built(m) /\ \A y \in Nat : y < m => built(y)
    <3> HIDE DEF built
    <3> QED
      BY <2>1
  <2> HIDE DEF m, bad, built
  <2>3. m # 0
    BY <1>4, <2>2
  <2>4. m - 1 \in Nat /\ (m - 1) + 1 = m /\ built(m - 1)
    BY <2>2, <2>3
  <2> QED
    BY <1>5, <2>2, <2>4
<1>7. \E g : sums(g)
  <2>1. small(Cardinality(S)) = SUBSET S
    BY <1>2
  <2>2. Cardinality(S) \in Nat
    BY FS_CardinalityType
  <2>3. built(Cardinality(S))
    <3> HIDE DEF built
    <3> QED
      BY <1>6, <2>2
  <2> HIDE DEF small
  <2>4. PICK g \in [SUBSET S -> Int] : \A s \in SUBSET S : g[s] = step(g, s)
    BY <2>1, <2>3
  <2> QED
    BY <2>4
<1> DEFINE iter == CHOOSE g : sums(g)
           sizes == {Cardinality(s) : s \in {r \in SUBSET S : iter[r] \notin Int}}
<1>8. \A s \in SUBSET S : iter[s] = step(iter, s)
  <2>1. sums(iter)
    BY <1>7
  <2> HIDE DEF iter
  <2> QED
    BY <2>1
<1> HIDE DEF iter
<1>9. sizes = {}
  <2> SUFFICES ASSUME sizes # {} PROVE FALSE
    OBVIOUS
  <2>1. sizes \in SUBSET Nat
    BY <1>2
  <2>2. Min(sizes) \in sizes /\ \A y \in sizes : Min(sizes) <= y
    BY <2>1, MinIsLeast
  <2>3. PICK s \in SUBSET S : iter[s] \notin Int /\ \A y \in sizes : Cardinality(s) <= y
    BY <2>2
  <2>4. s # {}
    <3>1. iter[{}] = 0
      <4>1. {} \in SUBSET S
        OBVIOUS
      <4> QED
        BY <1>8, <4>1
    <3>2. iter[s] \notin Int
      BY <2>3
    <3> HIDE DEF sizes
    <3> QED
      BY <3>1, <3>2
  <2> DEFINE x == pick(s)
  <2>5. /\ f[x] \in Int /\ s \ {x} \in SUBSET S /\ Cardinality(s \ {x}) = Cardinality(s) - 1
        /\ Cardinality(s) \in Nat
    BY <1>2, <1>3, <2>4
  <2>6. iter[s] = f[x] + iter[s \ {x}]
    BY <1>8, <2>4
  <2> HIDE DEF x
  <2>7. iter[s \ {x}] \notin Int
    BY <2>3, <2>5, <2>6
  <2>8. Cardinality(s \ {x}) \in sizes
    BY <2>5, <2>7
  <2> HIDE DEF sizes
  <2> QED
    BY <2>3, <2>5, <2>8
<1>10. iter[S] \in Int
  <2> SUFFICES ASSUME iter[S] \notin Int PROVE FALSE
    OBVIOUS
  <2>1. Cardinality(S) \in sizes
    OBVIOUS
  <2> QED
    BY <1>9, <2>1
<1> QED
  BY <1>1, <1>10 DEF iter

-----------------------------------------------------------------------------
(* The label at the university's value.                                    *)

\* A sum of numbers some of which are missing.
LEMMA SumsAreNumbers ==
  ASSUME NEW f, IsFiniteSet(DOMAIN f), Numbers(f)
  PROVE  /\ SumKnown(f) \in Int \cup {NULL}
         /\ (\E x \in DOMAIN f : f[x] # NULL) => SumKnown(f) # NULL
<1> DEFINE S == {x \in DOMAIN f : f[x] # NULL}
<1>1. S \in SUBSET DOMAIN f /\ \A x \in S : f[x] \in Int
  BY DEF Numbers
<1>2. IsFiniteSet(S)
  <2> HIDE DEF S
  <2> QED
    BY <1>1, FS_Subset
<1>3. SumFunctionOnSet(f, S) \in Int
  <2> HIDE DEF S
  <2> QED
    BY <1>1, <1>2, SumIsNumber
<1>4. SumOf(f) \in Int
  BY <1>3 DEF SumOf
<1>5. NULL \notin Int
  BY BoardAssumption
<1> QED
  BY <1>4, <1>5 DEF SumKnown

\* The value of the university in a row.
Whole(T, m, y) ==
  IF Cell(T, m, All, y) # NULL THEN Cell(T, m, All, y)
  ELSE SumKnown([d \in OrgDepts \cup OtherUnits |-> Cell(T, m, d, y)])

LEMMA WholeIsInRow ==
  ASSUME NEW T, NEW m, NEW y
  PROVE  PivotRow(T, m, y)[All] = Whole(T, m, y)
BY DEF PivotRow, Whole, Units

LEMMA WholeIsNumber ==
  ASSUME NEW T, Numbers(T), NEW m, NEW y
  PROVE  Whole(T, m, y) \in Int \cup {NULL}
<1> DEFINE f == [d \in OrgDepts \cup OtherUnits |-> Cell(T, m, d, y)]
<1>1. \A u : Cell(T, m, u, y) \in Int \cup {NULL}
  BY DEF Cell, Numbers
<1>2. IsFiniteSet(OrgDepts \cup OtherUnits)
  BY BoardAssumption, FS_Union DEF OrgDepts
<1>3. DOMAIN f = OrgDepts \cup OtherUnits /\ Numbers(f)
  BY <1>1 DEF Numbers
<1>4. SumKnown(f) \in Int \cup {NULL}
  <2> HIDE DEF f
  <2> QED
    BY <1>2, <1>3, SumsAreNumbers
<1> QED
  BY <1>1, <1>4 DEF Whole

LEMMA WholeIsSame ==
  ASSUME NEW T, NEW S, NEW m, NEW y, \A u : Cell(T, m, u, y) = Cell(S, m, u, y)
  PROVE  Whole(T, m, y) = Whole(S, m, y)
BY DEF Whole

\* Of metrics without any value there is none.
LEMMA WholeIsMissing ==
  ASSUME NEW T, NEW m, NEW y, \A u : Cell(T, m, u, y) = NULL
  PROVE  Whole(T, m, y) = NULL
BY DEF Whole, SumKnown

\* The metrics of a list that have a value in some year.
With(T, ids) == {i \in DOMAIN ids : \E x \in Years : Whole(T, ids[i], x) # NULL}

LEMMA HierarchyAt ==
  ASSUME NEW T, NEW ids, NEW y
  PROVE  /\ DOMAIN ExtractHierarchy(T, ids, y) = Units /\ All \in Units
         /\ ExtractHierarchy(T, ids, y)[All] =
              IF With(T, ids) = {} THEN NULL ELSE Whole(T, ids[Min(With(T, ids))], y)
BY WholeIsInRow DEF ExtractHierarchy, Units, With

LEMMA HierarchyIsNumber ==
  ASSUME NEW T, Numbers(T), NEW ids, NEW y
  PROVE  ExtractHierarchy(T, ids, y)[All] \in Int \cup {NULL}
<1>1. Whole(T, ids[Min(With(T, ids))], y) \in Int \cup {NULL}
  BY WholeIsNumber
<1> QED
  BY <1>1, HierarchyAt

LEMMA OneIsSame ==
  ASSUME NEW T, NEW S, NEW m, NEW y, \A u, x : Cell(T, m, u, x) = Cell(S, m, u, x)
  PROVE  ExtractHierarchy(T, <<m>>, y)[All] = ExtractHierarchy(S, <<m>>, y)[All]
<1> DEFINE with(R) == With(R, <<m>>)
<1>1. \A x : Whole(T, m, x) = Whole(S, m, x)
  BY WholeIsSame
<1>2. DOMAIN <<m>> = {1} /\ <<m>>[1] = m
  OBVIOUS
<1>3. with(T) = with(S) /\ with(T) \in SUBSET {1}
  BY <1>1, <1>2 DEF With
<1>4. /\ ExtractHierarchy(T, <<m>>, y)[All] = IF with(T) = {} THEN NULL ELSE Whole(T, <<m>>[Min(with(T))], y)
      /\ ExtractHierarchy(S, <<m>>, y)[All] = IF with(S) = {} THEN NULL ELSE Whole(S, <<m>>[Min(with(S))], y)
  BY HierarchyAt
<1> HIDE DEF with
<1>5. with(T) # {} => Min(with(T)) = 1
  <2>1. with(T) \in SUBSET Nat
    BY <1>3
  <2> QED
    BY <1>3, <2>1, MinIsLeast
<1> QED
  BY <1>1, <1>2, <1>3, <1>4, <1>5

LEMMA NoneIsMissing ==
  ASSUME NEW T, NEW ids, NEW y, \A i \in DOMAIN ids : \A u, x : Cell(T, ids[i], u, x) = NULL
  PROVE  ExtractHierarchy(T, ids, y)[All] = NULL
<1>1. With(T, ids) = {}
  BY WholeIsMissing DEF With
<1> QED
  BY <1>1, HierarchyAt

LEMMA PreferredAt ==
  ASSUME NEW values, DOMAIN values = Units, NEW official
  PROVE  /\ DOMAIN PreferOfficialUniversity(values, official) = Units
         /\ official[All] = NULL => PreferOfficialUniversity(values, official) = values
         /\ official[All] # NULL => PreferOfficialUniversity(values, official)[All] = official[All]
BY DEF PreferOfficialUniversity, Units


\* What the screen has fetched: the tree of metrics and the links, later the values.
BundleOK(b) ==
  /\ b = [label |-> b.label, formula |-> b.formula, on |-> b.on, links |-> LinkTo,
          years |-> b.years, hidden |-> b.hidden, table |-> b.table]
  /\ b.table # NULL => Numbers(b.table)

BoardInv == Numbers(uploaded) /\ (bundle # NULL => BundleOK(bundle))

\* The same without disclosed values, and with no others.
Uploaded(b) == [b EXCEPT !.links = <<>>]
OnlyDisclosed(b) == Lacking(b, DOMAIN b.table \ Disclosed(b))

LEMMA UploadedBundle ==
  ASSUME NEW b, BundleOK(b)
  PROVE  /\ Uploaded(b).table = b.table /\ Uploaded(b).label = b.label
         /\ Uploaded(b).formula = b.formula /\ Uploaded(b).on = b.on
         /\ \A c, y : Official(Uploaded(b), c, y) = Nothing
<1> DEFINE w == [label |-> b.label, formula |-> b.formula, on |-> b.on, links |-> LinkTo,
                 years |-> b.years, hidden |-> b.hidden, table |-> b.table]
<1>1. b = w
  BY DEF BundleOK
<1>2. Uploaded(b) = [w EXCEPT !.links = <<>>]
  BY <1>1 DEF Uploaded
<1>3. [w EXCEPT !.links = <<>>] = [label |-> b.label, formula |-> b.formula, on |-> b.on, links |-> <<>>,
                 years |-> b.years, hidden |-> b.hidden, table |-> b.table]
  OBVIOUS
<1>4. DOMAIN Uploaded(b).links = {}
  BY <1>2, <1>3
<1> QED
  BY <1>2, <1>3, <1>4 DEF Official

LEMMA DisclosedBundle ==
  ASSUME NEW b, BundleOK(b)
  PROVE  /\ OnlyDisclosed(b).label = b.label /\ OnlyDisclosed(b).formula = b.formula
         /\ OnlyDisclosed(b).on = b.on
         /\ \A m, u, x : Cell(OnlyDisclosed(b).table, m, u, x)
                           = IF m \in LinkedMetrics THEN Cell(b.table, m, u, x) ELSE NULL
         /\ \A c, y : Official(OnlyDisclosed(b), c, y)[All] = Official(b, c, y)[All]
<1> DEFINE d == OnlyDisclosed(b)
           w == [label |-> b.label, formula |-> b.formula, on |-> b.on, links |-> LinkTo,
                 years |-> b.years, hidden |-> b.hidden, table |-> b.table]
           t == [c \in DOMAIN b.table \ (DOMAIN b.table \ Disclosed(b)) |-> b.table[c]]
<1>1. b = w
  BY DEF BundleOK
<1>2. d = [w EXCEPT !.table = t]
  BY <1>1 DEF OnlyDisclosed, Lacking
<1>3. d = [label |-> b.label, formula |-> b.formula, on |-> b.on, links |-> LinkTo,
           years |-> b.years, hidden |-> b.hidden, table |-> t]
  <2> HIDE DEF t, d
  <2> QED
    BY <1>2
<1>4. /\ d.label = b.label /\ d.formula = b.formula /\ d.on = b.on /\ d.table = t /\ d.links = LinkTo
  <2> HIDE DEF t, d
  <2> QED
    BY <1>3
<1>5. b.links = LinkTo
  BY <1>1
<1> HIDE DEF d
<1>6. ASSUME NEW m, NEW u, NEW x
      PROVE Cell(d.table, m, u, x) = IF m \in LinkedMetrics THEN Cell(b.table, m, u, x) ELSE NULL
  <2>1. <<m, u, x>>[1] = m
    OBVIOUS
  <2>2. <<m, u, x>> \in DOMAIN t <=> <<m, u, x>> \in DOMAIN b.table /\ m \in LinkedMetrics
    BY <2>1 DEF Disclosed
  <2>3. <<m, u, x>> \in DOMAIN t => t[<<m, u, x>>] = b.table[<<m, u, x>>]
    OBVIOUS
  <2> HIDE DEF t
  <2> QED
    BY <1>4, <2>2, <2>3 DEF Cell
<1>7. ASSUME NEW c, NEW y PROVE Official(d, c, y)[All] = Official(b, c, y)[All]
  <2>1. CASE c \in DOMAIN LinkTo
    <3>1. LinkTo[c] \in LinkedMetrics
      BY <2>1 DEF LinkedMetrics
    <3>2. \A u, x : Cell(d.table, LinkTo[c], u, x) = Cell(b.table, LinkTo[c], u, x)
      BY <1>6, <3>1
    <3>3. ExtractHierarchy(d.table, <<LinkTo[c]>>, y)[All] = ExtractHierarchy(b.table, <<LinkTo[c]>>, y)[All]
      BY <3>2, OneIsSame
    <3>4. /\ Official(d, c, y) = ExtractHierarchy(d.table, <<LinkTo[c]>>, y)
          /\ Official(b, c, y) = ExtractHierarchy(b.table, <<LinkTo[c]>>, y)
      BY <1>4, <1>5, <2>1 DEF Official
    <3> QED
      BY <3>3, <3>4
  <2>2. CASE c \notin DOMAIN LinkTo
    BY <1>4, <1>5, <2>2 DEF Official
  <2> QED
    BY <2>1, <2>2
<1> QED
  BY <1>4, <1>6, <1>7 DEF d

\* A metric that is computed or shown as it is.
LEMMA PlainLabelIsTrue ==
  ASSUME NEW b, BundleOK(b), NEW k, Figures[k].kind \notin {"students", "accounting"}, NEW y
  PROVE  /\ ValueSource(b, k, y) = "MONITORING" => FigureValues(Uploaded(b), k, y)[All] = FigureValues(b, k, y)[All]
         /\ ValueSource(b, k, y) = "ALIMI" => FigureValues(OnlyDisclosed(b), k, y)[All] = FigureValues(b, k, y)[All]
<1> DEFINE code == Figures[k].code
           uses == UsesFormula(b, k)
           whole == AllTermsOn(b, k)
           own(x) == Part(x, k, "own", y)
           sum(x) == IF TermsOf(x.formula) # NULL THEN AdditiveValues(x, k, y)
                     ELSE [u \in Units |-> FormulaValue(x, k, u, y)]
           off(x) == Official(x, code, y)
<1>1. ASSUME NEW x, x.formula = b.formula, x.on = b.on
      PROVE  FigureValues(x, k, y) = IF uses THEN IF whole THEN PreferOfficialUniversity(sum(x), off(x)) ELSE sum(x)
                               ELSE PreferOfficialUniversity(own(x), off(x))
  <2>1. UsesFormula(x, k) = uses
    BY <1>1 DEF UsesFormula
  <2>2. AllTermsOn(x, k) = whole
    BY <1>1 DEF AllTermsOn, OnTerms
  <2>3. FigureValues(x, k, y) = IF uses THEN FormulaValues(x, k, y) ELSE DirectValues(x, k, y)
    BY <2>1 DEF FigureValues
  <2> QED
    BY <2>2, <2>3 DEF FormulaValues, DirectValues
<1>2. ASSUME NEW x PROVE DOMAIN sum(x) = Units /\ DOMAIN own(x) = Units
  <2>1. DOMAIN own(x) = Units
    BY HierarchyAt DEF Part
  <2>2. DOMAIN AdditiveValues(x, k, y) = Units
    BY DEF AdditiveValues, FillFromDepts
  <2>3. DOMAIN [u \in Units |-> FormulaValue(x, k, u, y)] = Units
    OBVIOUS
  <2> QED
    BY <2>1, <2>2, <2>3
<1>3. Uploaded(b).table = b.table /\ Uploaded(b).label = b.label /\ Uploaded(b).formula = b.formula
      => sum(Uploaded(b)) = sum(b) /\ own(Uploaded(b)) = own(b)
  BY DEF AdditiveValues, FormulaValue, Part, OnTerms
<1>4. ValueSource(b, k, y) = ValueSourceAt(FigureValues(b, k, y)[All], IF uses /\ ~whole THEN NULL ELSE off(b)[All])
  BY DEF ValueSource
<1>5. NULL \notin {"ALIMI", "MONITORING"}
  BY BoardAssumption
<1> HIDE DEF uses, whole, own, sum, off, code
<1>6. ASSUME ValueSource(b, k, y) = "MONITORING"
      PROVE  FigureValues(Uploaded(b), k, y)[All] = FigureValues(b, k, y)[All]
  <2>1. (uses /\ ~whole) \/ off(b)[All] = NULL
    BY <1>4, <1>5, <1>6 DEF ValueSourceAt
  <2>2. off(Uploaded(b))[All] = NULL
    BY UploadedBundle DEF off, Nothing, Units
  <2> QED
    BY <1>1, <1>2, <1>3, <2>1, <2>2, UploadedBundle, PreferredAt
<1>7. ASSUME ValueSource(b, k, y) = "ALIMI"
      PROVE  FigureValues(OnlyDisclosed(b), k, y)[All] = FigureValues(b, k, y)[All]
  <2>1. ~(uses /\ ~whole) /\ off(b)[All] # NULL
    BY <1>4, <1>5, <1>7 DEF ValueSourceAt
  <2>2. off(OnlyDisclosed(b))[All] = off(b)[All]
    BY DisclosedBundle DEF off
  <2> QED
    BY <1>1, <1>2, <2>1, <2>2, DisclosedBundle, PreferredAt
<1> QED
  BY <1>6, <1>7


LEMMA SidesAreTrue ==
  ASSUME NEW b, BundleOK(b), NEW k, Figures[k].kind = "accounting", NEW y
  PROVE  /\ ValueSource(b, k, y) # "ALIMI"
         /\ FigureValues(Uploaded(b), k, y)[All] = FigureValues(b, k, y)[All]
<1>1. NULL # "ALIMI"
  BY BoardAssumption
<1>2. AccountingValues(Uploaded(b), k, "income", y) = AccountingValues(b, k, "income", y)
  BY UploadedBundle DEF AccountingValues
<1>3. ASSUME NEW x PROVE FigureValues(x, k, y) = AccountingValues(x, k, "income", y)
  BY DEF FigureValues, UsesFormula
<1>4. ValueSource(b, k, y) \in {NULL, "MONITORING"}
  BY DEF ValueSource
<1> QED
  BY <1>1, <1>2, <1>3, <1>4

\* The number of students at the university: of the parts, or disclosed for two of them.
Summed(b, k, y) == [u \in Units |-> SumKnown([p \in OnParts(k) |-> StudentPart(b, k, p, y)[u]])]
Disclosing(b, k, y) == Enrolled \subseteq OnParts(k) /\ Official(b, Figures[k].code, y)[All] # NULL
Rest(b, k, y) == [p \in OnParts(k) \ Enrolled |-> StudentPart(b, k, p, y)[All]]

LEMMA StudentsAt ==
  ASSUME NEW b, NEW k, NEW y
  PROVE  StudentValues(b, k, y)[All] =
           IF Disclosing(b, k, y) THEN Official(b, Figures[k].code, y)[All] + SumOf(Rest(b, k, y))
           ELSE FillFromDepts(Summed(b, k, y))[All]
<1> DEFINE sums == FillFromDepts(Summed(b, k, y))
           n == Official(b, Figures[k].code, y)[All] + SumOf(Rest(b, k, y))
<1>1. All \in DOMAIN sums
  BY DEF FillFromDepts, Summed, Units
<1>2. StudentValues(b, k, y) = IF Disclosing(b, k, y) THEN [sums EXCEPT ![All] = n] ELSE sums
  BY Zenon DEF StudentValues, Disclosing, Summed, Rest
<1> HIDE DEF sums, n
<1>3. Disclosing(b, k, y) => StudentValues(b, k, y)[All] = n
  BY <1>1, <1>2
<1>4. ~Disclosing(b, k, y) => StudentValues(b, k, y)[All] = sums[All]
  BY <1>2
<1> QED
  BY <1>3, <1>4 DEF sums, n

LEMMA PartsAreNumbers ==
  ASSUME NEW b, BundleOK(b), b.table # NULL, NEW k, NEW p, NEW y
  PROVE  StudentPart(b, k, p, y)[All] \in Int \cup {NULL}
<1>1. Part(b, k, p, y)[All] \in Int \cup {NULL} /\ DOMAIN Part(b, k, p, y) = Units
  BY HierarchyIsNumber, HierarchyAt DEF Part, BundleOK
<1>2. \A c : Official(b, c, y)[All] \in Int \cup {NULL}
  BY HierarchyIsNumber, HierarchyAt DEF Official, BundleOK, Nothing, Units
<1> QED
  BY <1>1, <1>2, PreferredAt DEF StudentPart

\* Where a part comes from.
LEMMA PartFrom ==
  ASSUME NEW b, NEW k, NEW p, NEW y
  PROVE  LET disclosed == Official(b, Append(Figures[k].code, p), y)[All]
             part == StudentPart(b, k, p, y)
         IN /\ PartSource(b, k, p, y) \in {NULL, "ALIMI", "MONITORING"}
            /\ PartSource(b, k, p, y) = "ALIMI" <=> part[All] # NULL /\ disclosed # NULL
            /\ PartSource(b, k, p, y) = "MONITORING" <=> part[All] # NULL /\ disclosed = NULL
            /\ disclosed # NULL => part[All] = disclosed
            /\ disclosed = NULL => part = Part(b, k, p, y)
<1>1. NULL \notin {"ALIMI", "MONITORING"}
  BY BoardAssumption
<1>2. DOMAIN Part(b, k, p, y) = Units
  BY HierarchyAt DEF Part
<1> DEFINE o == Official(b, Append(Figures[k].code, p), y)
<1>3. StudentPart(b, k, p, y) = PreferOfficialUniversity(Part(b, k, p, y), o)
  BY DEF StudentPart
<1>4. PartSource(b, k, p, y) = ValueSourceAt(StudentPart(b, k, p, y)[All], o[All])
  BY DEF PartSource
<1> HIDE DEF o
<1>5. /\ o[All] # NULL => StudentPart(b, k, p, y)[All] = o[All]
      /\ o[All] = NULL => StudentPart(b, k, p, y) = Part(b, k, p, y)
  BY <1>2, <1>3, PreferredAt
<1>6. /\ PartSource(b, k, p, y) \in {NULL, "ALIMI", "MONITORING"}
      /\ PartSource(b, k, p, y) = "ALIMI" <=> StudentPart(b, k, p, y)[All] # NULL /\ o[All] # NULL
      /\ PartSource(b, k, p, y) = "MONITORING" <=> StudentPart(b, k, p, y)[All] # NULL /\ o[All] = NULL
  BY <1>1, <1>4 DEF ValueSourceAt
<1> QED
  BY <1>5, <1>6 DEF o

\* Which sources the number of students has.
LEMMA StudentsFrom ==
  ASSUME NEW b, NEW k, NEW y
  PROVE  /\ StudentSource(b, k, y) = "MONITORING" =>
              /\ ~Disclosing(b, k, y)
              /\ \A p \in OnParts(k) \ Enrolled : PartSource(b, k, p, y) # "ALIMI"
         /\ StudentSource(b, k, y) = "ALIMI" =>
              /\ Disclosing(b, k, y) \/ Enrolled \cap OnParts(k) = {}
              /\ \A p \in OnParts(k) \ Enrolled : PartSource(b, k, p, y) # "MONITORING"
              /\ Disclosing(b, k, y) \/ \E p \in OnParts(k) : PartSource(b, k, p, y) = "ALIMI"
<1> DEFINE first == IF Enrolled \cap OnParts(k) = {} THEN {}
                    ELSE IF Disclosing(b, k, y) THEN {"ALIMI"} ELSE {"MONITORING"}
           rest == {PartSource(b, k, p, y) : p \in OnParts(k) \ Enrolled}
           sources == first \cup rest
<1>1. NULL \notin {"ALIMI", "MONITORING", "MIXED"}
  BY BoardAssumption
<1>2. StudentSource(b, k, y) =
        IF StudentValues(b, k, y)[All] = NULL THEN NULL
        ELSE IF {"ALIMI", "MONITORING"} \subseteq sources THEN "MIXED"
        ELSE IF "ALIMI" \in sources THEN "ALIMI" ELSE "MONITORING"
  BY Zenon DEF StudentSource, Disclosing
<1>3. Disclosing(b, k, y) => Enrolled \cap OnParts(k) # {}
  BY DEF Disclosing, Enrolled
<1> HIDE DEF sources
<1>4. StudentSource(b, k, y) = "MONITORING" => "ALIMI" \notin sources
  BY <1>1, <1>2
<1>5. StudentSource(b, k, y) = "ALIMI" => "ALIMI" \in sources /\ "MONITORING" \notin sources
  BY <1>1, <1>2
<1> QED
  BY <1>3, <1>4, <1>5 DEF sources

LEMMA StudentLabelIsTrue ==
  ASSUME NEW b, BundleOK(b), b.table # NULL, NEW k \in DOMAIN Figures, Figures[k].kind = "students", NEW y
  PROVE  /\ StudentSource(b, k, y) = "MONITORING" =>
              StudentValues(Uploaded(b), k, y)[All] = StudentValues(b, k, y)[All]
         /\ StudentSource(b, k, y) = "ALIMI" =>
              StudentValues(OnlyDisclosed(b), k, y)[All] = StudentValues(b, k, y)[All]
<1> DEFINE n(x, p) == Official(x, Append(Figures[k].code, p), y)[All]
           code == Figures[k].code
           m == Uploaded(b)
           d == OnlyDisclosed(b)
<1>1. ASSUME StudentSource(b, k, y) = "MONITORING" PROVE StudentValues(m, k, y)[All] = StudentValues(b, k, y)[All]
  <2>1. ~Disclosing(m, k, y)
    BY UploadedBundle DEF Disclosing, Nothing, Units
  <2>2. ASSUME NEW p \in OnParts(k) PROVE n(b, p) = NULL
    <3>1. CASE p \in Enrolled
      <4>1. Append(code, p) \notin DOMAIN LinkTo
        BY <3>1, BoardAssumption
      <4>2. b.links = LinkTo
        BY DEF BundleOK
      <4> QED
        BY <4>1, <4>2 DEF Official, Nothing, Units
    <3>2. CASE p \notin Enrolled
      <4>1. PartSource(b, k, p, y) # "ALIMI"
        BY <1>1, <3>2, StudentsFrom
      <4> QED
        BY <4>1, PartFrom
    <3> QED
      BY <3>1, <3>2
  <2>3. ASSUME NEW p \in OnParts(k) PROVE StudentPart(m, k, p, y) = StudentPart(b, k, p, y)
    <3>1. n(m, p) = NULL
      BY UploadedBundle DEF Nothing, Units
    <3>2. Part(m, k, p, y) = Part(b, k, p, y)
      BY UploadedBundle DEF Part
    <3> QED
      BY <2>2, <3>1, <3>2, PartFrom
  <2>4. Summed(m, k, y) = Summed(b, k, y)
    BY <2>3 DEF Summed
  <2>5. ~Disclosing(b, k, y)
    BY <1>1, StudentsFrom
  <2> QED
    BY <2>1, <2>4, <2>5, StudentsAt
<1>2. ASSUME StudentSource(b, k, y) = "ALIMI" PROVE StudentValues(d, k, y)[All] = StudentValues(b, k, y)[All]
  <2>1. ASSUME NEW p \in OnParts(k) \ Enrolled PROVE StudentPart(d, k, p, y)[All] = StudentPart(b, k, p, y)[All]
    <3>1. n(d, p) = n(b, p)
      BY DisclosedBundle
    <3>2. CASE n(b, p) # NULL
      BY <3>1, <3>2, PartFrom
    <3>3. CASE n(b, p) = NULL
      <4>1. StudentPart(b, k, p, y)[All] = NULL
        BY <1>2, <3>3, PartFrom, StudentsFrom
      <4>2. \A i \in DOMAIN Parts[k][p] : \A u, x : Cell(d.table, Parts[k][p][i], u, x) = NULL
        <5>1. p \in DOMAIN Parts[k]
          BY DEF OnParts
        <5>2. \A i \in DOMAIN Parts[k][p] : Parts[k][p][i] \notin LinkedMetrics
          BY <5>1, BoardAssumption
        <5> QED
          BY <5>2, DisclosedBundle
      <4>3. Part(d, k, p, y)[All] = NULL
        BY <4>2, NoneIsMissing DEF Part
      <4> QED
        BY <3>1, <3>3, <4>1, <4>3, PartFrom
    <3> QED
      BY <3>2, <3>3
  <2>2. Rest(d, k, y) = Rest(b, k, y)
    BY <2>1 DEF Rest
  <2>3. Official(d, code, y)[All] = Official(b, code, y)[All]
    BY DisclosedBundle
  <2>4. Disclosing(d, k, y) <=> Disclosing(b, k, y)
    BY <2>3 DEF Disclosing
  <2>5. CASE Disclosing(b, k, y)
    BY <2>2, <2>3, <2>4, <2>5, StudentsAt
  <2>6. CASE ~Disclosing(b, k, y)
    <3> DEFINE f(x) == [p \in OnParts(k) |-> StudentPart(x, k, p, y)[All]]
    <3>1. Enrolled \cap OnParts(k) = {} /\ \E p \in OnParts(k) : PartSource(b, k, p, y) = "ALIMI"
      BY <1>2, <2>6, StudentsFrom
    <3>2. f(d) = f(b)
      BY <2>1, <3>1
    <3>3. Summed(d, k, y)[All] = SumKnown(f(d)) /\ Summed(b, k, y)[All] = SumKnown(f(b))
      BY DEF Summed, Units
    <3>4. SumKnown(f(b)) # NULL
      <4>1. IsFiniteSet(DOMAIN f(b))
        <5>1. IsFiniteSet(DOMAIN Parts[k]) /\ OnParts(k) \in SUBSET DOMAIN Parts[k]
          BY BoardAssumption DEF OnParts
        <5> QED
          BY <5>1, FS_Subset
      <4>2. Numbers(f(b))
        BY PartsAreNumbers DEF Numbers
      <4>3. \E p \in DOMAIN f(b) : f(b)[p] # NULL
        BY <3>1, PartFrom
      <4> HIDE DEF f
      <4> QED
        BY <4>1, <4>2, <4>3, SumsAreNumbers
    <3>5. FillFromDepts(Summed(d, k, y)) = Summed(d, k, y) /\ FillFromDepts(Summed(b, k, y)) = Summed(b, k, y)
      BY <3>2, <3>3, <3>4 DEF FillFromDepts
    <3> QED
      BY <2>4, <2>6, <3>2, <3>3, <3>5, StudentsAt
  <2> QED
    BY <2>5, <2>6
<1> QED
  BY <1>1, <1>2

LEMMA LabelsAreTrue ==
  ASSUME BoardInv
  PROVE  SourceTellsValue
<1> SUFFICES ASSUME Ready, NEW k \in DOMAIN Figures
             PROVE  /\ ValueSource(bundle, k, year) = "MONITORING" =>
                         FigureValues(Uploaded(bundle), k, year)[All] = FigureValues(bundle, k, year)[All]
                    /\ ValueSource(bundle, k, year) = "ALIMI" =>
                         FigureValues(OnlyDisclosed(bundle), k, year)[All] = FigureValues(bundle, k, year)[All]
  BY DEF SourceTellsValue, Uploaded, OnlyDisclosed
<1>1. BundleOK(bundle) /\ bundle.table # NULL
  BY DEF BoardInv, Ready
<1>2. CASE Figures[k].kind = "students"
  <2>1. ASSUME NEW b PROVE FigureValues(b, k, year) = StudentValues(b, k, year)
    BY <1>2 DEF FigureValues, UsesFormula
  <2>2. ValueSource(bundle, k, year) = StudentSource(bundle, k, year)
    BY <1>2 DEF ValueSource
  <2> QED
    BY <1>1, <1>2, <2>1, <2>2, StudentLabelIsTrue
<1>3. CASE Figures[k].kind = "accounting"
  BY <1>1, <1>3, SidesAreTrue
<1>4. CASE Figures[k].kind \notin {"students", "accounting"}
  BY <1>1, <1>4, PlainLabelIsTrue
<1> QED
  BY <1>2, <1>3, <1>4

LEMMA FetchedIsSound == BoardSpec => []BoardInv
<1>1. BoardInit => BoardInv
  BY DEF BoardInit, BoardInv
<1>2. BoardInv /\ [BoardNext]_boardVars => BoardInv'
  <2> SUFFICES ASSUME BoardInv, [BoardNext]_boardVars PROVE BoardInv'
    OBVIOUS
  <2>1. CASE FetchTree
    <3>1. bundle'.table = NULL /\ BundleOK(bundle')
      BY <2>1 DEF FetchTree, BundleOK
    <3> QED
      BY <2>1, <3>1 DEF BoardInv, FetchTree
  <2>2. CASE FetchPivot
    <3> DEFINE t == [c \in {x \in DOMAIN uploaded : x[1] \notin bundle.hidden \cup hidden} |-> uploaded[c]]
    <3>1. Numbers(t)
      BY DEF BoardInv, Numbers
    <3> HIDE DEF t
    <3>2. bundle # NULL /\ BundleOK(bundle) /\ uploaded' = uploaded /\ bundle' = [bundle EXCEPT !.table = t]
      BY <2>2 DEF FetchPivot, BoardInv, t
    <3>3. bundle' = [label |-> bundle.label, formula |-> bundle.formula, on |-> bundle.on, links |-> LinkTo,
                     years |-> bundle.years, hidden |-> bundle.hidden, table |-> t]
      BY <3>2 DEF BundleOK
    <3>4. BundleOK(bundle')
      BY <3>1, <3>3 DEF BundleOK
    <3> QED
      BY <3>2, <3>4 DEF BoardInv
  <2>3. CASE FetchFails
    BY <2>3 DEF FetchFails, BoardInv
  <2>4. ASSUME NEW x \in Uploads, UploadValue(x.metric, x.unit, x.year, x.value) PROVE BoardInv'
    <3>1. x.value \in Int \cup {NULL}
      BY BoardAssumption
    <3>2. Numbers(uploaded')
      BY <2>4, <3>1 DEF UploadValue, BoardInv, Numbers
    <3> QED
      BY <2>4, <3>2 DEF UploadValue, BoardInv
  <2>5. CASE UNCHANGED <<uploaded, bundle>>
    BY <2>5 DEF BoardInv
  <2> QED
    BY <2>1, <2>2, <2>3, <2>4, <2>5 DEF BoardNext, boardVars, OnComponentToggle, SelectYear, Hide
<1> QED
  BY <1>1, <1>2, PTL DEF BoardSpec

\* For every list of figures and whatever is uploaded, hidden and switched while the board
\* is fetched: a value labelled as uploaded is the one without disclosed values, and one
\* labelled as disclosed the one without any other.
THEOREM LabelsStayTrue == BoardSpec => []SourceTellsValue
<1>1. BoardInv => SourceTellsValue
  BY LabelsAreTrue
<1> QED
  BY <1>1, FetchedIsSound, PTL


-----------------------------------------------------------------------------
(* The bars.                                                               *)

\* A finite set of numbers has a greatest one.
LEMMA GreatestNumber ==
  ASSUME NEW S \in SUBSET Nat, IsFiniteSet(S), S # {}
  PROVE  Max(S) \in S
<1> DEFINE over(x) == {y \in S : y > x}
           sizes == {Cardinality(over(x)) : x \in S}
<1>1. ASSUME NEW x \in S PROVE over(x) \in SUBSET S /\ IsFiniteSet(over(x)) /\ Cardinality(over(x)) \in Nat
  <2>1. over(x) \in SUBSET S
    OBVIOUS
  <2> HIDE DEF over
  <2> QED
    BY <2>1, FS_Subset, FS_CardinalityType
<1>2. sizes \in SUBSET Nat /\ sizes # {}
  <2> HIDE DEF over
  <2> QED
    BY <1>1
<1>3. Min(sizes) \in sizes /\ \A n \in sizes : Min(sizes) <= n
  BY <1>2, MinIsLeast
<1>4. PICK x \in S : \A y \in S : Cardinality(over(x)) <= Cardinality(over(y))
  <2> HIDE DEF over
  <2> QED
    BY <1>3
<1>5. ASSUME NEW y \in S, y > x PROVE FALSE
  <2>1. over(y) \in SUBSET over(x) /\ y \in over(x) /\ y \notin over(y)
    <3>1. x \in Nat /\ y \in Nat /\ \A z \in S : z \in Nat
      OBVIOUS
    <3>2. \A z \in S : z > y => z > x
      BY <1>5, <3>1
    <3>3. ~(y > y)
      BY <3>1
    <3> QED
      BY <1>5, <3>2, <3>3
  <2>2. Cardinality(over(x)) <= Cardinality(over(y))
    BY <1>4
  <2> HIDE DEF over
  <2>3. Cardinality(over(y)) <= Cardinality(over(x))
    BY <1>1, <2>1, FS_Subset
  <2>4. Cardinality(over(x)) = Cardinality(over(y))
    BY <1>1, <2>2, <2>3
  <2>5. over(x) = over(y)
    BY <1>1, <2>1, <2>4, FS_Subset
  <2> QED
    BY <2>1, <2>5
<1>6. \A y \in S : x >= y
  BY <1>5
<1> QED
  BY <1>6 DEF Max

\* Values, and what the screen shows, are of years of the board.
YearsInv ==
  /\ year \in Years /\ \A c \in DOMAIN uploaded : c[3] \in Years
  /\ bundle # NULL => bundle.years \in SUBSET Years

\* Of a list of one metric it is that metric's row.
LEMMA OneHierarchy ==
  ASSUME NEW T, NEW ids, DOMAIN ids = {1}, NEW y \in Years, NEW u \in Units
  PROVE  ExtractHierarchy(T, ids, y)[u] = PivotRow(T, ids[1], y)[u]
<1> DEFINE with == {i \in DOMAIN ids : \E x \in Years : PivotRow(T, ids[i], x)[u] # NULL}
<1>1. ExtractHierarchy(T, ids, y)[u] = IF with = {} THEN NULL ELSE PivotRow(T, ids[Min(with)], y)[u]
  BY DEF ExtractHierarchy
<1>2. with \in SUBSET {1} /\ (with = {} => PivotRow(T, ids[1], y)[u] = NULL)
  OBVIOUS
<1> HIDE DEF with
<1>3. with # {} => Min(with) = 1
  <2>1. with \in SUBSET Nat
    BY <1>2
  <2> QED
    BY <1>2, <2>1, MinIsLeast
<1> QED
  BY <1>1, <1>2, <1>3

\* Without the values of the university as a whole the departments' own are left.
LEMMA DepartmentsKept ==
  ASSUME NEW T, NEW S, S = [c \in DOMAIN T \ UniversityCells(T) |-> T[c]], NEW m, NEW y, HasDeptLevel(T, m, y)
  PROVE  \A d \in OrgDepts : PivotRow(S, m, y)[d] = PivotRow(T, m, y)[d]
<1>1. All \notin OrgDepts \cup OtherUnits
  BY BoardAssumption DEF OrgDepts
<1>2. ASSUME NEW d \in OrgDepts \cup OtherUnits
      PROVE  (<<m, d, y>> \in DOMAIN S <=> <<m, d, y>> \in DOMAIN T) /\ Cell(S, m, d, y) = Cell(T, m, d, y)
  <2>1. <<m, d, y>>[2] = d
    OBVIOUS
  <2>2. <<m, d, y>> \notin UniversityCells(T)
    BY <1>1, <2>1 DEF UniversityCells
  <2> QED
    BY <2>2 DEF Cell
<1>3. HasDeptLevel(S, m, y)
  BY <1>2 DEF HasDeptLevel
<1> QED
  BY <1>1, <1>2, <1>3 DEF PivotRow, Units

\* A metric whose departments have no values shows the university's everywhere.
LEMMA BroadcastIsSeen ==
  ASSUME NEW T, NEW m, NEW y, ~HasDeptLevel(T, m, y)
  PROVE  \A u \in Units : PivotRow(T, m, y)[u] = Cell(T, m, All, y)
<1>1. \A d \in OrgDepts \cup OtherUnits : Cell(T, m, d, y) = NULL
  BY DEF HasDeptLevel, Cell
<1>2. SumKnown([d \in OrgDepts \cup OtherUnits |-> Cell(T, m, d, y)]) = NULL
  BY <1>1 DEF SumKnown
<1> QED
  BY <1>2 DEF PivotRow

LEMMA RowsOfDepartments ==
  ASSUME NEW v, NEW w, \A d \in OrgDepts : v[d] = w[d]
  PROVE  CompareRows(v) = CompareRows(w)
<1>1. \A s : SumKnown([d \in {x \in OrgDepts : SeriesOf[x] = s} |-> v[d]])
               = SumKnown([d \in {x \in OrgDepts : SeriesOf[x] = s} |-> w[d]])
  <2> SUFFICES ASSUME NEW s
               PROVE  [d \in {x \in OrgDepts : SeriesOf[x] = s} |-> v[d]] = [d \in {x \in OrgDepts : SeriesOf[x] = s} |-> w[d]]
    OBVIOUS
  <2> QED
    OBVIOUS
<1> DEFINE series(x) == {<<"series", s, SumKnown([d \in {z \in OrgDepts : SeriesOf[z] = s} |-> x[d]])>> :
                         s \in {SeriesOf[d] : d \in OrgDepts}}
           depts(x) == {<<"dept", d, x[d]>> : d \in OrgDepts}
<1>2. series(v) = series(w)
  BY <1>1
<1>3. depts(v) = depts(w)
  OBVIOUS
<1>4. \A x : CompareRows(x) = {r \in series(x) \cup depts(x) : r[3] # NULL}
  BY DEF CompareRows
<1> HIDE DEF series, depts
<1> QED
  BY <1>2, <1>3, <1>4

LEMMA BarsAreTrue ==
  ASSUME BoardInv, YearsInv
  PROVE  PlainBarsAreReal
<1> SUFFICES ASSUME Ready, NEW k \in DOMAIN Figures, Figures[k].kind = "direct",
                    Figures[k].code \notin DOMAIN LinkTo, DOMAIN Parts[k].own = {1}
             PROVE  BarsAreReal(k)
  BY DEF PlainBarsAreReal
<1> DEFINE ids == Parts[k].own
           m == ids[1]
           b == Lacking(bundle, UniversityCells(bundle.table))
           v(x) == FigureValues(x, k, year)
           E(x) == ExtractHierarchy(x.table, ids, year)
<1>1. BundleOK(bundle)
  BY DEF BoardInv, Ready
<1>2. b.links = LinkTo /\ bundle.links = LinkTo
      /\ b.table = [c \in DOMAIN bundle.table \ UniversityCells(bundle.table) |-> bundle.table[c]]
  <2> DEFINE t == [c \in DOMAIN bundle.table \ UniversityCells(bundle.table) |-> bundle.table[c]]
  <2>1. b = [bundle EXCEPT !.table = t]
    BY DEF Lacking
  <2> HIDE DEF t, b
  <2>2. b = [label |-> bundle.label, formula |-> bundle.formula, on |-> bundle.on, links |-> LinkTo,
             years |-> bundle.years, hidden |-> bundle.hidden, table |-> t]
    BY <1>1, <2>1 DEF BundleOK
  <2>3. bundle.links = LinkTo
    BY <1>1 DEF BundleOK
  <2> QED
    BY <2>2, <2>3 DEF t
<1> HIDE DEF b
<1>3. ASSUME NEW x, x.links = LinkTo PROVE v(x) = E(x)
  <2>1. v(x) = DirectValues(x, k, year)
    BY DEF FigureValues, UsesFormula
  <2>2. Official(x, Figures[k].code, year)[All] = NULL
    BY <1>3 DEF Official, Nothing, Units
  <2>3. DirectValues(x, k, year) = PreferOfficialUniversity(E(x), Official(x, Figures[k].code, year))
    BY DEF DirectValues, Part
  <2>4. DOMAIN E(x) = Units
    BY HierarchyAt
  <2> QED
    BY <2>1, <2>2, <2>3, <2>4, PreferredAt
<1>4. ASSUME NEW x, NEW u \in Units PROVE E(x)[u] = PivotRow(x.table, m, year)[u]
  <2>1. year \in Years /\ DOMAIN ids = {1}
    BY DEF YearsInv
  <2> HIDE DEF ids
  <2> QED
    BY <2>1, OneHierarchy
<1>5. Bars(bundle, k, year) = {<<"own", r>> : r \in BuildCompareRows(v(bundle))}
  BY DEF Bars
<1>6. BarsAreReal(k) <=> {r[2] : r \in Bars(bundle, k, year)} \subseteq CompareRows(v(b))
  BY DEF BarsAreReal, b
<1> HIDE DEF v, E, m
<1>7. CASE HasDeptLevel(bundle.table, m, year)
  <2>1. \A d \in OrgDepts : v(b)[d] = v(bundle)[d]
    BY <1>2, <1>3, <1>4, <1>7, DepartmentsKept DEF Units
  <2>2. CompareRows(v(bundle)) = CompareRows(v(b))
    BY <2>1, RowsOfDepartments
  <2> QED
    BY <1>5, <1>6, <2>2 DEF BuildCompareRows
<1>8. CASE ~HasDeptLevel(bundle.table, m, year)
  <2>1. \A u \in Units : v(bundle)[u] = Cell(bundle.table, m, All, year)
    BY <1>2, <1>3, <1>4, <1>8, BroadcastIsSeen
  <2>2. ~HasHierarchyData(v(bundle))
    BY <2>1 DEF HasHierarchyData, IsUnivBroadcastYear, Units
  <2> QED
    BY <1>5, <1>6, <2>2 DEF BuildCompareRows
<1> QED
  BY <1>7, <1>8

\* For every list of figures, organisation and table: what the board shows of a department
\* was uploaded for departments, if the figure is of one metric without a disclosed
\* counterpart; the university's value never stands in for theirs.
THEOREM BarsStayReal == BoardSpec => []PlainBarsAreReal
<1>1. BoardInit => YearsInv
  BY DEF BoardInit, YearsInv
<1>2. YearsInv /\ [BoardNext]_boardVars => YearsInv'
  <2> SUFFICES ASSUME YearsInv, [BoardNext]_boardVars PROVE YearsInv'
    OBVIOUS
  <2>1. CASE FetchTree
    BY <2>1 DEF FetchTree, YearsInv, AvailableYears
  <2>2. CASE FetchPivot
    <3>1. bundle # NULL /\ bundle.years \in SUBSET Years
      BY <2>2 DEF FetchPivot, YearsInv
    <3>2. bundle.years # {} => Max(bundle.years) \in bundle.years
      <4>1. bundle.years \in SUBSET Nat /\ IsFiniteSet(bundle.years)
        BY <3>1, BoardAssumption, FS_Subset
      <4> QED
        BY <4>1, GreatestNumber
    <3>3. year' \in Years /\ uploaded' = uploaded
      BY <2>2, <3>1, <3>2 DEF FetchPivot, YearsInv
    <3>4. bundle' # NULL => bundle'.years = bundle.years
      BY <2>2 DEF FetchPivot
    <3> QED
      BY <3>1, <3>3, <3>4 DEF YearsInv
  <2>3. CASE FetchFails
    BY <2>3 DEF FetchFails, YearsInv
  <2>4. ASSUME NEW k, NEW p, OnComponentToggle(k, p) PROVE YearsInv'
    BY <2>4 DEF OnComponentToggle, YearsInv
  <2>5. ASSUME NEW y \in Years, SelectYear(y) PROVE YearsInv'
    BY <2>5 DEF SelectYear, YearsInv
  <2>6. ASSUME NEW x \in Uploads, UploadValue(x.metric, x.unit, x.year, x.value) PROVE YearsInv'
    <3>1. x.year \in Years /\ <<x.metric, x.unit, x.year>>[3] = x.year
      BY BoardAssumption
    <3> QED
      BY <2>6, <3>1 DEF UploadValue, YearsInv
  <2>7. ASSUME NEW n, Hide(n) PROVE YearsInv'
    BY <2>7 DEF Hide, YearsInv
  <2>8. CASE UNCHANGED boardVars
    BY <2>8 DEF boardVars, YearsInv
  <2> QED
    BY <2>1, <2>2, <2>3, <2>4, <2>5, <2>6, <2>7, <2>8 DEF BoardNext
<1>3. BoardInv /\ YearsInv => PlainBarsAreReal
  BY BarsAreTrue
<1> QED
  BY <1>1, <1>2, <1>3, FetchedIsSound, PTL DEF BoardSpec

-----------------------------------------------------------------------------
(* The metric tree: no metric becomes its own ancestor.                   *)

USE TreeAssumption, DeskAssumption

\* A place, or a row that is sent, is of a category and hangs under an older metric.
Fits(m, place) ==
  place.cat \in Categories /\ (place.parent = NULL \/ place.parent \in 1..(m - 1))

RegistryOk ==
  /\ node \in [MetricIds -> Place \cup {NULL}]
  /\ nextId \in Nat \ {0}
  /\ \A m \in Stored : m < nextId /\ Fits(m, node[m])

ViewsOk ==
  /\ view = [b \in Browsers |-> view[b]]
  /\ saving = [b \in Browsers |-> saving[b]]
  /\ \A b \in Browsers : view[b] # NULL =>
       /\ DOMAIN view[b] \subseteq MetricIds
       /\ \A m \in DOMAIN view[b] : view[b][m] \in Place /\ Fits(m, view[b][m])
  /\ \A b \in Browsers : saving[b] # {} => view[b] # NULL /\ saving[b] \subseteq DOMAIN view[b]

\* The inductive invariant.
OlderParents == RegistryOk /\ ViewsOk /\ cats \subseteq Categories

-----------------------------------------------------------------------------
(* The helpers.                                                            *)

\* What is left after a deletion is what was there, under its parent or none.
LEMMA RemainingFits ==
  ASSUME RegistryOk, NEW gone
  PROVE  /\ Remaining(gone) \in [MetricIds -> Place \cup {NULL}]
         /\ \A m \in MetricIds : Remaining(gone)[m] # NULL =>
              m < nextId /\ Fits(m, Remaining(gone)[m])
<1> SUFFICES ASSUME NEW m \in MetricIds
             PROVE  /\ Remaining(gone)[m] \in Place \cup {NULL}
                    /\ Remaining(gone)[m] # NULL => m < nextId /\ Fits(m, Remaining(gone)[m])
  BY DEF Remaining
<1>1. CASE m \in gone \/ ~Exists(m)
  BY <1>1 DEF Remaining
<1>2. CASE m \notin gone /\ Exists(m)
  <2>1. node[m] \in Place /\ m < nextId /\ Fits(m, node[m])
    BY <1>2 DEF RegistryOk, Exists, Stored
  <2>2. Remaining(gone)[m] \in {node[m], [node[m] EXCEPT !.parent = NULL]}
    BY <1>2 DEF Remaining
  <2> QED
    BY <2>1, <2>2 DEF Place, Fits
<1> QED
  BY <1>1, <1>2

\* A metric is loaded with its parent or without.
LEMMA NestedFits ==
  ASSUME RegistryOk, NEW m \in Stored
  PROVE  Nested(m) \in Place /\ Fits(m, Nested(m))
<1>1. node[m] \in Place /\ Fits(m, node[m])
  BY DEF RegistryOk, Exists, Stored
<1>2. Nested(m) \in {node[m], [node[m] EXCEPT !.parent = NULL]}
  BY DEF Nested
<1> QED
  BY <1>1, <1>2 DEF Place, Fits

\* A move changes categories and takes parents away, and gives none.
LEMMA MovedFits ==
  ASSUME ViewsOk, NEW b \in Browsers, view[b] # NULL, NEW S, NEW c \in Categories
  PROVE  /\ DOMAIN Moved(b, S, c) = DOMAIN view[b]
         /\ \A m \in DOMAIN view[b] : Moved(b, S, c)[m] \in Place /\ Fits(m, Moved(b, S, c)[m])
<1>1. DOMAIN Moved(b, S, c) = DOMAIN view[b]
  BY DEF Moved
<1>2. ASSUME NEW m \in DOMAIN view[b]
      PROVE  Moved(b, S, c)[m] \in Place /\ Fits(m, Moved(b, S, c)[m])
  <2>1. view[b][m] \in Place /\ Fits(m, view[b][m])
    BY DEF ViewsOk
  <2>2. Moved(b, S, c)[m] \in {[cat |-> c, parent |-> NULL], [view[b][m] EXCEPT !.cat = c], view[b][m]}
    BY DEF Moved
  <2> QED
    BY <2>1, <2>2 DEF Place, Fits
<1> QED
  BY <1>1, <1>2

-----------------------------------------------------------------------------
(* Every step keeps OlderParents.                                          *)

LEMMA InitOlder == TreeInit => OlderParents
BY DEF TreeInit, OlderParents, RegistryOk, ViewsOk, Stored, Exists, Place

LEMMA CreateOlder ==
  ASSUME OlderParents, NEW c \in Categories, NEW p \in MetricIds \cup {NULL}, CreateMetric(c, p)
  PROVE  OlderParents'
<1>1. nextId \in MetricIds
  BY DEF CreateMetric, MetricIds, OlderParents, RegistryOk
<1>2. p = NULL \/ p \in 1..(nextId - 1)
  BY DEF CreateMetric, ParentOk, OlderParents, RegistryOk, Stored, MetricIds
<1> DEFINE place == [cat |-> c, parent |-> p]
<1>3. place \in Place /\ Fits(nextId, place)
  BY <1>2 DEF Place, Fits
<1>4. ViewsOk'
  BY DEF CreateMetric, OlderParents, ViewsOk
<1>5. RegistryOk'
  <2>1. node' \in [MetricIds -> Place \cup {NULL}] /\ nextId' \in Nat \ {0}
    <3> HIDE DEF place
    <3>1. node' = [node EXCEPT ![nextId] = place] /\ nextId' = nextId + 1
      BY DEF CreateMetric, place
    <3> QED
      BY <1>1, <1>3, <3>1 DEF OlderParents, RegistryOk
  <2>2. ASSUME NEW m \in Stored'
        PROVE  m < nextId' /\ Fits(m, node'[m])
    <3>1. CASE m = nextId
      BY <1>1, <1>3, <3>1 DEF CreateMetric, OlderParents, RegistryOk
    <3>2. CASE m # nextId
      <4>1. m \in Stored /\ node'[m] = node[m]
        BY <3>2, <2>2 DEF CreateMetric, OlderParents, RegistryOk, Stored, Exists
      <4> QED
        BY <4>1 DEF CreateMetric, OlderParents, RegistryOk, Stored, MetricIds
    <3> QED
      BY <3>1, <3>2
  <2> QED
    BY <2>1, <2>2 DEF RegistryOk, Fits
<1> QED
  BY <1>4, <1>5 DEF OlderParents, CreateMetric

\* A step after which the registry is what a deletion left, and no copy has changed.
LEMMA DeleteOlder ==
  ASSUME OlderParents, NEW gone, node' = Remaining(gone), cats' \subseteq cats,
         UNCHANGED <<nextId, view, saving>>
  PROVE  OlderParents'
<1>1. ViewsOk'
  BY DEF OlderParents, ViewsOk
<1>2. RegistryOk'
  BY RemainingFits DEF OlderParents, RegistryOk, Stored, Exists, Fits
<1> QED
  BY <1>1, <1>2 DEF OlderParents

\* A step that gives one browser another copy, or has it begin or end a save.
LEMMA ViewOlder ==
  ASSUME OlderParents, NEW b \in Browsers, NEW copy, NEW left,
         view' = [view EXCEPT ![b] = copy], saving' = [saving EXCEPT ![b] = left],
         copy # NULL =>
           /\ DOMAIN copy \subseteq MetricIds
           /\ \A m \in DOMAIN copy : copy[m] \in Place /\ Fits(m, copy[m]),
         left # {} => copy # NULL /\ left \subseteq DOMAIN copy,
         UNCHANGED <<node, nextId, cats>>
  PROVE  OlderParents'
<1>1. RegistryOk'
  BY DEF OlderParents, RegistryOk, Stored, Exists
<1>2. \A d \in Browsers : view'[d] = (IF d = b THEN copy ELSE view[d])
                          /\ saving'[d] = (IF d = b THEN left ELSE saving[d])
  BY DEF OlderParents, ViewsOk
<1>3. view' = [d \in Browsers |-> view'[d]] /\ saving' = [d \in Browsers |-> saving'[d]]
  BY DEF OlderParents, ViewsOk
<1>4. \A d \in Browsers : view'[d] # NULL =>
         /\ DOMAIN view'[d] \subseteq MetricIds
         /\ \A m \in DOMAIN view'[d] : view'[d][m] \in Place /\ Fits(m, view'[d][m])
  BY <1>2 DEF OlderParents, ViewsOk
<1>5. \A d \in Browsers : saving'[d] # {} => view'[d] # NULL /\ saving'[d] \subseteq DOMAIN view'[d]
  BY <1>2 DEF OlderParents, ViewsOk
<1>6. ViewsOk'
  BY <1>3, <1>4, <1>5 DEF ViewsOk, Place, MetricIds, Fits
<1> QED
  BY <1>1, <1>6 DEF OlderParents

LEMMA LoadOlder ==
  ASSUME OlderParents, NEW b \in Browsers, Load(b)
  PROVE  OlderParents'
<1> DEFINE copy == [m \in Stored |-> Nested(m)]
<1>1. DOMAIN copy \subseteq MetricIds /\ \A m \in DOMAIN copy : copy[m] \in Place /\ Fits(m, copy[m])
  BY NestedFits DEF OlderParents, Stored
<1>2. view' = [view EXCEPT ![b] = copy] /\ saving' = [saving EXCEPT ![b] = {}]
  BY DEF Load, OlderParents, ViewsOk
<1> HIDE DEF copy
<1> QED
  BY <1>1, <1>2, ViewOlder DEF Load

LEMMA MoveOlder ==
  ASSUME OlderParents, NEW b \in Browsers, NEW S, NEW c \in Categories, Move(b, S, c)
  PROVE  OlderParents'
<1> DEFINE copy == Moved(b, S, c)
<1>1. DOMAIN copy \subseteq MetricIds /\ \A m \in DOMAIN copy : copy[m] \in Place /\ Fits(m, copy[m])
  BY MovedFits DEF Move, OlderParents, ViewsOk
<1>2. view' = [view EXCEPT ![b] = copy] /\ saving' = [saving EXCEPT ![b] = {}]
  BY DEF Move, OlderParents, ViewsOk
<1> HIDE DEF copy
<1> QED
  BY <1>1, <1>2, ViewOlder DEF Move

LEMMA SaveOlder ==
  ASSUME OlderParents, NEW b \in Browsers, Save(b)
  PROVE  OlderParents'
<1>1. view' = [view EXCEPT ![b] = view[b]] /\ saving' = [saving EXCEPT ![b] = DOMAIN view[b]]
  BY DEF Save, OlderParents, ViewsOk
<1>2. view[b] # NULL /\ DOMAIN view[b] \subseteq MetricIds
      /\ \A m \in DOMAIN view[b] : view[b][m] \in Place /\ Fits(m, view[b][m])
  BY DEF Save, OlderParents, ViewsOk
<1> QED
  BY <1>1, <1>2, ViewOlder DEF Save

LEMMA SaveRowOlder ==
  ASSUME OlderParents, NEW b \in Browsers, SaveRow(b)
  PROVE  OlderParents'
<1> PICK m \in saving[b] :
      /\ node' = IF Exists(m) /\ RowFits(b, m) THEN [node EXCEPT ![m] = view[b][m]] ELSE node
      /\ saving' = [saving EXCEPT ![b] = IF Exists(m) /\ ~RowFits(b, m) THEN {} ELSE saving[b] \ {m}]
      /\ UNCHANGED <<refs, cats, nextId, view, doomed>>
  BY DEF SaveRow, OlderParents, ViewsOk
<1>1. view[b] # NULL /\ m \in DOMAIN view[b] /\ m \in MetricIds
      /\ view[b][m] \in Place /\ Fits(m, view[b][m])
  BY DEF OlderParents, ViewsOk
<1>2. RegistryOk'
  <2>1. node' \in [MetricIds -> Place \cup {NULL}] /\ nextId' \in Nat \ {0}
    BY <1>1 DEF OlderParents, RegistryOk
  <2>2. ASSUME NEW k \in Stored'
        PROVE  k < nextId' /\ Fits(k, node'[k])
    <3>1. k \in Stored /\ node'[k] \in {node[k], view[b][k]}
          /\ (node'[k] # node[k] => k = m)
      BY <1>1, <2>2 DEF OlderParents, RegistryOk, Stored, Exists
    <3> QED
      BY <1>1, <3>1 DEF OlderParents, RegistryOk
  <2> QED
    BY <2>1, <2>2 DEF RegistryOk, Fits
<1>3. ViewsOk'
  <2>1. \A d \in Browsers : saving'[d] \subseteq saving[d]
    BY DEF OlderParents, ViewsOk
  <2>2. saving' = [d \in Browsers |-> saving'[d]]
    BY DEF OlderParents, ViewsOk
  <2> QED
    BY <2>1, <2>2 DEF OlderParents, ViewsOk
<1> QED
  BY <1>2, <1>3 DEF OlderParents

LEMMA NextOlder ==
  ASSUME OlderParents, [TreeNext]_tvars
  PROVE  OlderParents'
<1>1. CASE UNCHANGED tvars
  BY <1>1 DEF tvars, OlderParents, RegistryOk, ViewsOk, Stored, Exists
<1>2. ASSUME NEW c \in Categories, CreateCategory(c)
      PROVE  OlderParents'
  BY <1>2 DEF CreateCategory, OlderParents, RegistryOk, ViewsOk, Stored, Exists
<1>3. ASSUME NEW S, StartDelete(S)
      PROVE  OlderParents'
  BY <1>3 DEF StartDelete, OlderParents, RegistryOk, ViewsOk, Stored, Exists
<1>4. ASSUME NEW c \in Categories, DropCategory(c)
      PROVE  OlderParents'
  BY <1>4, DeleteOlder DEF DropCategory
<1>5. CASE FinishDelete
  BY <1>5, DeleteOlder DEF FinishDelete
<1>6. ASSUME NEW m, NEW rs, SetFormula(m, rs)
      PROVE  OlderParents'
  BY <1>6 DEF SetFormula, OlderParents, RegistryOk, ViewsOk, Stored, Exists
<1> QED
  BY <1>1, <1>2, <1>3, <1>4, <1>5, <1>6, CreateOlder, LoadOlder, MoveOlder, SaveOlder, SaveRowOlder
  DEF TreeNext, DeleteMetric, DeleteCategory

\* In every reachable state a metric is newer than its parent, in the registry
\* (ir_metric_registry) and in every copy of the tree a screen shows.
THEOREM OlderParentsAlways == TreeSpec => []OlderParents
<1> QED
  BY InitOlder, NextOlder, PTL DEF TreeSpec

\* No metric is its own ancestor, however saves of old copies of the tree, deletions
\* and new metrics interleave: of a set of metrics the oldest hangs outside of it.
THEOREM NoCycleAlways == TreeSpec => []NoCycle
<1>1. OlderParents => NoCycle
  <2> SUFFICES ASSUME OlderParents, NEW S \in SUBSET Stored, S # {}
               PROVE  \E m \in S : node[m].parent \notin S
    BY DEF NoCycle
  <2>1. S \in SUBSET Nat
    BY DEF Stored, MetricIds
  <2>2. PICK m \in S : \A k \in S : m <= k
    BY <2>1, LeastNumber
  <2>3. node[m].parent = NULL \/ node[m].parent \in 1..(m - 1)
    BY DEF OlderParents, RegistryOk, Fits
  <2>4. node[m].parent \notin S
    <3>1. CASE node[m].parent = NULL
      BY <2>1, <3>1
    <3>2. CASE node[m].parent \in 1..(m - 1)
      BY <2>1, <2>2, <3>2
    <3> QED
      BY <2>3, <3>1, <3>2
  <2> QED
    BY <2>4
<1> QED
  BY <1>1, OlderParentsAlways, PTL

-----------------------------------------------------------------------------
(* An undisturbed save is complete.                                        *)

Tidy == OlderParents /\ alone \subseteq Browsers /\ SaveIsComplete

LEMMA NextTidy ==
  ASSUME Tidy, [TreeNext]_tvars
  PROVE  Tidy'
<1> USE DEF Tidy
<1>0. OlderParents'
  BY NextOlder
<1>1. CASE UNCHANGED tvars
  BY <1>0, <1>1 DEF tvars, SaveIsComplete, Exists
<1>2. ASSUME UNCHANGED <<node, view, saving, alone>>
      PROVE  Tidy'
  BY <1>0, <1>2 DEF SaveIsComplete, Exists
<1>3. ASSUME alone' = {}
      PROVE  Tidy'
  BY <1>0, <1>3 DEF SaveIsComplete
<1>4. ASSUME NEW b \in Browsers, NEW copy, alone' = alone \ {b},
             view' = [view EXCEPT ![b] = copy], UNCHANGED <<node, saving>>
      PROVE  Tidy'
  <2>1. \A d \in alone' : d \in alone /\ view'[d] = view[d] /\ saving'[d] = saving[d]
    BY <1>4 DEF OlderParents, ViewsOk
  <2> QED
    BY <1>0, <1>4, <2>1 DEF SaveIsComplete, Exists
<1>5. ASSUME NEW b \in Browsers, Save(b)
      PROVE  Tidy'
  <2>1. alone' \subseteq {b} /\ saving'[b] = DOMAIN view'[b]
    BY <1>5 DEF Save, OlderParents, ViewsOk
  <2> QED
    BY <1>0, <1>5, <2>1 DEF SaveIsComplete
<1>6. ASSUME NEW b \in Browsers, SaveRow(b)
      PROVE  Tidy'
  <2> PICK m \in saving[b] :
        /\ node' = IF Exists(m) /\ RowFits(b, m) THEN [node EXCEPT ![m] = view[b][m]] ELSE node
        /\ saving' = [saving EXCEPT ![b] = IF Exists(m) /\ ~RowFits(b, m) THEN {} ELSE saving[b] \ {m}]
        /\ alone' = IF Exists(m) /\ ~RowFits(b, m) THEN {} ELSE alone \cap {b}
        /\ view' = view
    BY <1>6 DEF SaveRow, OlderParents, ViewsOk
  <2>1. CASE Exists(m) /\ ~RowFits(b, m)
    BY <1>3, <2>1
  <2>2. CASE ~(Exists(m) /\ ~RowFits(b, m))
    <3>1. alone' \subseteq alone \cap {b} /\ saving'[b] = saving[b] \ {m}
      BY <2>2 DEF OlderParents, ViewsOk
    <3>2. m \in MetricIds /\ DOMAIN view[b] \subseteq MetricIds
      BY DEF OlderParents, ViewsOk
    <3>3. \A k \in MetricIds : node'[k] = IF k = m /\ Exists(m) THEN view[b][m] ELSE node[k]
      BY <2>2, <3>2 DEF OlderParents, RegistryOk
    <3>4. ASSUME b \in alone', NEW k \in DOMAIN view[b] \ saving'[b], Exists(k)'
          PROVE  node'[k] = view[b][k]
      <4>1. CASE k = m
        BY <3>2, <3>3, <3>4, <4>1 DEF Exists
      <4>2. CASE k # m
        BY <3>1, <3>2, <3>3, <3>4, <4>2 DEF SaveIsComplete, Exists
      <4> QED
        BY <4>1, <4>2
    <3> QED
      BY <1>0, <3>1, <3>4 DEF SaveIsComplete
  <2> QED
    BY <2>1, <2>2
<1>7. ASSUME NEW b \in Browsers, Load(b)
      PROVE  Tidy'
  BY <1>4, <1>7 DEF Load
<1>8. ASSUME NEW b \in Browsers, NEW S, NEW c, Move(b, S, c)
      PROVE  Tidy'
  BY <1>4, <1>8 DEF Move
<1> QED
  BY <1>1, <1>2, <1>3, <1>5, <1>6, <1>7, <1>8
  DEF TreeNext, DeleteMetric, DeleteCategory, StartDelete, FinishDelete, DropCategory,
      CreateCategory, CreateMetric, SetFormula

\* A save (PUT /metrics/reorder) that no other change came between leaves every metric
\* that is still there where the administrator saw it.
THEOREM SaveIsCompleteAlways == TreeSpec => []SaveIsComplete
<1>1. TreeInit => Tidy
  BY InitOlder DEF Tidy, SaveIsComplete, TreeInit
<1>2. Tidy => SaveIsComplete
  BY DEF Tidy
<1> QED
  BY <1>1, <1>2, NextTidy, PTL DEF TreeSpec
-----------------------------------------------------------------------------
(* The desk: a row that is inserted gets an id that no request holds.      *)

\* Every request holds at most one row of a key, and there is one id more than requests.
LEMMA FreshIdExists ==
  ASSUME RawTypeOK, NEW k \in Keys
  PROVE  FreshId(k) \in RowIds
<1>1. Cardinality(Requests) \in Nat
  BY FS_CardinalityType
<1>2. \E i \in RowIds : i \notin Held(k)
  <2> SUFFICES ASSUME RowIds \subseteq Held(k)
               PROVE  FALSE
    OBVIOUS
  <2> DEFINE Holds(q, i) == req[q].kind \in {"update", "remove"} /\ \E r \in req[q].rows : r.key = k /\ r.id = i
  <2>1. \A i \in RowIds : \E q \in Requests : Holds(q, i)
    BY DEF Held
  <2>2. ASSUME NEW q \in Requests, NEW i, NEW j, Holds(q, i), Holds(q, j)
        PROVE  i = j
    <3>1. Request(req[q])
      BY DEF RawTypeOK
    <3>2. CASE req[q].kind = "update"
      BY <2>2, <3>1, <3>2 DEF Request, Idle
    <3>3. CASE req[q].kind = "remove"
      BY <2>2, <3>1, <3>3 DEF Request, Idle
    <3> QED
      BY <2>2, <3>2, <3>3
  <2> HIDE DEF Holds
  <2> DEFINE f == [i \in RowIds |-> CHOOSE q \in Requests : Holds(q, i)]
  <2>3. \A i \in RowIds : f[i] \in Requests /\ Holds(f[i], i)
    BY <2>1
  <2>4. f \in [RowIds -> Requests]
    BY <2>3
  <2>5. \A i, j \in RowIds : f[i] = f[j] => i = j
    BY <2>2, <2>3
  <2>6. IsFiniteSet(RowIds) /\ Cardinality(RowIds) = Cardinality(Requests) + 1
    BY <1>1, FS_Interval DEF RowIds
  <2>7. Cardinality(Requests) < Cardinality(RowIds)
    BY <1>1, <2>6
  <2> HIDE DEF f
  <2> QED
    BY <2>4, <2>5, <2>6, <2>7, FS_PigeonHole
<1> DEFINE S == RowIds \ Held(k)
<1>3. S \in SUBSET Nat /\ S # {}
  BY <1>1, <1>2 DEF RowIds
<1> HIDE DEF S
<1>4. PICK m \in S : \A n \in S : m <= n
  BY <1>3, LeastNumber
<1>5. Min(S) \in S
  BY <1>4 DEF Min
<1> QED
  BY <1>5 DEF S, FreshId

LEMMA InitDesk == RawInit => RawTypeOK /\ AuditTellsValue /\ DeptMetricsNamed
<1>s. SUFFICES ASSUME RawInit
             PROVE  RawTypeOK /\ AuditTellsValue /\ DeptMetricsNamed
  OBVIOUS
<1>1. 1 \in RowIds
  BY FS_CardinalityType DEF RowIds
<1>2. raw = [k \in Keys |-> raw[k]]
      /\ \A k \in Keys : raw[k] = NULL \/ (raw[k] \in Row /\ k[1] = University)
  <2>1. CASE raw = [k \in Keys |-> NULL]
    BY <2>1
  <2>2. CASE \E m \in RawMetrics, v \in Values, l \in BOOLEAN :
               raw = [k \in Keys |-> IF k = <<University, m>> THEN [id |-> 1, value |-> v, locked |-> l] ELSE NULL]
    <3> PICK m \in RawMetrics, v \in Values, l \in BOOLEAN :
               raw = [k \in Keys |-> IF k = <<University, m>> THEN [id |-> 1, value |-> v, locked |-> l] ELSE NULL]
      BY <2>2
    <3>1. [id |-> 1, value |-> v, locked |-> l] \in Row
      BY <1>1 DEF Row
    <3> QED
      BY <3>1
  <2>3. raw \in {[k \in Keys |-> NULL]} \cup
          {[k \in Keys |-> IF k = <<University, m>> THEN [id |-> 1, value |-> v, locked |-> l] ELSE NULL] :
             m \in RawMetrics, v \in Values, l \in BOOLEAN}
    BY <1>s DEF RawInit
  <2> QED
    BY <2>1, <2>2, <2>3
<1>3. raw \in [Keys -> {NULL} \cup Row]
  BY <1>2
<1>4. name \in [RawMetrics -> Names]
  <2>1. name \in [RawMetrics -> Bases \X {"plain"}]
    BY <1>s DEF RawInit
  <2> QED
    BY <2>1 DEF Names
<1>5. RawTypeOK
  BY <1>s, <1>3, <1>4 DEF RawInit, RawTypeOK, Request
<1>6. \A m \in RawMetrics : ~DeptLevel(raw, m)
  <2>1. ASSUME NEW m \in RawMetrics, NEW d \in Depts
        PROVE  raw[<<d, m>>] = NULL
    <3>1. <<d, m>> \in Keys /\ <<d, m>>[1] # University
      BY DEF Keys
    <3> QED
      BY <1>2, <3>1
  <2> QED
    BY <2>1 DEF DeptLevel
<1>7. AuditTellsValue
  BY <1>s DEF RawInit, AuditTellsValue
<1> QED
  BY <1>5, <1>6, <1>7 DEF DeptMetricsNamed

-----------------------------------------------------------------------------
(* Every step of the desk keeps its invariant.                             *)

DeskInv == RawTypeOK /\ AuditTellsValue /\ DeptMetricsNamed

\* A request that is given something to hold, or nothing.
LEMMA RequestKept ==
  ASSUME RawTypeOK, NEW q \in Requests, NEW r, Request(r), req' = [req EXCEPT ![q] = r]
  PROVE  /\ req' = [p \in Requests |-> req'[p]]
         /\ \A p \in Requests : Request(req'[p])
BY DEF RawTypeOK

LEMMA ReadKept ==
  ASSUME DeskInv, NEW q \in Requests, NEW r, Request(r), req' = [req EXCEPT ![q] = r],
         UNCHANGED <<name, raw, audit, last, raced>>
  PROVE  DeskInv'
<1>1. RawTypeOK'
  BY RequestKept DEF DeskInv, RawTypeOK
<1> QED
  BY <1>1 DEF DeskInv, AuditTellsValue, DeptMetricsNamed, Present, DeptLevel, HasSuffix

LEMMA IdleIsRequest == Request(Idle)
BY DEF Request

\* A row is sent with a value, whether it is left out or not.
LEMMA ReadUploadKept ==
  ASSUME DeskInv, NEW q \in Requests, NEW source, NEW overwrite, NEW confirmLocked,
         ReadUpload(q, source, overwrite, confirmLocked)
  PROVE  DeskInv'
<1> PICK file \in Files(source) :
      req' = [req EXCEPT ![q] = [kind |-> "upload", rows |-> ToApply(file, overwrite), asked |-> overwrite,
                                 confirmed |-> overwrite /\ confirmLocked]]
  BY DEF ReadUpload
<1> DEFINE r == [kind |-> "upload", rows |-> ToApply(file, overwrite), asked |-> overwrite,
                 confirmed |-> overwrite /\ confirmLocked]
<1>1. PICK K \in SUBSET Keys : file \in [K -> Values]
  BY DEF Files, Resolvable, Keys
<1>2. DOMAIN ToApply(file, overwrite) \subseteq Keys
      /\ \A k \in DOMAIN ToApply(file, overwrite) : ToApply(file, overwrite)[k] \in Values
  BY <1>1 DEF ToApply, Restrict
<1>3. Request(r)
  BY <1>2 DEF Request
<1>4. req' = [req EXCEPT ![q] = r] /\ UNCHANGED <<name, raw, audit, last, raced>>
  BY DEF ReadUpload
<1> HIDE DEF r
<1> QED
  BY <1>3, <1>4, ReadKept

LEMMA ReadUpdateKept ==
  ASSUME DeskInv, NEW q \in Requests, NEW k \in Keys, NEW v \in Values, ReadUpdate(q, k, v)
  PROVE  DeskInv'
<1> DEFINE r == [kind |-> "update", rows |-> {Snapshot(k)}, new |-> v]
<1>1. Snapshot(k) \in Snapshots
  BY DEF ReadUpdate, Present, Snapshot, Snapshots, DeskInv, RawTypeOK, Row
<1>2. Request(r)
  BY <1>1 DEF Request
<1>3. req' = [req EXCEPT ![q] = r] /\ UNCHANGED <<name, raw, audit, last, raced>>
  BY DEF ReadUpdate
<1> HIDE DEF r
<1> QED
  BY <1>2, <1>3, ReadKept

LEMMA ReadRemoveKept ==
  ASSUME DeskInv, NEW q \in Requests, NEW ks \in SUBSET Keys, ReadRemove(q, ks)
  PROVE  DeskInv'
<1> DEFINE r == [kind |-> "remove", rows |-> {Snapshot(k) : k \in ks}]
<1>1. \A k \in ks : Snapshot(k) \in Snapshots
  BY DEF ReadRemove, Removable, Present, Snapshot, Snapshots, DeskInv, RawTypeOK, Row
<1>2. Request(r)
  BY <1>1 DEF Request, Snapshot
<1>3. req' = [req EXCEPT ![q] = r] /\ UNCHANGED <<name, raw, audit, last, raced>>
  BY DEF ReadRemove
<1> HIDE DEF r
<1> QED
  BY <1>2, <1>3, ReadKept

LEMMA ReadRenameKept ==
  ASSUME DeskInv, NEW q \in Requests, NEW m \in RawMetrics, NEW base \in Bases,
         NEW typed \in {"plain", "dept"}, ReadRename(q, m, base, typed)
  PROVE  DeskInv'
<1> DEFINE new == <<base, IF HasSuffix(name[m]) THEN "dept" ELSE typed>>
<1> DEFINE r == [kind |-> "rename", metric |-> m, name |-> new]
<1>1. new \in Names
  BY DEF Names
<1>2. Request(r)
  BY <1>1 DEF Request
<1>3. req' = [req EXCEPT ![q] = r] /\ UNCHANGED <<name, raw, audit, last, raced>>
  BY DEF ReadRename
<1> HIDE DEF r
<1> QED
  BY <1>2, <1>3, ReadKept

\* Rows that are inserted or changed, and the names that are then brought in line.
LEMMA WriteUploadKept ==
  ASSUME DeskInv, NEW q \in Requests, WriteUpload(q)
  PROVE  DeskInv'
<1> DEFINE rows == req[q].rows
<1>1. DOMAIN rows \subseteq Keys /\ \A k \in DOMAIN rows : rows[k] \in Values
  BY DEF WriteUpload, DeskInv, RawTypeOK, Request, Idle
<1>2. raw' = Upserted(rows) /\ name' = Labelled(raw') /\ audit' = audit
      /\ last' = [k \in Keys |-> IF k \in DOMAIN rows THEN "upload" ELSE last[k]]
      /\ raced' = {m \in raced : ~DeptLevel(raw', m)}
      /\ req' = [req EXCEPT ![q] = Idle]
  BY DEF WriteUpload
<1> HIDE DEF rows
<1>3. ASSUME NEW k \in Keys
      PROVE  /\ Upserted(rows)[k] \in {NULL} \cup Row
             /\ k \notin DOMAIN rows => Upserted(rows)[k] = raw[k]
  <2>1. raw[k] \in {NULL} \cup Row /\ FreshId(k) \in RowIds
    BY FreshIdExists DEF DeskInv, RawTypeOK
  <2>2. CASE k \notin DOMAIN rows
    BY <2>1, <2>2 DEF Upserted
  <2>3. CASE k \in DOMAIN rows /\ raw[k] = NULL
    <3>1. Upserted(rows)[k] = [id |-> FreshId(k), value |-> rows[k], locked |-> FALSE]
      BY <2>3 DEF Upserted
    <3> QED
      BY <1>1, <2>1, <2>3, <3>1 DEF Row
  <2>4. CASE k \in DOMAIN rows /\ raw[k] # NULL
    <3>1. Upserted(rows)[k] = [raw[k] EXCEPT !.value = rows[k]]
      BY <2>4 DEF Upserted
    <3> QED
      BY <1>1, <2>1, <2>4, <3>1 DEF Row
  <2> QED
    BY <2>2, <2>3, <2>4
<1>4. raw' \in [Keys -> {NULL} \cup Row]
  BY <1>2, <1>3 DEF Upserted
<1>5. name' \in [RawMetrics -> Names] /\ \A m \in RawMetrics : DeptLevel(raw', m) => HasSuffix(name'[m])
  <2>1. \A m \in RawMetrics : name[m] \in Names /\ Suffixed(name[m]) \in Names /\ HasSuffix(Suffixed(name[m]))
    BY DEF DeskInv, RawTypeOK, Names, Suffixed, HasSuffix
  <2> QED
    BY <1>2, <2>1 DEF Labelled
<1>6. RawTypeOK'
  BY <1>2, <1>4, <1>5, RequestKept, IdleIsRequest DEF DeskInv, RawTypeOK
<1>7. AuditTellsValue'
  <2> SUFFICES ASSUME NEW k \in Keys, last'[k] = "correction"
               PROVE  raw'[k] # NULL /\ audit'[k] = raw'[k].value
    BY DEF AuditTellsValue, Present
  <2>1. k \notin DOMAIN rows /\ last[k] = "correction"
    BY <1>2
  <2> QED
    BY <1>2, <1>3, <2>1 DEF DeskInv, AuditTellsValue, Present
<1> QED
  BY <1>5, <1>6, <1>7 DEF DeskInv, DeptMetricsNamed, DeptLevel, HasSuffix

LEMMA WriteUpdateKept ==
  ASSUME DeskInv, NEW q \in Requests, WriteUpdate(q)
  PROVE  DeskInv'
<1> PICK r \in req[q].rows :
       /\ raw' = IF StillThere(r) THEN [raw EXCEPT ![r.key].value = req[q].new] ELSE raw
       /\ audit' = [audit EXCEPT ![r.key] = req[q].new]
       /\ last' = [last EXCEPT ![r.key] = IF StillThere(r) THEN "correction" ELSE "ghost"]
  BY DEF WriteUpdate
<1>1. r \in Snapshots /\ req[q].new \in Values
  BY DEF WriteUpdate, DeskInv, RawTypeOK, Request, Idle
<1> DEFINE k0 == r.key
           new == req[q].new
<1>2. k0 \in Keys /\ new \in Values
  BY <1>1 DEF Snapshots
<1>3. /\ raw' = IF StillThere(r) THEN [raw EXCEPT ![k0] = [raw[k0] EXCEPT !.value = new]] ELSE raw
      /\ audit' = [audit EXCEPT ![k0] = new]
      /\ last' = [last EXCEPT ![k0] = IF StillThere(r) THEN "correction" ELSE "ghost"]
      /\ StillThere(r) => raw[k0] # NULL
      /\ req' = [req EXCEPT ![q] = Idle]
      /\ UNCHANGED <<name, raced>>
  BY DEF WriteUpdate, StillThere, Present
<1> HIDE DEF k0, new
<1>4. StillThere(r) => [raw[k0] EXCEPT !.value = new] \in Row /\ [raw[k0] EXCEPT !.value = new].value = new
  BY <1>2, <1>3 DEF DeskInv, RawTypeOK, Row
<1>5. \A k \in Keys : /\ raw'[k] \in {NULL} \cup Row
                      /\ raw'[k] # NULL => raw[k] # NULL
                      /\ k # k0 => raw'[k] = raw[k]
                      /\ k = k0 /\ StillThere(r) => raw'[k] # NULL /\ raw'[k].value = new
  <2> SUFFICES ASSUME NEW k \in Keys
               PROVE  /\ raw'[k] \in {NULL} \cup Row
                      /\ raw'[k] # NULL => raw[k] # NULL
                      /\ k # k0 => raw'[k] = raw[k]
                      /\ k = k0 /\ StillThere(r) => raw'[k] # NULL /\ raw'[k].value = new
    OBVIOUS
  <2>1. raw \in [Keys -> {NULL} \cup Row]
    BY DEF DeskInv, RawTypeOK
  <2>2. CASE ~StillThere(r)
    BY <1>3, <2>1, <2>2
  <2>3. CASE StillThere(r)
    <3> DEFINE changed == [raw[k0] EXCEPT !.value = new]
    <3>1. changed \in Row /\ changed.value = new /\ raw[k0] # NULL
      BY <1>3, <1>4, <2>3
    <3>2. raw' = [raw EXCEPT ![k0] = changed]
      BY <1>3, <2>3
    <3> HIDE DEF changed
    <3>3. changed # NULL
      BY <3>1
    <3>4. raw'[k] = IF k = k0 THEN changed ELSE raw[k]
      BY <2>1, <3>2
    <3>5. CASE k = k0
      BY <3>1, <3>3, <3>4, <3>5
    <3>6. CASE k # k0
      BY <2>1, <3>4, <3>6
    <3> QED
      BY <3>5, <3>6
  <2> QED
    BY <2>2, <2>3
<1>6. raw' \in [Keys -> {NULL} \cup Row]
  BY <1>2, <1>3, <1>5 DEF DeskInv, RawTypeOK
<1>7. audit' \in [Keys -> {NULL, Deleted} \cup Values]
      /\ last' \in [Keys -> {NULL, "upload", "correction", "ghost"}]
  <2> DEFINE writer == IF StillThere(r) THEN "correction" ELSE "ghost"
  <2>1. writer \in {NULL, "upload", "correction", "ghost"} /\ last' = [last EXCEPT ![k0] = writer]
    BY <1>3
  <2> HIDE DEF writer
  <2>2. last' \in [Keys -> {NULL, "upload", "correction", "ghost"}]
    BY <2>1 DEF DeskInv, RawTypeOK
  <2>3. audit' \in [Keys -> {NULL, Deleted} \cup Values]
    BY <1>2, <1>3 DEF DeskInv, RawTypeOK
  <2> QED
    BY <2>2, <2>3
<1>8. RawTypeOK'
  BY <1>3, <1>6, <1>7, RequestKept, IdleIsRequest DEF DeskInv, RawTypeOK
<1>9. AuditTellsValue'
  <2> SUFFICES ASSUME NEW k \in Keys, last'[k] = "correction"
               PROVE  raw'[k] # NULL /\ audit'[k] = raw'[k].value
    BY DEF AuditTellsValue, Present
  <2>1. CASE k = k0
    BY <1>2, <1>3, <1>5, <2>1 DEF DeskInv, RawTypeOK
  <2>2. CASE k # k0
    BY <1>2, <1>3, <1>5, <2>2 DEF DeskInv, RawTypeOK, AuditTellsValue, Present
  <2> QED
    BY <2>1, <2>2
<1>10. DeptMetricsNamed'
  <2> SUFFICES ASSUME NEW m \in RawMetrics, NEW d \in Depts, raw'[<<d, m>>] # NULL
               PROVE  HasSuffix(name[m]) \/ m \in raced
    BY <1>3 DEF DeptMetricsNamed, DeptLevel, HasSuffix
  <2>1. <<d, m>> \in Keys
    BY DEF Keys
  <2> QED
    BY <1>5, <2>1 DEF DeskInv, DeptMetricsNamed, DeptLevel
<1> QED
  BY <1>8, <1>9, <1>10 DEF DeskInv

LEMMA WriteRemoveKept ==
  ASSUME DeskInv, NEW q \in Requests, WriteRemove(q)
  PROVE  DeskInv'
<1> DEFINE rows == req[q].rows
           gone == {r.key : r \in {x \in rows : StillThere(x)}}
<1>1. /\ audit' = [k \in Keys |-> IF \E r \in rows : r.key = k THEN Deleted ELSE audit[k]]
      /\ raw' = [k \in Keys |-> IF k \in gone THEN NULL ELSE raw[k]]
      /\ last' = [k \in Keys |-> IF k \in gone THEN NULL
                                 ELSE IF \E r \in rows : r.key = k THEN "ghost" ELSE last[k]]
      /\ req' = [req EXCEPT ![q] = Idle]
      /\ UNCHANGED <<name, raced>>
  BY DEF WriteRemove
<1>2. \A k \in gone : \E r \in rows : r.key = k
  OBVIOUS
<1> HIDE DEF rows, gone
<1>3. RawTypeOK'
  <2>1. raw' \in [Keys -> {NULL} \cup Row]
    BY <1>1 DEF DeskInv, RawTypeOK
  <2>2. audit' \in [Keys -> {NULL, Deleted} \cup Values]
        /\ last' \in [Keys -> {NULL, "upload", "correction", "ghost"}]
    BY <1>1 DEF DeskInv, RawTypeOK
  <2> QED
    BY <1>1, <2>1, <2>2, RequestKept, IdleIsRequest DEF DeskInv, RawTypeOK
<1>4. AuditTellsValue'
  <2> SUFFICES ASSUME NEW k \in Keys, last'[k] = "correction"
               PROVE  raw'[k] # NULL /\ audit'[k] = raw'[k].value
    BY DEF AuditTellsValue, Present
  <2>1. k \notin gone /\ ~(\E r \in rows : r.key = k)
    BY <1>1
  <2> QED
    BY <1>1, <2>1 DEF DeskInv, AuditTellsValue, Present
<1>5. DeptMetricsNamed'
  <2> SUFFICES ASSUME NEW m \in RawMetrics, NEW d \in Depts, raw'[<<d, m>>] # NULL
               PROVE  HasSuffix(name[m]) \/ m \in raced
    BY <1>1 DEF DeptMetricsNamed, DeptLevel, HasSuffix
  <2>1. <<d, m>> \in Keys
    BY DEF Keys
  <2> QED
    BY <1>1, <2>1 DEF DeskInv, DeptMetricsNamed, DeptLevel
<1> QED
  BY <1>3, <1>4, <1>5 DEF DeskInv

LEMMA WriteRenameKept ==
  ASSUME DeskInv, NEW q \in Requests, WriteRename(q)
  PROVE  DeskInv'
<1> DEFINE m == req[q].metric
           new == req[q].name
<1>1. m \in RawMetrics /\ new \in Names
  BY DEF WriteRename, DeskInv, RawTypeOK, Request, Idle
<1>2. /\ name' = [name EXCEPT ![m] = new]
      /\ raced' = IF HasSuffix(name[m]) /\ ~HasSuffix(new) THEN raced \cup {m} ELSE raced
      /\ req' = [req EXCEPT ![q] = Idle]
      /\ UNCHANGED <<raw, audit, last>>
  BY DEF WriteRename
<1> HIDE DEF m, new
<1>3. RawTypeOK'
  <2>1. name' \in [RawMetrics -> Names] /\ raced' \subseteq RawMetrics
    BY <1>1, <1>2 DEF DeskInv, RawTypeOK
  <2> QED
    BY <1>2, <2>1, RequestKept, IdleIsRequest DEF DeskInv, RawTypeOK
<1>4. \A x \in RawMetrics : name'[x] = IF x = m THEN new ELSE name[x]
  BY <1>1, <1>2 DEF DeskInv, RawTypeOK
<1>5. DeptMetricsNamed'
  <2> SUFFICES ASSUME NEW x \in RawMetrics, DeptLevel(raw, x)
               PROVE  HasSuffix(name'[x]) \/ x \in raced'
    BY <1>2 DEF DeptMetricsNamed, DeptLevel, HasSuffix
  <2>1. HasSuffix(name[x]) \/ x \in raced
    BY DEF DeskInv, DeptMetricsNamed
  <2>2. CASE x = m
    BY <1>2, <1>4, <2>1, <2>2
  <2>3. CASE x # m
    BY <1>2, <1>4, <2>1, <2>3
  <2> QED
    BY <2>2, <2>3
<1> QED
  BY <1>2, <1>3, <1>5 DEF DeskInv, AuditTellsValue, Present

LEMMA DeskKept ==
  ASSUME DeskInv, [RawNext]_dvars
  PROVE  DeskInv'
<1>1. CASE UNCHANGED dvars
  <2>1. UNCHANGED <<name, raw, audit, last, raced, req>>
    BY <1>1 DEF dvars
  <2> QED
    BY <2>1 DEF DeskInv, RawTypeOK, AuditTellsValue, DeptMetricsNamed, Present, DeptLevel, HasSuffix
<1>2. ASSUME NEW q \in Requests, RequestStep(q)
      PROVE  DeskInv'
  BY <1>2, ReadUploadKept, WriteUploadKept, ReadUpdateKept, WriteUpdateKept, ReadRemoveKept,
     WriteRemoveKept, ReadRenameKept, WriteRenameKept
  DEF RequestStep
<1> QED
  BY <1>1, <1>2 DEF RawNext

-----------------------------------------------------------------------------
(* The catalogue: its rows, and where a request stands.                    *)

USE SeedAssumption

\* Rows of the registry whose parents are there.
Sound(rows) ==
  /\ rows \in [Ids -> {NULL} \cup CatalogRow]
  /\ \A i \in Ids : rows[i] # NULL /\ rows[i].parent # NULL => rows[rows[i].parent] # NULL

\* A seed has one row at most, unless two requests filled an empty catalogue together.
OneRow == double \/ \A i, j \in Metrics : row[i].code # NULL /\ row[i].code = row[j].code => i = j

\* A request that fills an empty catalogue has it to itself, or double says otherwise.
FillsAlone ==
  \A q \in Readers : Running(q) /\ reader[q].allowCreate =>
    removed = {} /\ (double \/ \A p \in Readers \ {q} : ~Running(p))

\* What is about to be created is not there.
CreatesMissing ==
  \A q \in Readers : At(q, "create") => reader[q].allowCreate /\ (double \/ WithCode(Seed(q).code) = {})

\* What is about to be pruned has no values, or got them after it was found empty.
PrunesEmpty == \A q \in Readers : Running(q) => reader[q].doomed \cap data \subseteq late

CatalogInv ==
  CatalogTypeOK /\ OneRow /\ DeletedStayDeleted /\ FillsAlone /\ CreatesMissing /\ PrunesEmpty

LEMMA TypesAreSound == CatalogTypeOK => Sound(row)
BY DEF CatalogTypeOK, Sound, Metrics, InCatalog

LEMMA DoneIsNoProgress == Done \notin Progress /\ Done.pc = "done"
BY DEF Done, Progress

LEMMA RunningIsProgress ==
  ASSUME CatalogTypeOK, NEW q \in Readers, Running(q) \/ At(q, "look") \/ At(q, "prune") \/ At(q, "create")
  PROVE  reader[q] \in Progress /\ Running(q)
BY DEF CatalogTypeOK, Running, At, Done, Progress

\* The seed a request is at, and its parent's id.
LEMMA SeedsAreKnown ==
  ASSUME CatalogTypeOK, NEW q \in Readers, reader[q] \in Progress
  PROVE  /\ Seed(q).code \in Codes /\ Seed(q).name \in SeedNames /\ Seed(q).code # NULL
         /\ ParentId(q) \in Ids \cup {NULL}
<1>1. reader[q].at \in DOMAIN Seeds /\ reader[q].ids \in [Codes -> Ids \cup {NULL}]
  BY DEF Progress
<1>2. Seed(q).code \in Codes /\ Seed(q).name \in SeedNames
  BY <1>1 DEF Seed, Codes, SeedNames
<1>3. Seed(q).parent = NULL \/ Seed(q).parent \in Codes
  <2> DEFINE i == reader[q].at
  <2>1. i \in 1..Len(Seeds) /\ DOMAIN Seeds = 1..Len(Seeds) /\ Len(Seeds) \in Nat
    BY <1>1
  <2>2. Seeds[i].parent # NULL => \E j \in 1..(i - 1) : Seeds[j].code = Seeds[i].parent
    BY <1>1
  <2> HIDE DEF i
  <2>3. \A j \in 1..(i - 1) : Seeds[j].code \in Codes
    <3>1. \A j \in 1..(i - 1) : j \in DOMAIN Seeds
      BY <2>1
    <3> QED
      BY <3>1 DEF Codes
  <2> QED
    BY <2>2, <2>3 DEF Seed, i
<1> QED
  BY <1>1, <1>2, <1>3 DEF ParentId

\* On to the next seed that is looked for, or done.
LEMMA AfterIsProgress ==
  ASSUME NEW q \in Readers, reader[q] \in Progress, NEW id \in Ids \cup {NULL}
  PROVE  /\ After(q, id) \in {Done} \cup Progress
         /\ After(q, id) # Done => After(q, id).pc = "look" /\ After(q, id).doomed = {}
                                   /\ After(q, id).allowCreate = reader[q].allowCreate
<1> DEFINE ids == [reader[q].ids EXCEPT ![Seed(q).code] = id]
           later == {j \in (reader[q].at + 1)..Len(Seeds) :
                       Seeds[j].parent # NULL => ids[Seeds[j].parent] # NULL}
           next == [reader[q] EXCEPT !.pc = "look", !.at = Min(later), !.ids = ids, !.doomed = {}]
<1>1. After(q, id) = IF later = {} THEN Done ELSE next
  BY DEF After
<1>2. ids \in [Codes -> Ids \cup {NULL}]
  BY DEF Progress
<1>3. reader[q].at \in 1..Len(Seeds)
  BY DEF Progress
<1>4. ASSUME later # {}
      PROVE  Min(later) \in DOMAIN Seeds
  <2>1. later \in SUBSET Nat /\ later \subseteq DOMAIN Seeds
    BY <1>3
  <2> HIDE DEF later
  <2>2. PICK m \in later : \A n \in later : m <= n
    BY <1>4, <2>1, LeastNumber
  <2>3. Min(later) \in later
    BY <2>2 DEF Min
  <2> QED
    BY <2>1, <2>3
<1> HIDE DEF later, ids
<1>5. ASSUME later # {}
      PROVE  next \in Progress /\ next.pc = "look" /\ next.doomed = {}
             /\ next.allowCreate = reader[q].allowCreate
  BY <1>2, <1>4, <1>5 DEF Progress
<1> QED
  BY <1>1, <1>5

\* What is left after rows are deleted.
LEMMA WithoutIsSound ==
  ASSUME Sound(row), NEW gone
  PROVE  /\ Sound(Without(gone))
         /\ \A i \in Ids : Without(gone)[i] # NULL <=> row[i] # NULL /\ i \notin gone
         /\ \A i \in Ids : Without(gone)[i] # NULL => Without(gone)[i].code = row[i].code
<1> DEFINE rest == Without(gone)
<1>1. ASSUME NEW i \in Ids
      PROVE  /\ rest[i] \in {NULL} \cup CatalogRow
             /\ rest[i] # NULL <=> row[i] # NULL /\ i \notin gone
             /\ rest[i] # NULL => /\ rest[i].code = row[i].code
                                  /\ rest[i].parent = NULL \/ (rest[i].parent = row[i].parent /\ row[i].parent \notin gone)
  <2>1. row[i] \in {NULL} \cup CatalogRow
    BY DEF Sound
  <2>2. CASE i \in gone \/ row[i] = NULL
    BY <2>2 DEF Without
  <2>3. CASE i \notin gone /\ row[i] # NULL /\ row[i].parent \in gone
    <3>1. rest[i] = [row[i] EXCEPT !.parent = NULL]
      BY <2>3 DEF Without
    <3> QED
      BY <2>1, <2>3, <3>1 DEF CatalogRow
  <2>4. CASE i \notin gone /\ row[i] # NULL /\ row[i].parent \notin gone
    <3>1. rest[i] = row[i]
      BY <2>4 DEF Without
    <3> QED
      BY <2>1, <2>4, <3>1
  <2> QED
    BY <2>2, <2>3, <2>4
<1>2. rest = [i \in Ids |-> rest[i]]
  BY DEF Without
<1> HIDE DEF rest
<1>3. ASSUME NEW i \in Ids, rest[i] # NULL, rest[i].parent # NULL
      PROVE  rest[rest[i].parent] # NULL
  <2>1. row[i] # NULL /\ rest[i].parent = row[i].parent /\ row[i].parent \notin gone
        /\ row[i].parent # NULL
    BY <1>1, <1>3
  <2>2. row[i].parent \in Ids
    BY <2>1 DEF Sound, CatalogRow
  <2> QED
    BY <1>1, <2>1, <2>2 DEF Sound
<1>4. Sound(rest)
  BY <1>1, <1>2, <1>3 DEF Sound
<1> QED
  BY <1>1, <1>4 DEF rest


\* A row that is given a seed's code.
LEMMA AdoptedIsSound ==
  ASSUME Sound(row), NEW i \in Metrics, NEW c \in Codes
  PROVE  /\ Sound([row EXCEPT ![i].code = c])
         /\ \A j \in Ids : /\ [row EXCEPT ![i].code = c][j] # NULL <=> row[j] # NULL
                           /\ [row EXCEPT ![i].code = c][j].code = IF j = i THEN c ELSE row[j].code
<1> DEFINE adopted == [row[i] EXCEPT !.code = c]
           rows == [row EXCEPT ![i] = adopted]
<1>1. i \in Ids /\ row[i] \in CatalogRow
  BY DEF Metrics, InCatalog, Sound
<1>2. adopted \in CatalogRow /\ adopted.code = c /\ adopted.parent = row[i].parent
  BY <1>1 DEF CatalogRow
<1>3. [row EXCEPT ![i].code = c] = rows
  OBVIOUS
<1> HIDE DEF adopted
<1>4. \A j \in Ids : rows[j] = IF j = i THEN adopted ELSE row[j]
  BY DEF Sound
<1>5. rows \in [Ids -> {NULL} \cup CatalogRow]
  BY <1>2 DEF Sound
<1> HIDE DEF rows
<1>6. adopted # NULL /\ row[i] # NULL
  BY <1>1, <1>2
<1>7. \A j \in Ids : (rows[j] # NULL <=> row[j] # NULL) /\ rows[j].parent = row[j].parent
  BY <1>2, <1>4, <1>6
<1>8. \A j \in Ids : row[j] # NULL /\ row[j].parent # NULL => row[j].parent \in Ids
  BY DEF Sound, CatalogRow
<1>9. Sound(rows)
  BY <1>5, <1>7, <1>8 DEF Sound
<1>10. \A j \in Ids : (rows[j] # NULL <=> row[j] # NULL) /\ rows[j].code = IF j = i THEN c ELSE row[j].code
  BY <1>2, <1>4, <1>7
<1> QED
  BY <1>3, <1>9, <1>10

\* A row of its own, under a row that is there or none.
LEMMA CreatedIsSound ==
  ASSUME Sound(row), NEW i \in Fresh, NEW new \in CatalogRow,
         new.parent = NULL \/ row[new.parent] # NULL
  PROVE  /\ Sound([row EXCEPT ![i] = new])
         /\ \A j \in Ids : [row EXCEPT ![i] = new][j] = IF j = i THEN new ELSE row[j]
         /\ i \in Ids /\ row[i] = NULL /\ new # NULL
<1> DEFINE rows == [row EXCEPT ![i] = new]
<1>1. i \in Ids /\ row[i] = NULL /\ new # NULL
  BY DEF Fresh, Metrics, InCatalog
<1>2. \A j \in Ids : rows[j] = IF j = i THEN new ELSE row[j]
  BY DEF Sound
<1>3. rows \in [Ids -> {NULL} \cup CatalogRow]
  BY DEF Sound
<1> HIDE DEF rows
<1>4. ASSUME NEW j \in Ids, rows[j] # NULL, rows[j].parent # NULL
      PROVE  rows[rows[j].parent] # NULL
  <2>1. rows[j].parent \in Ids
    BY <1>3, <1>4 DEF CatalogRow
  <2>2. row[rows[j].parent] # NULL
    BY <1>2, <1>4 DEF Sound
  <2> QED
    BY <1>1, <1>2, <2>1, <2>2
<1>5. Sound(rows)
  BY <1>3, <1>4 DEF Sound
<1> QED
  BY <1>1, <1>2, <1>5 DEF rows

LEMMA FreshHasLeast ==
  ASSUME Fresh # {}
  PROVE  Min(Fresh) \in Fresh
<1>1. Fresh \in SUBSET Nat
  BY DEF Fresh, Ids
<1>2. PICK m \in Fresh : \A n \in Fresh : m <= n
  BY <1>1, LeastNumber
<1> QED
  BY <1>2 DEF Min

-----------------------------------------------------------------------------
(* Every step of the catalogue keeps its invariant.                        *)

LEMMA InitCatalog == CatalogInit => CatalogInv
<1>s. SUFFICES ASSUME CatalogInit
               PROVE  CatalogInv
  OBVIOUS
<1>1. PICK n \in 0..2 :
        row = [i \in Ids |-> IF i <= n THEN [code |-> NULL, name |-> Seeds[1].name, parent |-> NULL] ELSE NULL]
  BY <1>s DEF CatalogInit
<1>2. [code |-> NULL, name |-> Seeds[1].name, parent |-> NULL] \in CatalogRow
  <2>1. Seeds[1].name \in SeedNames
    BY DEF SeedNames
  <2> QED
    BY <2>1 DEF CatalogRow
<1>3. \A i \in Ids : row[i] = NULL \/ (row[i] \in CatalogRow /\ row[i].code = NULL /\ row[i].parent = NULL)
  BY <1>1, <1>2
<1>4. row \in [Ids -> {NULL} \cup CatalogRow]
  BY <1>1, <1>2
<1>5. reader = [q \in Readers |-> Done] /\ removed = {} /\ double = FALSE /\ late = {} /\ data \subseteq Metrics
  BY <1>s DEF CatalogInit
<1>6. CatalogTypeOK
  BY <1>3, <1>4, <1>5 DEF CatalogTypeOK, Metrics, InCatalog
<1>7. OneRow
  BY <1>3 DEF OneRow, Metrics, InCatalog
<1>8. \A q \in Readers : reader[q] = Done
  BY <1>5
<1>9. FillsAlone /\ CreatesMissing /\ PrunesEmpty
  BY <1>8, DoneIsNoProgress DEF FillsAlone, CreatesMissing, PrunesEmpty, Running, At
<1> QED
  BY <1>5, <1>6, <1>7, <1>9 DEF CatalogInv, DeletedStayDeleted

LEMMA CountKept ==
  ASSUME CatalogInv, NEW q \in Readers, Count(q)
  PROVE  CatalogInv'
<1> DEFINE empty == Metrics = {}
           begun == [pc |-> "look", at |-> 1, allowCreate |-> empty,
                     ids |-> [c \in Codes |-> NULL], doomed |-> {}]
<1>1. /\ reader[q] = Done
      /\ reader' = [reader EXCEPT ![q] = begun]
      /\ double' = (double \/ \E p \in Readers : Running(p) /\ (empty \/ reader[p].allowCreate))
      /\ removed' = IF empty THEN {} ELSE removed
      /\ UNCHANGED <<row, data, late>>
  BY DEF Count
<1>2. begun \in Progress /\ begun.pc = "look" /\ begun.allowCreate = empty /\ begun.doomed = {}
  BY DEF Progress
<1> HIDE DEF begun, empty
<1>3. \A p \in Readers : reader'[p] = IF p = q THEN begun ELSE reader[p]
  BY <1>1 DEF CatalogInv, CatalogTypeOK
<1>4. UNCHANGED Metrics
  BY <1>1 DEF Metrics, InCatalog
<1>5. CatalogTypeOK'
  <2>1. reader' \in [Readers -> {Done} \cup Progress]
    BY <1>1, <1>2 DEF CatalogInv, CatalogTypeOK
  <2>2. removed' \subseteq Codes /\ double' \in BOOLEAN
    BY <1>1 DEF CatalogInv, CatalogTypeOK
  <2> QED
    BY <1>1, <1>4, <2>1, <2>2 DEF CatalogInv, CatalogTypeOK, InCatalog
<1>6. OneRow'
  BY <1>1, <1>4 DEF CatalogInv, OneRow
<1>7. DeletedStayDeleted'
  BY <1>1, <1>4 DEF CatalogInv, DeletedStayDeleted, WithCode
<1>8. FillsAlone'
  <2> SUFFICES ASSUME NEW p \in Readers, Running(p)', reader'[p].allowCreate
               PROVE  removed' = {} /\ (double' \/ \A x \in Readers \ {p} : ~Running(x)')
    BY DEF FillsAlone
  <2>1. CASE p = q
    <3>1. empty
      BY <1>2, <1>3, <2>1
    <3>2. \A x \in Readers \ {p} : Running(x)' => Running(x)
      BY <1>3, <2>1 DEF Running
    <3> QED
      BY <1>1, <3>1, <3>2
  <2>2. CASE p # q
    <3>1. Running(p) /\ reader[p].allowCreate
      BY <1>3, <2>2 DEF Running
    <3> QED
      BY <1>1, <3>1 DEF CatalogInv, FillsAlone
  <2> QED
    BY <2>1, <2>2
<1>9. CreatesMissing'
  <2> SUFFICES ASSUME NEW p \in Readers, At(p, "create")'
               PROVE  reader'[p].allowCreate /\ (double' \/ WithCode(Seed(p).code)' = {})
    BY DEF CreatesMissing
  <2>1. p # q
    BY <1>2, <1>3 DEF At
  <2>2. reader'[p] = reader[p]
    BY <1>3, <2>1
  <2>3. At(p, "create") /\ Seed(p)' = Seed(p)
    BY <2>2 DEF At, Seed
  <2> QED
    BY <1>1, <1>4, <2>2, <2>3 DEF CatalogInv, CreatesMissing, WithCode
<1>10. PrunesEmpty'
  BY <1>1, <1>2, <1>3 DEF CatalogInv, PrunesEmpty, Running
<1> QED
  BY <1>5, <1>6, <1>7, <1>8, <1>9, <1>10 DEF CatalogInv


\* A step of a request: of those that fill an empty catalogue it is the only one.
LEMMA FillersKept ==
  ASSUME CatalogInv, NEW q \in Readers, Running(q), NEW r \in {Done} \cup Progress,
         r # Done => r.allowCreate = reader[q].allowCreate,
         r.pc = "create" => r.allowCreate /\ (double \/ WithCode(Seeds[r.at].code)' = {}),
         reader' = [reader EXCEPT ![q] = r], removed' \subseteq removed, double' = double
  PROVE  reader' \in [Readers -> {Done} \cup Progress] /\ FillsAlone' /\ CreatesMissing'
<1>1. reader' \in [Readers -> {Done} \cup Progress]
  BY DEF CatalogInv, CatalogTypeOK
<1>2. \A p \in Readers : reader'[p] = IF p = q THEN r ELSE reader[p]
  BY DEF CatalogInv, CatalogTypeOK
<1>3. \A p \in Readers : Running(p)' => Running(p) /\ reader'[p].allowCreate = reader[p].allowCreate
  BY <1>2 DEF Running
<1>4. FillsAlone'
  BY <1>3 DEF CatalogInv, FillsAlone
<1>5. CreatesMissing'
  <2> SUFFICES ASSUME NEW p \in Readers, At(p, "create")'
               PROVE  reader'[p].allowCreate /\ (double' \/ WithCode(Seed(p).code)' = {})
    BY DEF CreatesMissing
  <2>1. CASE p = q
    <3>1. Seed(p)' = Seeds[r.at]
      BY <1>2, <2>1 DEF Seed
    <3> QED
      BY <1>2, <2>1, <3>1 DEF At, WithCode
  <2>2. CASE p # q
    <3>1. At(p, "create") /\ reader'[p] = reader[p]
      BY <1>2, <2>2 DEF At
    <3>2. reader[p].allowCreate /\ Running(p)
      BY <3>1, RunningIsProgress DEF CatalogInv, CreatesMissing
    <3> QED
      BY <2>2, <3>1, <3>2 DEF CatalogInv, FillsAlone
  <2> QED
    BY <2>1, <2>2
<1> QED
  BY <1>1, <1>4, <1>5

\* A step of others, who give no row a seed's code.
LEMMA OthersKept ==
  ASSUME CatalogInv, UNCHANGED <<reader, double>>, \A c \in Codes : WithCode(c)' \subseteq WithCode(c),
         (\E p \in Readers : Running(p) /\ reader[p].allowCreate) => removed' \subseteq removed
  PROVE  FillsAlone' /\ CreatesMissing'
<1>1. \A p \in Readers : Running(p)' = Running(p) /\ Seed(p)' = Seed(p)
  BY DEF Running, Seed
<1>2. FillsAlone'
  BY <1>1 DEF CatalogInv, FillsAlone
<1>3. CreatesMissing'
  <2> SUFFICES ASSUME NEW p \in Readers, At(p, "create")
               PROVE  reader[p].allowCreate /\ (double \/ WithCode(Seed(p).code)' = {})
    BY <1>1 DEF CreatesMissing, At, WithCode
  <2>1. reader[p].allowCreate /\ (double \/ WithCode(Seed(p).code) = {})
    BY DEF CatalogInv, CreatesMissing
  <2>2. Seed(p).code \in Codes
    BY RunningIsProgress, SeedsAreKnown DEF CatalogInv
  <2>3. WithCode(Seed(p).code) = {} => WithCode(Seed(p).code)' = {}
    BY <1>1, <2>2 DEF WithCode
  <2> QED
    BY <2>1, <2>3
<1> QED
  BY <1>2, <1>3

\* Rows that have been deleted, or changed without a code, or are new without one.
LEMMA CodesFade ==
  ASSUME CatalogInv, Sound(row'), double' = double,
         \A i \in Ids : row'[i] # NULL =>
           row'[i].code = NULL \/ (row[i] # NULL /\ row'[i].code = row[i].code)
  PROVE  /\ OneRow'
         /\ \A c \in Codes : WithCode(c)' \subseteq WithCode(c)
<1>1. \A i \in Ids : i \in Metrics' /\ row'[i].code # NULL => i \in Metrics /\ row'[i].code = row[i].code
  BY DEF Metrics, InCatalog
<1>2. Metrics' \subseteq Ids
  BY DEF Metrics
<1>3. OneRow'
  BY <1>1, <1>2 DEF CatalogInv, OneRow
<1>4. ASSUME NEW c \in Codes, NEW i \in WithCode(c)'
      PROVE  i \in WithCode(c)
  <2>1. i \in Metrics' /\ row'[i].code = c /\ c # NULL
    BY <1>4 DEF WithCode
  <2> QED
    BY <1>1, <1>2, <2>1 DEF WithCode
<1> QED
  BY <1>3, <1>4

LEMMA CatalogTypesNext ==
  ASSUME Sound(row'), data' \subseteq Metrics', late' \subseteq data', removed' \subseteq Codes, double' \in BOOLEAN,
         reader' \in [Readers -> {Done} \cup Progress]
  PROVE  CatalogTypeOK'
BY DEF CatalogTypeOK, Sound, Metrics, InCatalog

LEMMA FindSeedKept ==
  ASSUME CatalogInv, NEW q \in Readers, FindSeed(q)
  PROVE  CatalogInv'
<1> DEFINE c == Seed(q).code
<1>1. reader[q] \in Progress /\ Running(q) /\ c \in Codes /\ c # NULL
  BY RunningIsProgress, SeedsAreKnown DEF CatalogInv, FindSeed
<1> HIDE DEF c
<1>2. UNCHANGED <<data, double, late>> /\ Sound(row)
  BY TypesAreSound DEF FindSeed, CatalogInv
<1>3. ASSUME NEW r \in {Done} \cup Progress, reader' = [reader EXCEPT ![q] = r],
             r # Done => r.allowCreate = reader[q].allowCreate /\ r.doomed \cap data \subseteq late,
             r.pc = "create" => r.allowCreate /\ WithCode(Seeds[r.at].code) = {},
             UNCHANGED <<row, removed>>
      PROVE  CatalogInv'
  <2>1. UNCHANGED Metrics /\ \A x : WithCode(x)' = WithCode(x)
    BY <1>3 DEF Metrics, InCatalog, WithCode
  <2>2. reader' \in [Readers -> {Done} \cup Progress] /\ FillsAlone' /\ CreatesMissing'
    BY <1>1, <1>2, <1>3, <2>1, FillersKept
  <2>3. CatalogTypeOK'
    BY <1>2, <1>3, <2>1, <2>2, CatalogTypesNext DEF CatalogInv, CatalogTypeOK
  <2>4. OneRow' /\ DeletedStayDeleted'
    BY <1>2, <1>3, <2>1 DEF CatalogInv, OneRow, DeletedStayDeleted
  <2>5. \A p \in Readers : reader'[p] = IF p = q THEN r ELSE reader[p]
    BY <1>3 DEF CatalogInv, CatalogTypeOK
  <2>6. PrunesEmpty'
    BY <1>2, <1>3, <2>5 DEF CatalogInv, PrunesEmpty, Running
  <2> QED
    BY <2>2, <2>3, <2>4, <2>6 DEF CatalogInv
<1>4. ASSUME NEW i \in WithCode(c), reader' = [reader EXCEPT ![q] = After(q, i)], UNCHANGED <<row, removed>>
      PROVE  CatalogInv'
  <2>1. i \in Ids
    BY <1>4 DEF WithCode, Metrics
  <2>2. After(q, i) \in {Done} \cup Progress
        /\ (After(q, i) # Done => After(q, i).pc = "look" /\ After(q, i).doomed = {}
                                   /\ After(q, i).allowCreate = reader[q].allowCreate)
    BY <1>1, <2>1, AfterIsProgress
  <2> QED
    BY <1>3, <1>4, <2>2, DoneIsNoProgress
<1>5. ASSUME WithCode(c) = {}, reader' = [reader EXCEPT ![q] = After(q, NULL)], UNCHANGED <<row, removed>>
      PROVE  CatalogInv'
  <2>2. After(q, NULL) \in {Done} \cup Progress
        /\ (After(q, NULL) # Done => After(q, NULL).pc = "look" /\ After(q, NULL).doomed = {}
                                   /\ After(q, NULL).allowCreate = reader[q].allowCreate)
    BY <1>1, AfterIsProgress
  <2> QED
    BY <1>3, <1>5, <2>2, DoneIsNoProgress
<1>6. ASSUME WithCode(c) = {}, reader[q].allowCreate,
             reader' = [reader EXCEPT ![q] = [reader[q] EXCEPT !.pc = "create"]], UNCHANGED <<row, removed>>
      PROVE  CatalogInv'
  <2> DEFINE r == [reader[q] EXCEPT !.pc = "create"]
  <2>1. r \in Progress /\ r.allowCreate = reader[q].allowCreate /\ r.doomed = reader[q].doomed
        /\ r.at = reader[q].at
    BY <1>1 DEF Progress
  <2>2. reader' = [reader EXCEPT ![q] = r]
    BY <1>6
  <2> HIDE DEF r
  <2>3. reader[q].doomed \cap data \subseteq late
    BY <1>1 DEF CatalogInv, PrunesEmpty
  <2>4. WithCode(Seeds[r.at].code) = {}
    BY <1>6, <2>1 DEF Seed, c
  <2> QED
    BY <1>3, <1>6, <2>1, <2>2, <2>3, <2>4
<1>7. ASSUME WithCode(c) = {}, NEW i \in Legacy(q),
             row' = [row EXCEPT ![i].code = c], removed' = removed \ {c},
             reader' = [reader EXCEPT ![q].pc = "prune", ![q].ids[c] = i,
               ![q].doomed = {j \in Legacy(q) \ {i} : Children(j) = {} /\ j \notin data}]
      PROVE  CatalogInv'
  <2> DEFINE doomedNow == {j \in Legacy(q) \ {i} : Children(j) = {} /\ j \notin data}
             idsNow == [reader[q].ids EXCEPT ![c] = i]
             r == [reader[q] EXCEPT !.pc = "prune", !.ids = idsNow, !.doomed = doomedNow]
  <2>1. i \in Metrics /\ i \in Ids
    BY <1>7 DEF Legacy, Metrics
  <2>2. doomedNow \subseteq Ids /\ doomedNow \cap data = {}
    BY DEF Legacy, Metrics
  <2>3. idsNow \in [Codes -> Ids \cup {NULL}]
    BY <1>1, <2>1 DEF Progress
  <2>4. reader' = [reader EXCEPT ![q] = r]
    BY <1>1, <1>7 DEF CatalogInv, CatalogTypeOK, Progress
  <2> HIDE DEF doomedNow, idsNow
  <2>5. r \in Progress /\ r.pc = "prune" /\ r.allowCreate = reader[q].allowCreate /\ r.doomed = doomedNow
    BY <1>1, <2>2, <2>3 DEF Progress
  <2> HIDE DEF r
  <2>6. /\ Sound(row')
        /\ \A j \in Ids : /\ row'[j] # NULL <=> row[j] # NULL
                          /\ row'[j].code = IF j = i THEN c ELSE row[j].code
    <3> DEFINE adopted == [row EXCEPT ![i].code = c]
    <3>1. /\ Sound(adopted)
          /\ \A j \in Ids : /\ adopted[j] # NULL <=> row[j] # NULL
                            /\ adopted[j].code = IF j = i THEN c ELSE row[j].code
      BY <1>1, <1>2, <2>1, AdoptedIsSound
    <3>2. row' = adopted
      BY <1>7
    <3> HIDE DEF adopted
    <3> QED
      BY <3>1, <3>2
  <2>7. Metrics' = Metrics
    BY <2>6 DEF Metrics, InCatalog
  <2>8. removed' \subseteq removed
    BY <1>7
  <2>9. reader' \in [Readers -> {Done} \cup Progress] /\ FillsAlone' /\ CreatesMissing'
    BY <1>1, <1>2, <2>4, <2>5, <2>8, FillersKept
  <2>10. CatalogTypeOK'
    BY <1>2, <1>7, <2>6, <2>7, <2>9, CatalogTypesNext DEF CatalogInv, CatalogTypeOK
  <2>11. OneRow'
    <3>1. \A j \in Metrics : row[j].code # c
      BY <1>7 DEF WithCode
    <3>2. Metrics \subseteq Ids
      BY DEF Metrics
    <3> QED
      BY <1>2, <2>6, <2>7, <3>1, <3>2 DEF CatalogInv, OneRow
  <2>12. DeletedStayDeleted'
    <3> SUFFICES ASSUME NEW x \in removed, x # c, NEW j \in Metrics, row'[j].code = x
                 PROVE  FALSE
      BY <1>7, <2>7 DEF DeletedStayDeleted, WithCode
    <3>1. row[j].code = x
      BY <2>6 DEF Metrics
    <3> QED
      BY <3>1 DEF CatalogInv, DeletedStayDeleted, WithCode
  <2>13. \A p \in Readers : reader'[p] = IF p = q THEN r ELSE reader[p]
    BY <2>4 DEF CatalogInv, CatalogTypeOK
  <2>14. PrunesEmpty'
    BY <1>2, <2>2, <2>5, <2>13 DEF CatalogInv, PrunesEmpty, Running
  <2> QED
    BY <2>9, <2>10, <2>11, <2>12, <2>14 DEF CatalogInv
<1>8. CASE WithCode(c) # {}
  BY <1>4, <1>8 DEF FindSeed, c
<1>9. CASE WithCode(c) = {} /\ Legacy(q) # {}
  <2>1. PICK i \in Legacy(q) :
          /\ row' = [row EXCEPT ![i].code = c]
          /\ removed' = removed \ {c}
          /\ reader' = [reader EXCEPT ![q].pc = "prune", ![q].ids[c] = i,
               ![q].doomed = {j \in Legacy(q) \ {i} : Children(j) = {} /\ j \notin data}]
    BY <1>9 DEF FindSeed, c
  <2> QED
    BY <1>7, <1>9, <2>1
<1>10. CASE WithCode(c) = {} /\ Legacy(q) = {} /\ reader[q].allowCreate
  <2>1. reader' = [reader EXCEPT ![q] = [reader[q] EXCEPT !.pc = "create"]] /\ UNCHANGED <<row, removed>>
    BY <1>10 DEF FindSeed, c
  <2> QED
    BY <1>6, <1>10, <2>1
<1>11. CASE WithCode(c) = {} /\ Legacy(q) = {} /\ ~reader[q].allowCreate
  <2>1. reader' = [reader EXCEPT ![q] = After(q, NULL)] /\ UNCHANGED <<row, removed>>
    BY <1>11 DEF FindSeed, c
  <2> QED
    BY <1>5, <1>11, <2>1
<1> QED
  BY <1>8, <1>9, <1>10, <1>11


LEMMA PruneKept ==
  ASSUME CatalogInv, NEW q \in Readers, PruneDuplicates(q)
  PROVE  CatalogInv'
<1> DEFINE gone == reader[q].doomed
           id == reader[q].ids[Seed(q).code]
           r == After(q, id)
<1>1. reader[q] \in Progress /\ Running(q)
  BY RunningIsProgress DEF CatalogInv, PruneDuplicates
<1>2. id \in Ids \cup {NULL}
  BY <1>1, SeedsAreKnown DEF CatalogInv, Progress
<1>3. /\ row' = Without(gone) /\ data' = data \ gone /\ late' = late \ gone
      /\ reader' = [reader EXCEPT ![q] = r] /\ UNCHANGED <<removed, double>>
  BY DEF PruneDuplicates
<1>4. r \in {Done} \cup Progress
      /\ (r # Done => r.pc = "look" /\ r.doomed = {} /\ r.allowCreate = reader[q].allowCreate)
  BY <1>1, <1>2, AfterIsProgress
<1> HIDE DEF gone, id, r
<1>5. /\ Sound(row')
      /\ \A i \in Ids : row'[i] # NULL <=> row[i] # NULL /\ i \notin gone
      /\ \A i \in Ids : row'[i] # NULL => row'[i].code = row[i].code
  BY <1>3, WithoutIsSound, TypesAreSound DEF CatalogInv
<1>6. OneRow' /\ \A c \in Codes : WithCode(c)' \subseteq WithCode(c)
  BY <1>3, <1>5, CodesFade
<1>7. reader' \in [Readers -> {Done} \cup Progress] /\ FillsAlone' /\ CreatesMissing'
  BY <1>1, <1>3, <1>4, FillersKept, DoneIsNoProgress
<1>8. CatalogTypeOK'
  <2>1. data' \subseteq Metrics'
    BY <1>3, <1>5 DEF CatalogInv, CatalogTypeOK, Metrics, InCatalog
  <2> QED
    BY <1>3, <1>5, <1>7, <2>1, CatalogTypesNext DEF CatalogInv, CatalogTypeOK
<1>9. DeletedStayDeleted'
  <2> SUFFICES ASSUME NEW c \in removed
               PROVE  WithCode(c)' = {}
    BY <1>3 DEF DeletedStayDeleted, WithCode
  <2> QED
    BY <1>6 DEF CatalogInv, CatalogTypeOK, DeletedStayDeleted
<1>10. \A p \in Readers : reader'[p] = IF p = q THEN r ELSE reader[p]
  BY <1>3 DEF CatalogInv, CatalogTypeOK
<1>11. PrunesEmpty'
  BY <1>3, <1>4, <1>10 DEF CatalogInv, PrunesEmpty, Running
<1> QED
  BY <1>6, <1>7, <1>8, <1>9, <1>11 DEF CatalogInv

LEMMA CreateSeedKept ==
  ASSUME CatalogInv, NEW q \in Readers, CreateSeed(q)
  PROVE  CatalogInv'
<1>1. reader[q] \in Progress /\ Running(q) /\ At(q, "create") /\ reader[q].allowCreate
  BY RunningIsProgress DEF CatalogInv, CreateSeed, CreatesMissing
<1>2. UNCHANGED <<data, removed, double, late>> /\ Sound(row) /\ removed = {}
  BY <1>1, TypesAreSound DEF CreateSeed, CatalogInv, FillsAlone
<1>3. ASSUME NEW r \in {Done} \cup Progress, reader' = [reader EXCEPT ![q] = r],
             r # Done => r.pc = "look" /\ r.doomed = {} /\ r.allowCreate = reader[q].allowCreate,
             OneRow', Sound(row'), Metrics \subseteq Metrics'
      PROVE  CatalogInv'
  <2>1. reader' \in [Readers -> {Done} \cup Progress] /\ FillsAlone' /\ CreatesMissing'
    BY <1>1, <1>2, <1>3, FillersKept, DoneIsNoProgress
  <2>2. CatalogTypeOK'
    BY <1>2, <1>3, <2>1, CatalogTypesNext DEF CatalogInv, CatalogTypeOK
  <2>3. DeletedStayDeleted'
    BY <1>2 DEF DeletedStayDeleted
  <2>4. \A p \in Readers : reader'[p] = IF p = q THEN r ELSE reader[p]
    BY <1>3 DEF CatalogInv, CatalogTypeOK
  <2>5. PrunesEmpty'
    BY <1>2, <1>3, <2>4 DEF CatalogInv, PrunesEmpty, Running
  <2> QED
    BY <1>3, <2>1, <2>2, <2>3, <2>5 DEF CatalogInv
<1>4. CASE ParentId(q) # NULL /\ ~InCatalog(ParentId(q))
  <2>1. reader' = [reader EXCEPT ![q] = Done] /\ row' = row
    BY <1>4 DEF CreateSeed
  <2>2. OneRow' /\ Metrics' = Metrics /\ Sound(row')
    BY <1>2, <2>1 DEF CatalogInv, OneRow, Metrics, InCatalog
  <2> QED
    BY <1>3, <2>1, <2>2
<1>5. CASE ~(ParentId(q) # NULL /\ ~InCatalog(ParentId(q)))
  <2> DEFINE i == Min(Fresh)
             c == Seed(q).code
             new == [code |-> c, name |-> Seed(q).name, parent |-> ParentId(q)]
             r == After(q, i)
  <2>1. i \in Fresh /\ i \in Ids
    BY <1>5, FreshHasLeast DEF CreateSeed, Fresh
  <2>2. r \in {Done} \cup Progress
        /\ (r # Done => r.pc = "look" /\ r.doomed = {} /\ r.allowCreate = reader[q].allowCreate)
    BY <1>1, <2>1, AfterIsProgress
  <2>3. new \in CatalogRow /\ new.code = c /\ new.parent = ParentId(q) /\ c \in Codes /\ c # NULL
    BY <1>1, SeedsAreKnown DEF CatalogInv, CatalogRow
  <2>4. row' = [row EXCEPT ![i] = new] /\ reader' = [reader EXCEPT ![q] = r]
    BY <1>5 DEF CreateSeed
  <2>5. double \/ WithCode(c) = {}
    BY <1>1 DEF CatalogInv, CreatesMissing
  <2> HIDE DEF i, new, r, c
  <2>6. /\ Sound(row')
        /\ \A j \in Ids : row'[j] = IF j = i THEN new ELSE row[j]
        /\ row[i] = NULL /\ new # NULL
    <3> DEFINE rows == [row EXCEPT ![i] = new]
    <3>1. new.parent = NULL \/ row[new.parent] # NULL
      BY <1>5, <2>3 DEF InCatalog
    <3>2. /\ Sound(rows)
          /\ \A j \in Ids : rows[j] = IF j = i THEN new ELSE row[j]
          /\ row[i] = NULL /\ new # NULL
      BY <1>2, <2>1, <2>3, <3>1, CreatedIsSound
    <3>3. row' = rows
      BY <2>4
    <3> HIDE DEF rows
    <3> QED
      BY <3>2, <3>3
  <2>7. Metrics' = Metrics \cup {i} /\ Metrics \subseteq Ids
    BY <2>1, <2>6 DEF Metrics, InCatalog
  <2>8. OneRow'
    <3> SUFFICES ASSUME ~double, NEW j \in Metrics', NEW k \in Metrics', row'[j].code # NULL,
                        row'[j].code = row'[k].code
                 PROVE  j = k
      BY <1>2 DEF OneRow
    <3>1. \A x \in Metrics : row[x].code # c
      BY <2>5 DEF WithCode
    <3>2. \A x \in Metrics : x # i /\ row'[x] = row[x]
      BY <2>6, <2>7 DEF Metrics, InCatalog
    <3>3. row'[i].code = c
      BY <2>1, <2>3, <2>6
    <3> QED
      BY <2>7, <3>1, <3>2, <3>3 DEF CatalogInv, OneRow
  <2> QED
    BY <1>3, <2>2, <2>4, <2>6, <2>7, <2>8
<1> QED
  BY <1>4, <1>5

\* What administrators do to rows: no code comes, no request moves.
LEMMA LinkKept ==
  ASSUME CatalogInv, Sound(row'), UNCHANGED <<data, reader, removed, double, late>>, Metrics \subseteq Metrics',
         \A i \in Ids : row'[i] # NULL =>
           row'[i].code = NULL \/ (row[i] # NULL /\ row'[i].code = row[i].code)
  PROVE  CatalogInv'
<1>1. OneRow' /\ \A c \in Codes : WithCode(c)' \subseteq WithCode(c)
  BY CodesFade
<1>2. FillsAlone' /\ CreatesMissing'
  BY <1>1, OthersKept
<1>3. CatalogTypeOK'
  BY CatalogTypesNext DEF CatalogInv, CatalogTypeOK
<1>4. DeletedStayDeleted'
  <2> SUFFICES ASSUME NEW c \in removed
               PROVE  WithCode(c)' = {}
    BY DEF DeletedStayDeleted, WithCode
  <2> QED
    BY <1>1 DEF CatalogInv, CatalogTypeOK, DeletedStayDeleted
<1>5. PrunesEmpty'
  BY DEF CatalogInv, PrunesEmpty, Running
<1> QED
  BY <1>1, <1>2, <1>3, <1>4, <1>5 DEF CatalogInv

LEMMA CreateLinkKept ==
  ASSUME CatalogInv, NEW n \in SeedNames, CreateLink(n)
  PROVE  CatalogInv'
<1> DEFINE i == Min(Fresh)
           new == [code |-> NULL, name |-> n, parent |-> NULL]
<1>1. i \in Fresh
  BY FreshHasLeast DEF CreateLink
<1>2. new \in CatalogRow /\ new.code = NULL /\ new.parent = NULL
  BY DEF CatalogRow
<1>3. row' = [row EXCEPT ![i] = new] /\ UNCHANGED <<data, reader, removed, double, late>>
  BY DEF CreateLink
<1> HIDE DEF i, new
<1>4. /\ Sound(row')
      /\ \A j \in Ids : row'[j] = IF j = i THEN new ELSE row[j]
      /\ row[i] = NULL /\ new # NULL
  <2> DEFINE rows == [row EXCEPT ![i] = new]
  <2>1. /\ Sound(rows)
        /\ \A j \in Ids : rows[j] = IF j = i THEN new ELSE row[j]
        /\ row[i] = NULL /\ new # NULL
    BY <1>1, <1>2, CreatedIsSound, TypesAreSound DEF CatalogInv
  <2>2. row' = rows
    BY <1>3
  <2> HIDE DEF rows
  <2> QED
    BY <2>1, <2>2
<1>5. Metrics \subseteq Metrics'
  BY <1>4 DEF Metrics, InCatalog
<1> QED
  BY <1>2, <1>3, <1>4, <1>5, LinkKept

LEMMA UpdateLinkKept ==
  ASSUME CatalogInv, NEW i \in Ids, NEW n \in SeedNames, UpdateLink(i, n)
  PROVE  CatalogInv'
<1> DEFINE new == [row[i] EXCEPT !.name = n]
<1>1. Sound(row) /\ row[i] # NULL /\ row[i] \in CatalogRow
  BY TypesAreSound DEF CatalogInv, UpdateLink, InCatalog, Sound
<1>2. new \in CatalogRow /\ new.code = row[i].code /\ new.parent = row[i].parent
  BY <1>1 DEF CatalogRow
<1>3. row' = [row EXCEPT ![i] = new] /\ UNCHANGED <<data, reader, removed, double, late>>
  BY DEF UpdateLink
<1> HIDE DEF new
<1>4. new # NULL
  BY <1>2
<1>5. \A j \in Ids : /\ row'[j] # NULL <=> row[j] # NULL
                     /\ row'[j].code = row[j].code /\ row'[j].parent = row[j].parent
  BY <1>1, <1>2, <1>3, <1>4 DEF Sound
<1>6. row' \in [Ids -> {NULL} \cup CatalogRow]
  BY <1>1, <1>2, <1>3 DEF Sound
<1>7. \A j \in Ids : row[j] # NULL /\ row[j].parent # NULL => row[j].parent \in Ids
  BY <1>1 DEF Sound, CatalogRow
<1>8. Sound(row')
  BY <1>1, <1>5, <1>6, <1>7 DEF Sound
<1>9. Metrics' = Metrics
  BY <1>5 DEF Metrics, InCatalog
<1> QED
  BY <1>3, <1>5, <1>8, <1>9, LinkKept

LEMMA DeleteLinkKept ==
  ASSUME CatalogInv, NEW i \in Ids, DeleteLink(i)
  PROVE  CatalogInv'
<1> DEFINE gone == {i} \cup Children(i)
           more == {c \in Codes : WithCode(c) # {} /\ WithCode(c) \subseteq gone}
           filled == \E q \in Readers : Running(q) /\ reader[q].allowCreate
<1>1. /\ row' = Without(gone) /\ data' = data \ gone /\ late' = late \ gone
      /\ removed' \in {{}, removed \cup more} /\ (filled => removed' = {})
      /\ UNCHANGED <<reader, double>>
  BY DEF DeleteLink
<1> HIDE DEF filled
<1>2. /\ Sound(row')
      /\ \A j \in Ids : row'[j] # NULL <=> row[j] # NULL /\ j \notin gone
      /\ \A j \in Ids : row'[j] # NULL => row'[j].code = row[j].code
  <2> HIDE DEF gone
  <2> QED
    BY <1>1, WithoutIsSound, TypesAreSound DEF CatalogInv
<1>3. OneRow' /\ \A c \in Codes : WithCode(c)' \subseteq WithCode(c)
  <2> HIDE DEF gone
  <2> QED
    BY <1>1, <1>2, CodesFade
<1>4. FillsAlone' /\ CreatesMissing'
  BY <1>1, <1>3, OthersKept DEF filled
<1>5. \A c \in more : WithCode(c)' = {}
  <2> SUFFICES ASSUME NEW c \in more, NEW j \in WithCode(c)'
               PROVE  FALSE
    OBVIOUS
  <2>1. j \in WithCode(c) /\ j \in gone
    BY <1>3
  <2>2. j \in Ids /\ row'[j] # NULL
    BY DEF WithCode, Metrics, InCatalog
  <2> HIDE DEF gone
  <2> QED
    BY <1>2, <2>1, <2>2
<1>6. CatalogTypeOK'
  <2>1. data' \subseteq Metrics' /\ more \subseteq Codes
    <3> HIDE DEF gone
    <3> QED
      BY <1>1, <1>2 DEF CatalogInv, CatalogTypeOK, Metrics, InCatalog
  <2> HIDE DEF gone, more
  <2> QED
    BY <1>1, <1>2, <2>1, CatalogTypesNext DEF CatalogInv, CatalogTypeOK
<1>7. DeletedStayDeleted'
  <2> SUFFICES ASSUME NEW c \in removed \cup more
               PROVE  WithCode(c)' = {}
    BY <1>1 DEF DeletedStayDeleted, WithCode
  <2> HIDE DEF more
  <2> QED
    BY <1>3, <1>5 DEF CatalogInv, CatalogTypeOK, DeletedStayDeleted
<1>8. PrunesEmpty'
  <2> HIDE DEF gone
  <2> QED
    BY <1>1 DEF CatalogInv, PrunesEmpty, Running
<1> QED
  BY <1>3, <1>4, <1>6, <1>7, <1>8 DEF CatalogInv

LEMMA UploadKept ==
  ASSUME CatalogInv, NEW i \in Ids, Upload(i)
  PROVE  CatalogInv'
<1>1. /\ UNCHANGED <<row, reader, removed, double>> /\ data' = data \cup {i} /\ i \in Metrics
      /\ late' = IF \E q \in Readers : Running(q) /\ i \in reader[q].doomed THEN late \cup {i} ELSE late
  BY DEF Upload, Metrics
<1>2. UNCHANGED Metrics /\ \A x : WithCode(x)' = WithCode(x)
  BY <1>1 DEF Metrics, InCatalog, WithCode
<1>3. OneRow' /\ DeletedStayDeleted'
  BY <1>1, <1>2 DEF CatalogInv, OneRow, DeletedStayDeleted
<1>4. FillsAlone' /\ CreatesMissing'
  BY <1>1, <1>2, OthersKept
<1>5. CatalogTypeOK'
  BY <1>1, <1>2, TypesAreSound, CatalogTypesNext DEF CatalogInv, CatalogTypeOK
<1>6. PrunesEmpty'
  <2> SUFFICES ASSUME NEW q \in Readers, Running(q), NEW j \in reader[q].doomed \cap data'
               PROVE  j \in late'
    BY <1>1 DEF PrunesEmpty, Running
  <2>1. CASE j \in data
    BY <1>1, <2>1 DEF CatalogInv, PrunesEmpty
  <2>2. CASE j = i
    BY <1>1, <2>2
  <2> QED
    BY <1>1, <2>1, <2>2
<1> QED
  BY <1>3, <1>4, <1>5, <1>6 DEF CatalogInv

LEMMA CatalogStays ==
  ASSUME CatalogInv, [CatalogNext]_cvars
  PROVE  CatalogInv'
<1>1. CASE UNCHANGED cvars
  <2>1. UNCHANGED <<row, data, reader, removed, double, late>>
    BY <1>1 DEF cvars
  <2>2. UNCHANGED Metrics /\ \A x : WithCode(x)' = WithCode(x)
    BY <2>1 DEF Metrics, InCatalog, WithCode
  <2>3. OneRow' /\ DeletedStayDeleted'
    BY <2>1, <2>2 DEF CatalogInv, OneRow, DeletedStayDeleted
  <2>4. FillsAlone' /\ CreatesMissing'
    BY <2>1, <2>2, OthersKept
  <2>5. CatalogTypeOK'
    BY <2>1, <2>2, TypesAreSound, CatalogTypesNext DEF CatalogInv, CatalogTypeOK
  <2>6. PrunesEmpty'
    BY <2>1 DEF CatalogInv, PrunesEmpty, Running
  <2> QED
    BY <2>3, <2>4, <2>5, <2>6 DEF CatalogInv
<1> QED
  BY <1>1, CountKept, FindSeedKept, PruneKept, CreateSeedKept, CreateLinkKept, UpdateLinkKept,
     DeleteLinkKept, UploadKept
  DEF CatalogNext

\* Values go with what is pruned only if they came late.
PruningKeepsData ==
  \A i \in data : (\E q \in Readers : At(q, "prune") /\ reader'[q] # reader[q]) /\ i \notin data' => i \in late

LEMMA PruningTakesNoData ==
  ASSUME CatalogInv, CatalogNext
  PROVE  PruningKeepsData
<1> SUFFICES ASSUME NEW i \in data, i \notin data', NEW q \in Readers, At(q, "prune"), reader'[q] # reader[q]
             PROVE  i \in late
  BY DEF PruningKeepsData
<1>1. reader = [p \in Readers |-> reader[p]]
  BY DEF CatalogInv, CatalogTypeOK
<1>2. \A p \in Readers : ~Count(p) /\ ~FindSeed(p) /\ ~CreateSeed(p)
  BY DEF Count, FindSeed, CreateSeed
<1>3. \A n : ~CreateLink(n)
  BY DEF CreateLink
<1>4. \A j, n : ~UpdateLink(j, n)
  BY DEF UpdateLink
<1>5. \A j : ~DeleteLink(j) /\ ~Upload(j)
  BY DEF DeleteLink, Upload
<1>6. PICK p \in Readers : PruneDuplicates(p)
  BY <1>2, <1>3, <1>4, <1>5 DEF CatalogNext
<1>7. p = q
  BY <1>1, <1>6 DEF PruneDuplicates
<1>8. Running(q) /\ i \in reader[q].doomed
  BY <1>6, <1>7, RunningIsProgress DEF PruneDuplicates, CatalogInv
<1> QED
  BY <1>8 DEF CatalogInv, PrunesEmpty

-----------------------------------------------------------------------------
(* The metric tree: the rest of its types.                                 *)

\* A stored metric is in a category that exists, under a metric that exists or none.
Linked ==
  \A m \in MetricIds : node[m] # NULL =>
    node[m].cat \in cats /\ (node[m].parent = NULL \/ node[node[m].parent] # NULL)

RestTyped ==
  /\ refs \in [MetricIds -> SUBSET MetricIds] /\ nextId <= MaxMetric + 1
  /\ \A b \in Browsers : view[b] # NULL => view[b] = [m \in DOMAIN view[b] |-> view[b][m]]
  /\ alone \subseteq Browsers /\ doomed \subseteq MetricIds

TreeTyped == OlderParents /\ Linked /\ RestTyped

LEMMA TreeTypes == TreeTyped => TreeTypeOK
<1>s. SUFFICES ASSUME TreeTyped
               PROVE  TreeTypeOK
  OBVIOUS
<1>1. \A m \in Stored : m < nextId /\ node[m].cat \in cats /\ (node[m].parent # NULL => Exists(node[m].parent))
  BY <1>s DEF TreeTyped, OlderParents, RegistryOk, Linked, Stored, Exists
<1>2. ASSUME NEW b \in Browsers
      PROVE  /\ view[b] = NULL \/ \E D \in SUBSET MetricIds : view[b] \in [D -> Place]
             /\ saving[b] = {} \/ (view[b] # NULL /\ saving[b] \subseteq DOMAIN view[b])
  BY <1>s DEF TreeTyped, OlderParents, ViewsOk, RestTyped
<1>3. nextId \in 1..(MaxMetric + 1)
  BY <1>s DEF TreeTyped, OlderParents, RegistryOk, RestTyped
<1> QED
  BY <1>s, <1>1, <1>2, <1>3 DEF TreeTyped, OlderParents, RegistryOk, RestTyped, TreeTypeOK

LEMMA RemainingLinked ==
  ASSUME OlderParents, Linked, NEW gone,
         node' = Remaining(gone), \A m \in MetricIds \ gone : node[m] # NULL => node[m].cat \in cats'
  PROVE  Linked'
<1> SUFFICES ASSUME NEW m \in MetricIds, node'[m] # NULL
             PROVE  node'[m].cat \in cats' /\ (node'[m].parent = NULL \/ node'[node'[m].parent] # NULL)
  BY DEF Linked
<1>1. m \notin gone /\ node[m] # NULL
  BY DEF Remaining, Exists
<1>2. node[m] \in Place /\ (node[m].parent = NULL \/ node[m].parent \in MetricIds)
  BY <1>1 DEF OlderParents, RegistryOk, Place
<1>3. CASE node[m].parent \in gone
  <2>1. node'[m] = [node[m] EXCEPT !.parent = NULL]
    BY <1>1, <1>3 DEF Remaining, Exists
  <2> QED
    BY <1>1, <1>2, <2>1 DEF Place
<1>4. CASE node[m].parent \notin gone
  <2>1. node'[m] = node[m]
    BY <1>1, <1>4 DEF Remaining, Exists
  <2>2. CASE node[m].parent # NULL
    <3>1. node[node[m].parent] # NULL
      BY <1>1, <2>2 DEF Linked
    <3>2. node'[node[m].parent] \in {node[node[m].parent], [node[node[m].parent] EXCEPT !.parent = NULL]}
      BY <1>2, <1>4, <2>2, <3>1 DEF Remaining, Exists
    <3>3. node[node[m].parent] \in Place
      BY <1>2, <2>2, <3>1 DEF OlderParents, RegistryOk
    <3>4. node'[node[m].parent] \in Place
      BY <3>2, <3>3 DEF Place
    <3> QED
      BY <1>1, <2>1, <3>4 DEF Place
  <2> QED
    BY <1>1, <2>1, <2>2
<1> QED
  BY <1>3, <1>4


LEMMA NextTreeTyped ==
  ASSUME TreeTyped, [TreeNext]_tvars
  PROVE  TreeTyped'
<1> USE DEF TreeTyped
<1>0. OlderParents'
  BY NextOlder
<1>1. CASE UNCHANGED tvars
  BY <1>0, <1>1 DEF tvars, Linked, RestTyped
<1>2. ASSUME NEW c \in Categories, CreateCategory(c)
      PROVE  TreeTyped'
  BY <1>0, <1>2 DEF CreateCategory, Linked, RestTyped
<1>3. ASSUME NEW S, StartDelete(S)
      PROVE  TreeTyped'
  BY <1>0, <1>3 DEF StartDelete, Subtree, Linked, RestTyped
<1>4. ASSUME NEW c \in Categories, DropCategory(c)
      PROVE  TreeTyped'
  <2> DEFINE gone == {m \in Stored : node[m].cat = c}
  <2>1. \A m \in MetricIds \ gone : node[m] # NULL => node[m].cat \in cats'
    BY <1>4 DEF DropCategory, Linked, Stored, Exists
  <2>2. Linked'
    BY <1>4, <2>1, RemainingLinked DEF DropCategory
  <2>3. RestTyped'
    BY <1>4 DEF DropCategory, RestTyped
  <2> QED
    BY <1>0, <2>2, <2>3
<1>5. CASE FinishDelete
  <2>1. Linked'
    BY <1>5, RemainingLinked DEF FinishDelete, Linked
  <2>2. RestTyped'
    BY <1>5 DEF FinishDelete, RestTyped
  <2> QED
    BY <1>0, <2>1, <2>2
<1>6. ASSUME NEW m \in MetricIds, NEW rs \in SUBSET MetricIds, SetFormula(m, rs)
      PROVE  TreeTyped'
  BY <1>0, <1>6 DEF SetFormula, Linked, RestTyped
<1>7. ASSUME NEW c \in Categories, NEW p \in MetricIds \cup {NULL}, CreateMetric(c, p)
      PROVE  TreeTyped'
  <2> DEFINE place == [cat |-> c, parent |-> p]
  <2>1. nextId \in MetricIds /\ place \in Place /\ place.cat = c /\ place.parent = p
    BY <1>7 DEF CreateMetric, MetricIds, Place, OlderParents, RegistryOk
  <2>2. node' = [node EXCEPT ![nextId] = place] /\ nextId' = nextId + 1
    BY <1>7 DEF CreateMetric
  <2> HIDE DEF place
  <2>3. \A m \in MetricIds : node'[m] = IF m = nextId THEN place ELSE node[m]
    BY <2>2 DEF OlderParents, RegistryOk
  <2>4. c \in cats /\ (p = NULL \/ (p \in MetricIds /\ node[p] # NULL)) /\ cats' = cats
    BY <1>7 DEF CreateMetric, ParentOk, Exists
  <2>5. place # NULL
    BY <2>1
  <2>6. \A m \in MetricIds : node[m] # NULL => node[m].parent = NULL \/ node[m].parent \in MetricIds
    BY DEF OlderParents, RegistryOk, Place
  <2>7. Linked'
    BY <2>1, <2>3, <2>4, <2>5, <2>6 DEF Linked
  <2>8. RestTyped'
    BY <1>7, <2>1, <2>2 DEF CreateMetric, RestTyped, MetricIds
  <2> QED
    BY <1>0, <2>7, <2>8
<1>8. ASSUME NEW b \in Browsers, NEW copy, copy = [m \in DOMAIN copy |-> copy[m]],
             view' = [view EXCEPT ![b] = copy], alone' \subseteq alone,
             UNCHANGED <<node, refs, cats, nextId, doomed>>
      PROVE  TreeTyped'
  <2>1. \A d \in Browsers : view'[d] = IF d = b THEN copy ELSE view[d]
    BY <1>8 DEF OlderParents, ViewsOk
  <2> QED
    BY <1>0, <1>8, <2>1 DEF Linked, RestTyped
<1>9. ASSUME NEW b \in Browsers, Load(b)
      PROVE  TreeTyped'
  <2> DEFINE copy == [m \in Stored |-> Nested(m)]
  <2>1. copy = [m \in DOMAIN copy |-> copy[m]]
    OBVIOUS
  <2>2. view' = [view EXCEPT ![b] = copy] /\ alone' \subseteq alone /\ UNCHANGED <<node, refs, cats, nextId, doomed>>
    BY <1>9 DEF Load
  <2> HIDE DEF copy
  <2> QED
    BY <1>8, <2>1, <2>2
<1>10. ASSUME NEW b \in Browsers, NEW S, NEW c, Move(b, S, c)
       PROVE  TreeTyped'
  <2> DEFINE copy == Moved(b, S, c)
  <2>1. copy = [m \in DOMAIN copy |-> copy[m]]
    BY DEF Moved
  <2>2. view' = [view EXCEPT ![b] = copy] /\ alone' \subseteq alone /\ UNCHANGED <<node, refs, cats, nextId, doomed>>
    BY <1>10 DEF Move
  <2> HIDE DEF copy
  <2> QED
    BY <1>8, <2>1, <2>2
<1>11. ASSUME NEW b \in Browsers, Save(b)
       PROVE  TreeTyped'
  BY <1>0, <1>11 DEF Save, Linked, RestTyped
<1>12. ASSUME NEW b \in Browsers, SaveRow(b)
       PROVE  TreeTyped'
  <2> PICK m \in saving[b] :
        /\ node' = IF Exists(m) /\ RowFits(b, m) THEN [node EXCEPT ![m] = view[b][m]] ELSE node
        /\ alone' = IF Exists(m) /\ ~RowFits(b, m) THEN {} ELSE alone \cap {b}
        /\ UNCHANGED <<refs, cats, nextId, view, doomed>>
    BY <1>12 DEF SaveRow
  <2>1. m \in MetricIds /\ view[b][m] \in Place /\ view[b][m] # NULL
    BY DEF OlderParents, ViewsOk
  <2>2. \A k \in MetricIds : node[k] # NULL => node[k].parent = NULL \/ node[k].parent \in MetricIds
    BY DEF OlderParents, RegistryOk, Place
  <2>3. Linked'
    <3>1. CASE Exists(m) /\ RowFits(b, m)
      <4>1. \A k \in MetricIds : node'[k] = IF k = m THEN view[b][m] ELSE node[k]
        BY <3>1 DEF OlderParents, RegistryOk
      <4>2. view[b][m].cat \in cats
            /\ (view[b][m].parent = NULL \/ (view[b][m].parent \in MetricIds /\ node[view[b][m].parent] # NULL))
        BY <2>1, <3>1 DEF RowFits, Exists, Place
      <4> QED
        BY <2>1, <2>2, <3>1, <4>1, <4>2 DEF Linked, Exists
    <3>2. CASE ~(Exists(m) /\ RowFits(b, m))
      BY <3>2 DEF Linked
    <3> QED
      BY <3>1, <3>2
  <2>4. RestTyped'
    BY DEF RestTyped
  <2> QED
    BY <1>0, <2>3, <2>4
<1> QED
  BY <1>1, <1>2, <1>3, <1>4, <1>5, <1>6, <1>7, <1>9, <1>10, <1>11, <1>12
  DEF TreeNext, DeleteMetric, DeleteCategory

-----------------------------------------------------------------------------
(* Theorems about the registry and its data.                               *)

DataInv == DeskInv /\ CatalogInv /\ TreeTyped

LEMMA InitData == DataInit => DataInv
<1>1. TreeInit => TreeTyped
  BY InitOlder DEF TreeInit, TreeTyped, Linked, RestTyped
<1> QED
  BY <1>1, InitDesk, InitCatalog DEF DataInit, DataInv, DeskInv

LEMMA NextData ==
  ASSUME DataInv, [DataNext]_<<scene, dvars, cvars, tvars>>
  PROVE  DataInv'
<1>1. [RawNext]_dvars /\ [CatalogNext]_cvars /\ [TreeNext]_tvars
  BY DEF DataNext
<1> QED
  BY <1>1, DeskKept, CatalogStays, NextTreeTyped DEF DataInv

\* Every variable of upload, correction, catalogue and tree stays in its set; of a value
\* that was corrected last the audit log tells the value, and a metric with rows about
\* departments bears the suffix by which it is found, unless a rename that had read the
\* old name took it away: for any number of requests, rows in a file, metrics and names.
THEOREM DeskStaysSound == DataSpec => []DeskSound
<1>1. DataInv => DeskSound
  BY TreeTypes DEF DataInv, DeskInv, CatalogInv, DeskSound
<1> QED
  BY <1>1, InitData, NextData, PTL DEF DataSpec

\* However many requests run ensureMonitoringCatalog at once, on any list of seeds: a
\* seed is registered once, one that was deleted is not made again, and pruning takes no
\* values along but those that arrived after it had looked.
THEOREM CatalogStaysKept == DataSpec => CatalogKept
<1>1. DataInv => CodesUnique /\ DeletedStayDeleted
  <2> SUFFICES ASSUME DataInv, ~double, NEW c \in Codes
               PROVE  Cardinality(WithCode(c)) <= 1
    BY DEF DataInv, CatalogInv, CodesUnique
  <2>1. \A i, j \in WithCode(c) : i = j
    BY DEF DataInv, CatalogInv, OneRow, WithCode
  <2>2. CASE WithCode(c) = {}
    BY <2>2, FS_EmptySet
  <2>3. CASE WithCode(c) # {}
    <3> PICK i \in WithCode(c) : TRUE
      BY <2>3
    <3>1. WithCode(c) = {i}
      BY <2>1
    <3>2. Cardinality({i}) = 1
      BY FS_Singleton
    <3> QED
      BY <3>1, <3>2
  <2> QED
    BY <2>2, <2>3
<1>2. DataInv /\ [DataNext]_<<scene, dvars, cvars, tvars>> => [PruningKeepsData]_cvars
  BY PruningTakesNoData DEF DataNext, DataInv
<1>3. [][PruningKeepsData]_cvars => DataKept
  BY PTL DEF PruningKeepsData, DataKept
<1> QED
  BY <1>1, <1>2, <1>3, InitData, NextData, PTL DEF DataSpec, CatalogKept
=============================================================================
