----------------------------- MODULE Arrangement -----------------------------
(***************************************************************************)
(* Lists of items under groups, as the administrators' screens for metrics *)
(* (TreeBuilder.tsx), departments (InternalOrgManager.tsx) and offices     *)
(* (OfficeOrgManager.tsx) show and rearrange them.                         *)
(*                                                                         *)
(*   order  the groups in their order, without the system group            *)
(*   items  for each group the items in it, in order                       *)
(*   under  for each item the items nested in it, in order                 *)
(***************************************************************************)
EXTENDS Absent, Sublists, SequencesExt

CONSTANT Uncat   \* the system group, always shown first

Empty == [order |-> <<>>, items |-> <<>>, under |-> <<>>]

Pick(b, S) == IF b THEN S ELSE {}

\* The members of S by ascending position, and by id where positions are equal.
Sorted(S, pos) ==
  [i \in 1..Cardinality(S) |->
     CHOOSE x \in S :
       Cardinality({y \in S : pos[y] < pos[x] \/ (pos[y] = pos[x] /\ y < x)}) = i - 1]

Without(list, S) == Sublist(list, {i \in 1..Len(list) : list[i] \notin S})
Only(list, S) == Sublist(list, {i \in 1..Len(list) : list[i] \in S})

SpliceIn(list, at, new) ==
  LET n == IF at > Len(list) THEN Len(list) ELSE at
  IN SubSeq(list, 1, n) \o new \o SubSeq(list, n + 1, Len(list))

Groups(a) == DOMAIN a.items
ItemsOf(a) == DOMAIN a.under \cup UNION {ToSet(a.items[g]) : g \in Groups(a)}

\* What there is of S, and everything nested in it.
Nested(a, S) ==
  {m \in ItemsOf(a) : \A T \in SUBSET ItemsOf(a) :
     S \cap ItemsOf(a) \subseteq T /\ (\A x \in T \cap DOMAIN a.under : ToSet(a.under[x]) \subseteq T) => m \in T}

\* The items of ids that come out by themselves: an item nested in another one stays in it.
Tops(a, ids) ==
  LET moved == ToSet(ids) \cap ItemsOf(a)
  IN {m \in moved : \A x \in moved \ {m} : m \notin Nested(a, {x})}

\* The items of a list with all that is nested in them, from top to bottom.
Flattened(a, list) ==
  LET S == Nested(a, ToSet(list))
      Above(x, y) ==
        \/ y \in Nested(a, {x})
        \/ \E l \in {list} \cup {a.under[z] : z \in S \cap DOMAIN a.under} : \E j \in 1..Len(l) : \E i \in 1..(j - 1) :
             x \in Nested(a, {l[i]}) /\ y \in Nested(a, {l[j]})
  IN [k \in 1..Cardinality(S) |-> CHOOSE y \in S : Cardinality({x \in S \ {y} : Above(x, y)}) = k - 1]

\* Rows are ticked together, behind those ticked before, or unticked if all of them are.
Toggled(ticks, rows) ==
  IF ToSet(rows) \subseteq ToSet(ticks) THEN Without(ticks, ToSet(rows)) ELSE ticks \o Without(rows, ToSet(ticks))

\* Take the items ids out wherever they are and put them, in that order, into group g.
MoveItems(a, ids, g, at) ==
  LET tops == Tops(a, ids)
      left == [h \in Groups(a) |-> Without(a.items[h], tops)]
  IN IF g \notin Groups(a) THEN a
     ELSE [a EXCEPT !.items = [left EXCEPT ![g] = SpliceIn(@, at, Only(ids, tops))],
                    !.under = [x \in DOMAIN a.under |-> Without(a.under[x], tops)]]

\* Positions count from 0.
MoveGroup(a, from, to) ==
  IF from = to \/ from \notin 0..(Len(a.order) - 1) \/ to \notin 0..(Len(a.order) - 1) THEN a
  ELSE [a EXCEPT !.order = SpliceIn(RemoveAt(a.order, from + 1), to, <<a.order[from + 1]>>)]

\* hello-pangea/dnd: the index of a drop counts the rows of the list without the row
\* that is dragged.
DropRows(a, m, g) == Without(a.items[g], {m})

\* What is dragged with m: all that is picked, if m is picked.
Dragged(picked, m) == IF m \in ToSet(picked) /\ Len(picked) > 1 THEN picked ELSE <<m>>

Slip_DropIndex(a, ids, from, g, at) == at

\* onDragEnd: where the rows are put that were dropped at index at of group g.
DropIndex(a, ids, from, g, at) ==
  IF Len(ids) > 1 /\ from = g
  THEN at - Cardinality({i \in 1..at : i <= Len(a.items[g]) /\ a.items[g][i] \in ToSet(ids)})
  ELSE at

\* A drop that follows what the user sees: the rows before the drop that are not
\* dragged, the dragged rows, the other rows.
DropSeen(a, ids, m, g, at) ==
  LET rows == DropRows(a, m, g)
      tops == Tops(a, ids)
  IN Without(SubSeq(rows, 1, at), tops) \o Only(ids, tops)
       \o Without(SubSeq(rows, at + 1, Len(rows)), tops)

\* No other dragged row is before the drop, and a drag of several within one list does
\* not go down it.
PlainDrop(a, ids, m, from, g, at) ==
  \/ Len(ids) = 1
  \/ from = g /\ \A i \in 1..at : a.items[g][i] # m
  \/ from # g /\ ToSet(SubSeq(a.items[g], 1, at)) \cap ToSet(ids) = {}
=============================================================================
