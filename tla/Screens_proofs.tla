--------------------------- MODULE Screens_proofs ---------------------------
(***************************************************************************)
(* Theorems about the screens of the administrators.                       *)
(*                                                                         *)
(* The organisation page: whatever is not marked as unsaved is what is     *)
(* stored, or a load is still under way that will make it so (YearsInv).   *)
(* A tab that was left gets no answers, but what it had asked for is still *)
(* done; that is before the load of the tab that took its place.           *)
(*                                                                         *)
(* A save sends the rows as they lie on the screen, and a rank for each in *)
(* its list; the tree of the year is the same rows sorted by the ranks     *)
(* stored. The proof says of each list that it is ascending (OrderInv: no  *)
(* list names a node twice, no version is later than the year written, the *)
(* last version tells what the live row tells); an ascending list is the   *)
(* sorted one, by counting those before.                                   *)
(*                                                                         *)
(* The comparison screen: the comparison shown is of the table shown, and  *)
(* at most one question is open; its answer replaces both (PublicInv).     *)
(*                                                                         *)
(* The tree-building screen: every metric of a pane lies in a list, and a  *)
(* nested one in no other (TreeInv). A drop takes what was picked out of   *)
(* its lists by filtering them and puts it back at one place, so the       *)
(* corrected index is the number of rows that stay and lay before the drop *)
(* (DropsLand).                                                            *)
(*                                                                         *)
(* A pane that is not marked as unsaved shows what is stored, or a load is *)
(* under way (CleanInv). A delete takes the row out of the screen by its   *)
(* name and out of the table with all below it; the two agree while every  *)
(* parent stored is of its child's category (Upright) and the tree on the  *)
(* screen only moves what is stored (Fits), which a save in full restores. *)
(*                                                                         *)
(* A table of the dashboard: the value of a row is what is told of its     *)
(* target by the store alone (ToldOf), whatever else the table is asked    *)
(* for: every bucket holds one number, once for each row that asks for it. *)
(* Sums over a finite set are built one element at a time (SumBuilds);     *)
(* from that come the bounds of a sum and of a mean, and the two reaches   *)
(* of the relative scale, on which the rows stand in their own order       *)
(* (StandsInOrder).                                                        *)
(***************************************************************************)
EXTENDS MCScreens, MCViews, ItemVersions_proofs

-----------------------------------------------------------------------------
(* The organisation page: its requests.                                    *)

CallFields == {"op", "mounted", "tab", "year", "x", "rows", "seen"}
Reloads(c) == c.mounted /\ c.op = "load"

\* A request, and that its answer is for the tab and the year on the screen.
CallOK(c, t, y) ==
  /\ DOMAIN c = CallFields /\ c.mounted \in BOOLEAN
  /\ c.mounted => c.tab = t /\ c.year = y

\* What a tab asked for before it was left is done before the other tab loads.
CallsOK(cs, t, y) ==
  /\ IsList(cs) /\ \A i \in 1..Len(cs) : CallOK(cs[i], t, y)
  /\ \A i \in 1..Len(cs) : cs[i].mounted \/ cs[i].op = "load"
                             \/ \E j \in 1..Len(cs) : i < j /\ Reloads(cs[j])

ReloadWaits(cs) == \E i \in 1..Len(cs) : Reloads(cs[i])

YearsInv ==
  /\ CallsOK(calls, tab, year)
  /\ unsaved \in BOOLEAN
  /\ ~unsaved => shown = TreeAt(tab, year) \/ shown = Empty \/ ReloadWaits(calls)

LEMMA SameTree ==
  ASSUME UNCHANGED <<database, tab, year>>
  PROVE  TreeAt(tab, year)' = TreeAt(tab, year)
BY DEF database, TreeAt, Exists, Resolved, Span, Kept

\* A list with one more at its end.
LEMMA LongerList ==
  ASSUME NEW cs, IsList(cs), NEW c, NEW new, new = Append(cs, c)
  PROVE  /\ IsList(new) /\ Len(new) = Len(cs) + 1
         /\ \A i \in 1..Len(cs) : new[i] = cs[i]
         /\ new[Len(cs) + 1] = c
<1> DEFINE both == cs \o <<c>>
           n == Len(cs)
<1>1. IsList(<<c>>) /\ Len(<<c>>) = 1 /\ <<c>>[1] = c
  BY ShortLists
<1>2. new = both
  BY AppendList
<1>3. /\ IsList(both) /\ Len(both) = n + Len(<<c>>)
      /\ \A i \in 1..n : both[i] = cs[i]
      /\ \A i \in 1..Len(<<c>>) : both[n + i] = <<c>>[i]
  BY <1>1, ConcatList
<1> HIDE DEF both
<1>4. both[n + 1] = c /\ Len(both) = n + 1
  BY <1>1, <1>3
<1> QED
  BY <1>2, <1>3, <1>4

LEMMA OneMore ==
  ASSUME NEW cs, IsList(cs), NEW c
  PROVE  /\ IsList(cs \o <<c>>) /\ Len(cs \o <<c>>) = Len(cs) + 1
         /\ \A i \in 1..Len(cs) : (cs \o <<c>>)[i] = cs[i]
         /\ (cs \o <<c>>)[Len(cs) + 1] = c
<1>1. cs \o <<c>> = Append(cs, c)
  BY AppendList
<1> QED
  BY <1>1, LongerList

LEMMA EmittedOK ==
  ASSUME NEW cs, NEW t, NEW y, CallsOK(cs, t, y), NEW c, CallOK(c, t, y), c.mounted \/ c.op = "load"
  PROVE  /\ CallsOK(Append(cs, c), t, y) /\ Append(cs, c) # <<>>
         /\ ReloadWaits(cs) => ReloadWaits(Append(cs, c))
         /\ Reloads(c) => ReloadWaits(Append(cs, c))
<1> DEFINE new == Append(cs, c)
           n == Len(cs)
<1> HIDE DEF new
<1>1. IsList(cs) /\ n \in Nat
  BY DEF CallsOK, IsList
<1>3. /\ IsList(new) /\ Len(new) = n + 1
      /\ \A i \in 1..n : new[i] = cs[i]
      /\ new[n + 1] = c
  BY <1>1, LongerList DEF new
<1>4. \A i \in 1..(n + 1) : i \in 1..n \/ i = n + 1
  BY <1>1
<1>5. 1..n \subseteq 1..(n + 1) /\ n + 1 \in 1..(n + 1)
  BY <1>1
<1>6. \A i \in 1..Len(new) : CallOK(new[i], t, y)
  BY <1>3, <1>4 DEF CallsOK
<1>7. ASSUME NEW i \in 1..Len(new)
      PROVE  new[i].mounted \/ new[i].op = "load" \/ \E j \in 1..Len(new) : i < j /\ Reloads(new[j])
  BY <1>3, <1>4, <1>5 DEF CallsOK
<1>8. new # <<>>
  BY <1>1, <1>3, EmptyList
<1>9. ReloadWaits(cs) => ReloadWaits(new)
  BY <1>3, <1>5 DEF ReloadWaits
<1>10. Reloads(c) => ReloadWaits(new)
  BY <1>3, <1>5 DEF ReloadWaits
<1> QED
  BY <1>3, <1>6, <1>7, <1>8, <1>9, <1>10 DEF CallsOK, new

LEMMA RestOK ==
  ASSUME NEW cs, NEW t, NEW y, CallsOK(cs, t, y), cs # <<>>
  PROVE  /\ CallsOK(Tail(cs), t, y) /\ CallOK(cs[1], t, y)
         /\ ReloadWaits(cs) => ReloadWaits(Tail(cs)) \/ Reloads(cs[1])
         /\ cs[1].mounted \/ cs[1].op = "load" \/ ReloadWaits(Tail(cs))
<1> DEFINE new == Tail(cs)
           n == Len(cs)
<1>1. /\ n \in Nat \ {0} /\ IsList(new) /\ Len(new) = n - 1
      /\ \A i \in 1..(n - 1) : new[i] = cs[i + 1]
  BY TailList DEF CallsOK
<1> HIDE DEF new
<1>2. \A j \in 1..n : j > 1 => j - 1 \in 1..(n - 1) /\ new[j - 1] = cs[j]
  <2>1. ASSUME NEW j \in 1..n, j > 1 PROVE j - 1 \in 1..(n - 1) /\ (j - 1) + 1 = j
    BY <1>1, <2>1
  <2> QED
    BY <1>1, <2>1
<1>3. \A i \in 1..(n - 1) : i + 1 \in 1..n
  BY <1>1
<1>4. \A i \in 1..Len(new) : CallOK(new[i], t, y)
  BY <1>1, <1>3 DEF CallsOK
<1>5. ASSUME NEW i \in 1..Len(new)
      PROVE  new[i].mounted \/ new[i].op = "load" \/ \E j \in 1..Len(new) : i < j /\ Reloads(new[j])
  <2>1. CASE \E j \in 1..n : i + 1 < j /\ Reloads(cs[j])
    <3>1. PICK j \in 1..n : i + 1 < j /\ Reloads(cs[j])
      BY <2>1
    <3>2. j - 1 \in 1..Len(new) /\ i < j - 1 /\ Reloads(new[j - 1])
      BY <1>1, <1>2, <3>1
    <3> QED
      BY <3>2
  <2>2. CASE new[i].mounted \/ new[i].op = "load"
    BY <2>2
  <2> QED
    BY <1>1, <1>3, <2>1, <2>2 DEF CallsOK
<1>6. ASSUME NEW j \in 1..n, Reloads(cs[j]), j > 1
      PROVE  ReloadWaits(new)
  BY <1>1, <1>2, <1>6 DEF ReloadWaits
<1>7. 1 \in 1..n /\ \A j \in 1..n : j = 1 \/ j > 1
  BY <1>1
<1>8. ReloadWaits(cs) => ReloadWaits(new) \/ Reloads(cs[1])
  BY <1>6, <1>7 DEF ReloadWaits
<1>9. cs[1].mounted \/ cs[1].op = "load" \/ ReloadWaits(new)
  BY <1>6, <1>7 DEF CallsOK
<1> QED
  BY <1>1, <1>4, <1>5, <1>7, <1>8, <1>9 DEF CallsOK, new

LEMMA CallsAre ==
  /\ \A op, x, rows : CallOK(Call(op, x, rows), tab, year) /\ Call(op, x, rows).mounted
  /\ \A t, y : CallOK(Load(t, y), t, y) /\ Reloads(Load(t, y))
  /\ \A t, y, b : LET c == [Load(t, y) EXCEPT !.mounted = b]
                  IN c.mounted = b /\ c.op = "load" /\ c.tab = t /\ c.year = y /\ DOMAIN c = CallFields
BY DEF Call, Load, CallOK, CallFields, Reloads

\* What an unmounted tab had under way, and the load of the tab that takes its place.
LEMMA LeftOK ==
  ASSUME NEW cs, NEW t, NEW y, CallsOK(cs, t, y), NEW t2,
         NEW new, new = Append([i \in 1..Len(cs) |-> [cs[i] EXCEPT !.mounted = FALSE]], Load(t2, y))
  PROVE  CallsOK(new, t2, y) /\ ReloadWaits(new)
<1> DEFINE left == [i \in 1..Len(cs) |-> [cs[i] EXCEPT !.mounted = FALSE]]
           n == Len(cs)
<1>1. n \in Nat /\ \A i \in 1..n : CallOK(cs[i], t, y)
  BY DEF CallsOK, IsList
<1>2. left = [i \in 1..n |-> left[i]] /\ \A i \in 1..n : left[i] = [cs[i] EXCEPT !.mounted = FALSE]
  OBVIOUS
<1>3. \A i \in 1..n : DOMAIN left[i] = CallFields /\ ~left[i].mounted /\ left[i].mounted \in BOOLEAN
  BY <1>1, <1>2 DEF CallOK, CallFields
<1> HIDE DEF left
<1>4. IsList(left) /\ Len(left) = n
  BY <1>1, <1>2, FunctionIsList
<1>5. new = Append(left, Load(t2, y))
  BY DEF left
<1> HIDE DEF n
<1>6. /\ IsList(new) /\ Len(new) = n + 1
      /\ \A i \in 1..n : new[i] = left[i]
      /\ new[n + 1] = Load(t2, y)
  <2>1. /\ IsList(new) /\ Len(new) = Len(left) + 1
        /\ \A i \in 1..Len(left) : new[i] = left[i]
        /\ new[Len(left) + 1] = Load(t2, y)
    BY <1>4, <1>5, LongerList
  <2> QED
    BY <1>4, <2>1
<1>7. \A i \in 1..Len(new) : i \in 1..n \/ i = n + 1
  BY <1>1, <1>6
<1>8. n + 1 \in 1..Len(new) /\ \A i \in 1..n : i < n + 1
  BY <1>1, <1>6
<1>9. Reloads(new[n + 1]) /\ CallOK(new[n + 1], t2, y) /\ new[n + 1].op = "load"
  BY <1>6, CallsAre DEF Reloads
<1>10. \A i \in 1..Len(new) : CallOK(new[i], t2, y)
  BY <1>3, <1>6, <1>7, <1>9 DEF CallOK
<1>11. \A i \in 1..Len(new) : new[i].mounted \/ new[i].op = "load"
                              \/ \E j \in 1..Len(new) : i < j /\ Reloads(new[j])
  BY <1>7, <1>8, <1>9
<1> QED
  BY <1>6, <1>8, <1>9, <1>10, <1>11 DEF CallsOK, ReloadWaits

-----------------------------------------------------------------------------
(* The organisation page: its steps.                                       *)

\* Something is picked, or moved about.
Local ==
  /\ UNCHANGED <<database, tab, year, calls>>
  /\ UNCHANGED <<shown, unsaved>> \/ unsaved' = TRUE

\* Something is asked for.
Asks ==
  /\ UNCHANGED <<database, tab, year, shown, unsaved>>
  /\ \E op, x, rows : Emit(Call(op, x, rows))

LEMMA StepsOfPage ==
  ASSUME OrgScreensNext
  PROVE  \/ Local \/ Asks
         \/ \E y \in Years : ChangeYear(y)
         \/ \E t \in Tabs : ChangeTab(t)
         \/ TreeArrives \/ SaveAnswered \/ EditAnswered \/ CallFails
<1>1. \A op, x : Ask(op, x) => Asks
  BY DEF Ask, Asks
<1>2. \A S : Tick(S) => Local
  BY DEF Tick, Local
<1>3. \A next : MoveTicked(next) => Local
  BY DEF MoveTicked, Local
<1>4. \A next : DragHead(next) => Local
  BY DEF DragHead, Local
<1>5. ASSUME NEW d, \/ TickDepartment(d) \/ RenameDept(d) \/ DeleteDept(d)
                    \/ TickOffice(d) \/ Rename(d) \/ Abolish(d)
      PROVE  Local \/ Asks
  BY <1>1, <1>2, <1>5 DEF TickDepartment, RenameDept, DeleteDept, TickOffice, Rename, Abolish
<1>6. ASSUME NEW h, \/ TickSeries(h) \/ BulkMoveDepts(h) \/ AddDept(h) \/ RenameSeries(h) \/ DeleteSeries(h)
                    \/ TickGroup(h) \/ BulkMoveOffices(h) \/ AddOffice(h) \/ Rename(h) \/ Abolish(h)
      PROVE  Local \/ Asks
  BY <1>1, <1>2, <1>3, <1>6 DEF TickSeries, BulkMoveDepts, AddDept, RenameSeries, DeleteSeries,
    TickGroup, BulkMoveOffices, AddOffice, Rename, Abolish
<1>7. ASSUME NEW n, NEW from, NEW h, NEW at, DragDept(n, from, h, at) \/ DragOffice(n, from, h, at)
      PROVE  Local
  BY <1>3, <1>7 DEF DragDept, DragOffice
<1>8. ASSUME NEW from, NEW to, ReorderSeries(from, to) \/ ReorderCategories(from, to)
      PROVE  Local
  BY <1>4, <1>8 DEF ReorderSeries, ReorderCategories
<1>9. ClearTicks => Local
  BY DEF ClearTicks, Local
<1>10. SaveSeries \/ SaveOffices \/ AddSeries \/ AddOfficeGroup => Asks
  BY <1>1 DEF SaveSeries, SaveOffices, AddSeries, AddOfficeGroup, Asks
<1> HIDE DEF Local, Asks
<1>11. CASE \E d \in ItemsOf(shown) : \/ TickDepartment(d) \/ RenameDept(d) \/ DeleteDept(d)
                                     \/ TickOffice(d) \/ Rename(d) \/ Abolish(d)
  BY <1>5, <1>11
<1>12. CASE \E h \in Groups(shown) :
              \/ TickSeries(h) \/ BulkMoveDepts(h) \/ AddDept(h) \/ RenameSeries(h) \/ DeleteSeries(h)
              \/ TickGroup(h) \/ BulkMoveOffices(h) \/ AddOffice(h) \/ Rename(h) \/ Abolish(h)
  BY <1>6, <1>12
<1>13. CASE \E n \in ItemsOf(shown), from, h \in Groups(shown), at \in 0..Cardinality(ItemsOf(shown)) :
              DragDept(n, from, h, at) \/ DragOffice(n, from, h, at)
  BY <1>7, <1>13
<1>14. CASE \E from, to \in 0..(Len(shown.order) - 1) : ReorderSeries(from, to) \/ ReorderCategories(from, to)
  BY <1>8, <1>14
<1>15. CASE ClearTicks \/ SaveSeries \/ SaveOffices \/ AddSeries \/ AddOfficeGroup
  BY <1>9, <1>10, <1>15
<1> QED
  BY <1>11, <1>12, <1>13, <1>14, <1>15 DEF OrgScreensNext

LEMMA NextYears ==
  ASSUME Patient, YearsInv, [OrgScreensNext]_osvars
  PROVE  YearsInv'
<1> USE DEF YearsInv
<1>1. CASE Local
  BY <1>1, SameTree DEF Local
<1>2. CASE Asks
  <2>1. PICK op, x, rows : calls' = Append(calls, Call(op, x, rows))
    BY <1>2 DEF Asks, Emit
  <2>2. UNCHANGED <<database, tab, year, shown, unsaved>>
    BY <1>2 DEF Asks
  <2>3. CallsOK(calls', tab, year) /\ (ReloadWaits(calls) => ReloadWaits(calls'))
    BY <2>1, EmittedOK, CallsAre
  <2> QED
    BY <2>2, <2>3, SameTree
<1>3. ASSUME NEW y \in Years, ChangeYear(y) PROVE YearsInv'
  <2>1. calls = <<>> /\ calls' = Append(calls, Load(tab, y)) /\ year' = y
        /\ UNCHANGED <<tab, unsaved>>
    BY <1>3 DEF ChangeYear, Emit
  <2>2. CallsOK(calls, tab, y)
    BY <2>1, EmptyList DEF CallsOK
  <2>3. CallsOK(calls', tab, y) /\ ReloadWaits(calls')
    BY <2>1, <2>2, EmittedOK, CallsAre DEF Reloads
  <2> QED
    BY <2>1, <2>3
<1>4. ASSUME NEW t \in Tabs, ChangeTab(t) PROVE YearsInv'
  <2>1. /\ tab' = t /\ unsaved' = FALSE /\ year' = year
        /\ calls' = Append([i \in 1..Len(calls) |-> [calls[i] EXCEPT !.mounted = FALSE]], Load(t, year))
    BY <1>4 DEF ChangeTab
  <2>2. CallsOK(calls', t, year) /\ ReloadWaits(calls')
    BY <2>1, LeftOK
  <2> QED
    BY <2>1, <2>2
<1>5. CASE TreeArrives
  <2>1. calls # <<>> /\ Call1.op = "load" /\ calls' = Rest /\ UNCHANGED <<database, tab, year>>
    BY <1>5 DEF TreeArrives, Answered
  <2>2. /\ CallsOK(Rest, tab, year) /\ CallOK(Call1, tab, year)
        /\ ReloadWaits(calls) => ReloadWaits(Rest) \/ Reloads(Call1)
    BY <2>1, RestOK DEF Rest, Call1
  <2>3. TreeAt(tab, year)' = TreeAt(tab, year)
    BY <2>1, SameTree
  <2>4. CASE Call1.mounted
    <3>1. shown' = TreeAt(tab, year) /\ unsaved' = FALSE
      BY <1>5, <2>2, <2>4 DEF TreeArrives, CallOK
    <3> QED
      BY <2>1, <2>2, <2>3, <3>1
  <2>5. CASE ~Call1.mounted
    <3>1. UNCHANGED <<shown, unsaved>>
      BY <1>5, <2>5 DEF TreeArrives
    <3> QED
      BY <2>1, <2>2, <2>3, <2>5, <3>1 DEF Reloads
  <2> QED
    BY <2>4, <2>5
<1>6. CASE SaveAnswered \/ EditAnswered
  <2>1. /\ calls # <<>> /\ Call1.op # "load" /\ Reload /\ UNCHANGED <<tab, year, shown>>
        /\ unsaved' = unsaved \/ (unsaved' = (unsaved /\ ~Call1.mounted))
    BY <1>6 DEF SaveAnswered, EditAnswered, Answered
  <2>2. /\ CallsOK(Rest, tab, year) /\ CallOK(Call1, tab, year)
        /\ Call1.mounted \/ ReloadWaits(Rest)
    BY <2>1, RestOK DEF Rest, Call1
  <2> DEFINE c == [Load(Call1.tab, Call1.year) EXCEPT !.mounted = Call1.mounted]
  <2>3. /\ DOMAIN c = CallFields /\ c.mounted = Call1.mounted /\ c.op = "load"
        /\ c.tab = Call1.tab /\ c.year = Call1.year
    BY CallsAre
  <2>4. calls' = Append(Rest, c)
    BY <2>1 DEF Reload
  <2> HIDE DEF c
  <2>5. CallOK(c, tab, year) /\ (Call1.mounted => Reloads(c))
    BY <2>2, <2>3 DEF CallOK, Reloads
  <2>6. CallsOK(calls', tab, year) /\ ReloadWaits(calls')
    BY <2>2, <2>3, <2>4, <2>5, EmittedOK
  <2>7. unsaved' \in BOOLEAN
    BY <2>1, <2>2 DEF CallOK
  <2> QED
    BY <2>1, <2>6, <2>7
<1>7. CASE CallFails
  <2>1. calls # <<>> /\ calls' = Rest /\ UNCHANGED <<database, tab, year, unsaved>>
        /\ shown' = IF Reloads(Call1) THEN Empty ELSE shown
    BY <1>7 DEF CallFails, Reloads
  <2>2. /\ CallsOK(Rest, tab, year)
        /\ ReloadWaits(calls) => ReloadWaits(Rest) \/ Reloads(Call1)
    BY <2>1, RestOK DEF Rest, Call1
  <2>3. TreeAt(tab, year)' = TreeAt(tab, year)
    BY <2>1, SameTree
  <2> QED
    BY <2>1, <2>2, <2>3
<1>8. CASE UNCHANGED osvars
  <2>1. UNCHANGED <<database, tab, year>> /\ UNCHANGED <<calls, shown, unsaved>>
    BY <1>8 DEF osvars, database
  <2> QED
    BY <2>1, SameTree
<1> QED
  BY <1>1, <1>2, <1>3, <1>4, <1>5, <1>6, <1>7, <1>8, StepsOfPage

LEMMA InitYears == OrgScreensInit => YearsInv
<1> SUFFICES ASSUME OrgScreensInit PROVE YearsInv
  OBVIOUS
<1>1. calls = <<Load(tab, year)>> /\ unsaved = FALSE
  BY DEF OrgScreensInit
<1>2. IsList(calls) /\ Len(calls) = 1 /\ calls[1] = Load(tab, year)
  BY <1>1, ShortLists
<1>3. CallOK(calls[1], tab, year) /\ Reloads(calls[1])
  BY <1>2, CallsAre
<1>4. 1..Len(calls) = {1}
  BY <1>2
<1>5. CallsOK(calls, tab, year)
  BY <1>2, <1>3, <1>4 DEF CallsOK, Reloads
<1> QED
  BY <1>1, <1>3, <1>4, <1>5 DEF YearsInv, ReloadWaits

\* With nothing under way and nothing marked as unsaved the organisation page shows what
\* is stored for the year it names, whatever was saved, edited and failed meanwhile and
\* whichever tabs were opened, as long as the year is only changed with nothing under way.
THEOREM PageShowsYear == Patient => (MCSpec => []CleanIsYears)
<1> SUFFICES ASSUME Patient PROVE MCSpec => []CleanIsYears
  OBVIOUS
<1>1. MCInit => YearsInv
  BY InitYears DEF MCInit
<1>2. YearsInv /\ [MCNext]_<<tsvars, osvars, open>> => YearsInv'
  <2>1. [MCNext]_<<tsvars, osvars, open>> => [OrgScreensNext]_osvars
    BY DEF MCNext
  <2> QED
    BY <2>1, NextYears
<1>3. YearsInv => CleanIsYears
  <2>1. YearsInv /\ calls = <<>> => ~ReloadWaits(calls)
    BY EmptyList DEF ReloadWaits
  <2> QED
    BY <2>1 DEF YearsInv, CleanIsYears
<1> QED
  BY <1>1, <1>2, <1>3, PTL DEF MCSpec
-----------------------------------------------------------------------------
(* What a filter keeps (Array.prototype.filter).                           *)

\* The number of places of P that are before i.
Rank(P, i) == Cardinality({j \in P : j < i})

\* A finite set of numbers, as places in a list.
Ranked(P) == IsFiniteSet(P) /\ Orders([i \in P |-> {j \in P : j < i}], P)

LEMMA RanksRun ==
  ASSUME NEW P, Ranked(P)
  PROVE  /\ Cardinality(P) \in Nat
         /\ \A i \in P : Rank(P, i) \in 0..(Cardinality(P) - 1)
         /\ \A i, j \in P : Rank(P, i) = Rank(P, j) => i = j
         /\ \A k \in 0..(Cardinality(P) - 1) : \E i \in P : Rank(P, i) = k
<1> DEFINE B == [i \in P |-> {j \in P : j < i}]
           n == Cardinality(P)
<1>1. Orders(B, P) /\ IsFiniteSet(P)
  BY DEF Ranked
<1>2. \A i \in P : Cardinality(B[i]) = Rank(P, i)
  BY DEF Rank
<1> HIDE DEF B
<1>3. /\ n \in Nat /\ \A i \in P : Cardinality(B[i]) \in 0..(n - 1)
      /\ \A i, j \in P : Cardinality(B[i]) = Cardinality(B[j]) => i = j
      /\ \A k \in 0..(n - 1) : \E i \in P : Cardinality(B[i]) = k
  BY <1>1, PlacesRun
<1> QED
  BY <1>2, <1>3

LEMMA PlacesAreRanked ==
  ASSUME NEW n \in Nat, NEW P \in SUBSET (1..n)
  PROVE  Ranked(P)
<1>1. IsFiniteSet(1..n)
  <2>1. 1 \in Int /\ n \in Int
    OBVIOUS
  <2> QED
    BY <2>1, FS_Interval
<1>2. IsFiniteSet(P)
  BY <1>1, FS_Subset
<1>3. P \in SUBSET Int
  OBVIOUS
<1>4. Orders([i \in P |-> {j \in P : j < i}], P)
  BY <1>3 DEF Orders
<1> QED
  BY <1>2, <1>4 DEF Ranked

LEMMA FilterList ==
  ASSUME NEW s, NEW P, Ranked(P)
  PROVE  /\ IsList(Sublist(s, P)) /\ Len(Sublist(s, P)) = Cardinality(P) /\ Cardinality(P) \in Nat
         /\ \A k \in 1..Cardinality(P) :
              \E i \in P : Rank(P, i) = k - 1 /\ Sublist(s, P)[k] = s[i]
         /\ \A i \in P : /\ Rank(P, i) + 1 \in 1..Cardinality(P)
                         /\ Sublist(s, P)[Rank(P, i) + 1] = s[i]
<1> DEFINE n == Cardinality(P)
           at(k) == CHOOSE i \in P : Rank(P, i) = k - 1
           l == Sublist(s, P)
<1>1. /\ n \in Nat /\ \A i \in P : Rank(P, i) \in 0..(n - 1)
      /\ \A i, j \in P : Rank(P, i) = Rank(P, j) => i = j
      /\ \A k \in 0..(n - 1) : \E i \in P : Rank(P, i) = k
  BY RanksRun
<1>2. l = [k \in 1..n |-> s[at(k)]]
  BY DEF Sublist, Rank
<1> HIDE DEF n, l
<1>3. ASSUME NEW k \in 1..n PROVE at(k) \in P /\ Rank(P, at(k)) = k - 1
  <2>1. k - 1 \in 0..(n - 1)
    BY <1>1
  <2>2. \E i \in P : Rank(P, i) = k - 1
    BY <1>1, <2>1
  <2> QED
    BY <2>2
<1>4. ASSUME NEW i \in P
      PROVE  Rank(P, i) + 1 \in 1..n /\ at(Rank(P, i) + 1) = i
  <2>1. Rank(P, i) + 1 \in 1..n /\ (Rank(P, i) + 1) - 1 = Rank(P, i)
    BY <1>1
  <2>2. at(Rank(P, i) + 1) \in P /\ Rank(P, at(Rank(P, i) + 1)) = Rank(P, i)
    BY <1>3, <2>1
  <2> QED
    BY <1>1, <2>1, <2>2
<1> HIDE DEF at
<1>5. \A k \in 1..n : l[k] = s[at(k)]
  BY <1>2
<1>6. IsList(l) /\ Len(l) = n
  <2>1. l = [k \in 1..n |-> l[k]]
    BY <1>2
  <2> QED
    BY <1>1, <2>1, FunctionIsList
<1> QED
  BY <1>1, <1>3, <1>4, <1>5, <1>6 DEF n, l

-----------------------------------------------------------------------------
(* The public comparison screen                                            *)

\* null is neither a kind of node nor a question a query asks.
NullApart == NULL # "dept" /\ \A T, M, Y : NULL # [targets |-> T, metrics |-> M, years |-> Y]

\* A target of the public screen: a university or some of them.
TargetOK(t) ==
  /\ t.depts = {} /\ t.dept = NULL
  /\ t.univs # {} \/ t.key = <<t.univ>>

TargetsOK(s) == IsList(s) /\ \A i \in 1..Len(s) : TargetOK(s[i])

WishOK(w) ==
  /\ w = [targets |-> w.targets, metrics |-> w.metrics, years |-> w.years, expand |-> w.expand]
  /\ TargetsOK(w.targets)

\* A table on its way, that of the targets which will be compared.
TableCall(k) ==
  /\ k = [at |-> k.at, ask |-> k.ask, shown |-> k.shown, wish |-> k.wish]
  /\ TargetsOK(k.shown)
  /\ k.ask = [targets |-> k.ask.targets, metrics |-> k.wish.metrics, years |-> k.wish.years]
  /\ k.shown = <<>> \/ k.ask.targets = ToSet(k.shown)

PublicCall(k) ==
  \/ k.at = "load"
  \/ k.at = "tree" /\ WishOK(k.wish)
  \/ k.at = "pivot" /\ TableCall(k)
  \/ k.at = "relative" /\ TableCall(k) /\ ShouldShowRelativeCompare(k.shown)

ScreenOK == targetTree \in {PublicTree(place), <<>>} /\ WishOK(wish) /\ (preset # NULL => WishOK(preset))
CallsKept == DOMAIN call = Calls /\ \A c \in Calls : call[c] # NULL => PublicCall(call[c])

PublicInv == scope = "disclosure" => ScreenOK /\ CallsKept /\ RelativeOfPivot

LEMMA PublicNodes ==
  ASSUME NEW p, NEW n \in DOMAIN PublicTree(p)
  PROVE  PublicTree(p)[n].members = {} /\ PublicTree(p)[n].level \notin {"series", "dept"}
<1> DEFINE path(u) == <<"root:others", p[u].type,
                        IF p[u].region = NULL THEN Remote ELSE p[u].region, p[u].city>>
           groups == {<<"root:others">>} \cup {SubSeq(path(u), 1, k) : u \in Listed(p), k \in 1..4}
           group(m) == [Plain EXCEPT !.level = <<"root", "schoolType", "region", "regionCity">>[Len(m)],
                                     !.up = IF Len(m) = 1 THEN NULL ELSE Front(m)]
           univ(m) == [Plain EXCEPT !.level = "univ", !.univ = m[1], !.up = path(m[1])]
           univs == {<<u>> : u \in Listed(p)}
<1>1. ASSUME NEW m \in groups PROVE Len(m) \in 1..4
  <2>1. ASSUME NEW u, NEW k \in 1..4 PROVE Len(SubSeq(path(u), 1, k)) \in 1..4
    <3> DEFINE a == p[u].type
               b == IF p[u].region = NULL THEN Remote ELSE p[u].region
               c == p[u].city
               S == {"root:others", a, b, c}
    <3> HIDE DEF a, b, c
    <3>1. <<"root:others", a, b, c>> \in Seq(S) /\ Len(<<"root:others", a, b, c>>) = 4
      OBVIOUS
    <3>2. Len(SubSeq(<<"root:others", a, b, c>>, 1, k)) = k
      <4> HIDE DEF S
      <4> QED
        BY <3>1, SubSeqProperties
    <3> QED
      BY <3>2 DEF a, b, c
  <2>2. Len(<<"root:others">>) \in 1..4
    OBVIOUS
  <2> QED
    BY <2>1, <2>2
<1> HIDE DEF path
<1>2. ASSUME NEW m \in groups PROVE group(m).members = {} /\ group(m).level \notin {"series", "dept"}
  <2> DEFINE names == <<"root", "schoolType", "region", "regionCity">>
  <2>1. \A k \in 1..4 : names[k] \in {"root", "schoolType", "region", "regionCity"}
    OBVIOUS
  <2>2. group(m) = [Plain EXCEPT !.level = names[Len(m)], !.up = IF Len(m) = 1 THEN NULL ELSE Front(m)]
    OBVIOUS
  <2>9. Len(m) \in 1..4
    BY <1>1
  <2> HIDE DEF names, group, groups
  <2>3. names[Len(m)] \in {"root", "schoolType", "region", "regionCity"}
    BY <2>9, <2>1
  <2>4. group(m).members = {} /\ group(m).level = names[Len(m)]
    BY <2>2 DEF Plain
  <2> QED
    BY <2>3, <2>4
<1>3. ASSUME NEW m PROVE univ(m).members = {} /\ univ(m).level = "univ"
  BY DEF Plain
<1>4. PublicTree(p) = [m \in groups \cup univs \cup {Home} |->
                          IF m = Home THEN HomeNode ELSE OthersTree(p)[m]]
  BY DEF PublicTree, OthersTree, path
<1>5. OthersTree(p) = [m \in groups \cup univs |-> IF m \in groups THEN group(m) ELSE univ(m)]
  BY DEF OthersTree, path
<1> HIDE DEF groups, group, univ, univs
<1>6. HomeNode.members = {} /\ HomeNode.level = "root"
  BY DEF HomeNode, Plain
<1>7. n \in groups \cup univs \cup {Home}
  BY <1>4
<1>8. CASE n = Home
  BY <1>4, <1>6, <1>7, <1>8
<1>9. CASE n # Home
  <2>1. n \in groups \cup univs /\ PublicTree(p)[n] = OthersTree(p)[n]
    BY <1>4, <1>7, <1>9
  <2> QED
    BY <1>2, <1>3, <1>5, <2>1
<1> QED
  BY <1>8, <1>9

LEMMA NoDepts ==
  ASSUME NullApart, NEW p, NEW n \in DOMAIN PublicTree(p)
  PROVE  BuildGroup(PublicTree(p), n) = NULL \/ TargetOK(BuildGroup(PublicTree(p), n))
<1> DEFINE t == PublicTree(p)
<1>1. t[n].members = {} /\ t[n].level \notin {"series", "dept"}
  BY PublicNodes
<1> HIDE DEF t
<1>2. ASSUME NEW u PROVE TargetOK(Single(u, NULL))
  BY DEF Single, Target, TargetOK
<1>3. CASE Kind(t, n) = "univ"
  <2>1. CASE CollectUnivCodes(t, n) = {}
    BY <1>3, <2>1 DEF BuildGroup, t
  <2>2. CASE CollectUnivCodes(t, n) # {}
    <3>1. BuildGroup(t, n) = Target(n, "group", NULL, NULL, CollectUnivCodes(t, n), {})
      BY <1>3, <2>2 DEF BuildGroup
    <3> QED
      BY <2>2, <3>1 DEF Target, TargetOK, t
  <2> QED
    BY <2>1, <2>2
<1>4. CASE Kind(t, n) # "univ"
  <2>1. Kind(t, n) # "dept"
    <3>2. NULL # "dept"
      BY DEF NullApart
    <3>3. CASE IsHome(t, n)
      BY <1>1, <3>3 DEF Kind
    <3>4. CASE ~IsHome(t, n)
      BY <1>1, <3>2, <3>4 DEF Kind
    <3> QED
      BY <3>3, <3>4
  <2>2. BuildGroup(t, n) \in {Single(t[n].univ, NULL), NULL}
    BY <1>1, <1>4, <2>1 DEF BuildGroup
  <2> QED
    BY <1>2, <2>2 DEF t
<1> QED
  BY <1>3, <1>4

LEMMA NormalizedOK ==
  ASSUME NEW t, TargetOK(t)
  PROVE  TargetOK(Normalized(t))
BY DEF Normalized, Single, Target, TargetOK

\* Without folding, what is chosen stays a choice of universities.
LEMMA CollapsedOK ==
  ASSUME NEW s, TargetsOK(s), NEW t
  PROVE  TargetsOK(Collapse(s, t, FALSE))
<1>1. CASE s = <<>> \/ DOMAIN t = {}
  BY <1>1 DEF Collapse
<1>2. CASE ~(s = <<>> \/ DOMAIN t = {})
  <2> DEFINE r == [i \in DOMAIN s |-> Normalized(s[i])]
             n == Len(s)
  <2>1. Collapse(s, t, FALSE) = r
    BY <1>2 DEF Collapse
  <2>2. n \in Nat /\ DOMAIN s = 1..n /\ \A i \in 1..n : TargetOK(s[i])
    BY DEF TargetsOK, IsList
  <2>3. r = [i \in 1..n |-> r[i]] /\ \A i \in 1..n : r[i] = Normalized(s[i])
    BY <2>2
  <2> HIDE DEF r, n
  <2>4. IsList(r) /\ Len(r) = n
    BY <2>2, <2>3, FunctionIsList
  <2> QED
    BY <2>1, <2>2, <2>3, <2>4, NormalizedOK DEF TargetsOK
<1> QED
  BY <1>1, <1>2

LEMMA UntickedOK ==
  ASSUME NEW s, TargetsOK(s), NEW keys
  PROVE  TargetsOK(Unticked(s, keys))
<1> DEFINE P == {i \in 1..Len(s) : s[i].key \notin keys}
           r == Sublist(s, P)
<1>1. Len(s) \in Nat /\ P \in SUBSET (1..Len(s)) /\ \A i \in P : TargetOK(s[i])
  BY DEF TargetsOK, IsList
<1>2. Unticked(s, keys) = r
  BY DEF Unticked
<1> HIDE DEF P
<1>3. Ranked(P)
  BY <1>1, PlacesAreRanked
<1>4. IsList(r) /\ \A k \in 1..Len(r) : \E i \in P : r[k] = s[i]
  BY <1>3, FilterList
<1> HIDE DEF r
<1> QED
  BY <1>1, <1>2, <1>4 DEF TargetsOK

LEMMA OneMoreOK ==
  ASSUME NEW s, TargetsOK(s), NEW t, TargetOK(t)
  PROVE  TargetsOK(Append(s, t))
<1> DEFINE r == Append(s, t)
<1> HIDE DEF r
<1>1. Len(s) \in Nat
  BY DEF TargetsOK, IsList
<1>2. /\ IsList(r) /\ Len(r) = Len(s) + 1
      /\ \A i \in 1..Len(s) : r[i] = s[i]
      /\ r[Len(s) + 1] = t
  BY LongerList DEF TargetsOK, r
<1>3. \A i \in 1..(Len(s) + 1) : i \in 1..Len(s) \/ i = Len(s) + 1
  BY <1>1
<1>4. \A i \in 1..Len(r) : TargetOK(r[i])
  BY <1>2, <1>3 DEF TargetsOK
<1> QED
  BY <1>2, <1>4 DEF TargetsOK, r

\* What is compared is what the rows of the table stand for.
LEMMA ComparedAreShown ==
  ASSUME NEW s, TargetsOK(s)
  PROVE  {<<u>> : u \in CollectUnivLevelCodes(s)} = UnitsOf(ToSet(s))
<1> DEFINE codes(t) == IF t.univs # {} THEN t.univs ELSE {t.univ}
<1>1. \A t \in ToSet(s) : TargetOK(t) /\ UnivLevel(t)
  BY DEF TargetsOK, IsList, ToSet, TargetOK, UnivLevel
<1>2. CollectUnivLevelCodes(s) = UNION {codes(t) : t \in {x \in ToSet(s) : UnivLevel(x)}}
  BY DEF CollectUnivLevelCodes
<1>3. {x \in ToSet(s) : UnivLevel(x)} = ToSet(s)
  BY <1>1
<1>4. CollectUnivLevelCodes(s) = UNION {codes(t) : t \in ToSet(s)}
  BY <1>2, <1>3
<1>5. ASSUME NEW t \in ToSet(s) PROVE Units(t) = {<<u>> : u \in codes(t)}
  BY <1>1 DEF Units, TargetOK
<1>6. UnitsOf(ToSet(s)) = UNION {Units(t) : t \in ToSet(s)}
  BY DEF UnitsOf
<1> HIDE DEF codes
<1>7. ASSUME NEW x
      PROVE  x \in UNION {Units(t) : t \in ToSet(s)} <=> x \in {<<u>> : u \in UNION {codes(t) : t \in ToSet(s)}}
  <2>1. x \in UNION {Units(t) : t \in ToSet(s)} <=> \E t \in ToSet(s) : \E u \in codes(t) : x = <<u>>
    BY <1>5
  <2>2. x \in {<<u>> : u \in UNION {codes(t) : t \in ToSet(s)}} <=> \E t \in ToSet(s) : \E u \in codes(t) : x = <<u>>
    OBVIOUS
  <2> QED
    BY <2>1, <2>2
<1> QED
  BY <1>4, <1>6, <1>7

-----------------------------------------------------------------------------
(* The steps of the public screen                                          *)

LEMMA WishChanges ==
  ASSUME NEW w, WishOK(w), NEW x
  PROVE  /\ TargetsOK(x) => WishOK([w EXCEPT !.targets = x])
         /\ WishOK([w EXCEPT !.metrics = x]) /\ WishOK([w EXCEPT !.years = x])
<1>1. /\ w = [targets |-> w.targets, metrics |-> w.metrics, years |-> w.years, expand |-> w.expand]
      /\ TargetsOK(w.targets)
  BY DEF WishOK
<1> DEFINE a == [w EXCEPT !.targets = x]
           b == [w EXCEPT !.metrics = x]
           d == [w EXCEPT !.years = x]
<1>2. /\ a = [targets |-> x, metrics |-> w.metrics, years |-> w.years, expand |-> w.expand]
      /\ b = [targets |-> w.targets, metrics |-> x, years |-> w.years, expand |-> w.expand]
      /\ d = [targets |-> w.targets, metrics |-> w.metrics, years |-> x, expand |-> w.expand]
  BY <1>1
<1> HIDE DEF a, b, d
<1>3. TargetsOK(x) => WishOK(a)
  BY <1>2 DEF WishOK
<1>4. WishOK(b) /\ WishOK(d)
  BY <1>1, <1>2 DEF WishOK
<1> QED
  BY <1>3, <1>4 DEF a, b, d

LEMMA OneCallChanges ==
  ASSUME CallsKept, NEW c \in Calls, NEW k, k # NULL => PublicCall(k),
         call' = [call EXCEPT ![c] = k]
  PROVE  CallsKept'
<1>1. DOMAIN call' = Calls /\ \A d \in Calls : call'[d] = IF d = c THEN k ELSE call[d]
  BY DEF CallsKept
<1> QED
  BY <1>1 DEF CallsKept

LEMMA AskKeeps ==
  ASSUME NullApart, CallsKept, RelativeOfPivot, scope = "disclosure", scope' = scope,
         NEW c \in Calls, NEW w, WishOK(w), NEW t, NEW now, WishOK(now),
         AskTable(c, w, t, now)
  PROVE  WishOK(wish)' /\ CallsKept' /\ RelativeOfPivot'
<1> DEFINE collapsed == Collapse(w.targets, t, FALSE)
           chart == IF collapsed # <<>> THEN collapsed ELSE AsSeq(CollectYeonsungUnivTarget(t))
           k == [at |-> "pivot", ask |-> Question(chart, w), shown |-> collapsed, wish |-> w]
<1>1. TargetsOK(collapsed)
  BY CollapsedOK DEF WishOK
<1>2. \/ wish' = now /\ call' = [call EXCEPT ![c] = NULL]
      \/ wish' = [now EXCEPT !.targets = collapsed] /\ call' = [call EXCEPT ![c] = k]
  BY DEF AskTable
<1>3. relative' = NULL
  BY DEF AskTable
<1>4. PublicCall(k)
  <2>1. collapsed = <<>> \/ Question(chart, w).targets = ToSet(collapsed)
    BY DEF Question
  <2>2. Question(chart, w) = [targets |-> Question(chart, w).targets, metrics |-> w.metrics, years |-> w.years]
    BY DEF Question
  <2> HIDE DEF collapsed, chart
  <2> QED
    BY <1>1, <2>1, <2>2 DEF PublicCall, TableCall
<1> HIDE DEF collapsed, k
<1>5. CallsKept'
  <2>1. CASE call' = [call EXCEPT ![c] = NULL]
    <3>1. NULL # NULL => PublicCall(NULL)
      OBVIOUS
    <3> QED
      BY <2>1, <3>1, OneCallChanges
  <2>2. CASE call' = [call EXCEPT ![c] = k]
    BY <1>4, <2>2, OneCallChanges
  <2> QED
    BY <1>2, <2>1, <2>2
<1>6. WishOK(wish')
  <2>1. WishOK([now EXCEPT !.targets = collapsed])
    BY <1>1, WishChanges
  <2> QED
    BY <1>2, <2>1
<1> QED
  BY <1>3, <1>5, <1>6 DEF RelativeOfPivot

\* The comparison comes with its table.
LEMMA ComparisonArrives ==
  ASSUME NullApart, NEW k, TableCall(k), ShouldShowRelativeCompare(k.shown),
         pivot' = k.ask, relative' = NULL \/ relative' = Compared(k)
  PROVE  RelativeOfPivot'
<1>1. k.shown # <<>>
  <2>1. ToSet(k.shown) # {}
    BY DEF ShouldShowRelativeCompare
  <2> QED
    BY <2>1 DEF ToSet
<1>2. k.ask = [targets |-> ToSet(k.shown), metrics |-> k.wish.metrics, years |-> k.wish.years]
  BY <1>1 DEF TableCall
<1>3. pivot' # NULL
  BY <1>2 DEF NullApart
<1>4. {<<u>> : u \in CollectUnivLevelCodes(k.shown)} = UnitsOf(ToSet(k.shown))
  BY ComparedAreShown DEF TableCall
<1>5. ASSUME relative' = Compared(k)
      PROVE  /\ relative'.metrics = pivot'.metrics /\ relative'.years = pivot'.years
             /\ {<<u>> : u \in relative'.univs} = UnitsOf(pivot'.targets)
  BY <1>2, <1>4, <1>5 DEF Compared
<1> QED
  BY <1>3, <1>5 DEF RelativeOfPivot

LEMMA PublicSteps ==
  ASSUME NullApart, ScreenOK, CallsKept, RelativeOfPivot, scope = "disclosure", [ViewsNext]_mvars
  PROVE  scope' = scope /\ ScreenOK' /\ CallsKept' /\ RelativeOfPivot'
<1>1. ASSUME NEW n, Toggle(n) PROVE scope' = scope /\ ScreenOK' /\ CallsKept' /\ RelativeOfPivot'
  <2> DEFINE t == BuildGroup(targetTree, n)
             rest == Unticked(wish.targets, DescendantKeys(targetTree, n) \cup {t.key})
             new == IF t.key \in SelectionKeys(wish.targets) THEN rest ELSE Append(rest, t)
  <2>1. /\ n \in DOMAIN targetTree /\ t # NULL /\ wish' = [wish EXCEPT !.targets = new]
        /\ UNCHANGED <<targetTree, place, scope, pivot, relative, call, preset>>
    BY <1>1 DEF Toggle
  <2>2. n \in DOMAIN PublicTree(place) /\ targetTree = PublicTree(place)
    BY <2>1 DEF ScreenOK
  <2>3. TargetOK(t)
    BY <2>1, <2>2, NoDepts
  <2> HIDE DEF t
  <2>4. TargetsOK(wish.targets)
    BY DEF ScreenOK, WishOK
  <2>5. TargetsOK(rest)
    BY <2>4, UntickedOK
  <2> HIDE DEF rest
  <2>6. TargetsOK(new)
    BY <2>3, <2>5, OneMoreOK
  <2> HIDE DEF new
  <2>7. WishOK([wish EXCEPT !.targets = new])
    BY <2>6, WishChanges DEF ScreenOK
  <2> QED
    BY <2>1, <2>7 DEF ScreenOK, CallsKept, RelativeOfPivot
<1>2. ASSUME NEW m, ToggleMetric(m) PROVE scope' = scope /\ ScreenOK' /\ CallsKept' /\ RelativeOfPivot'
  <2>1. /\ wish' = [wish EXCEPT !.metrics = SymDiff(wish.metrics, {m})]
        /\ UNCHANGED <<targetTree, place, scope, pivot, relative, call, preset>>
    BY <1>2 DEF ToggleMetric
  <2>2. WishOK(wish')
    BY <2>1, WishChanges DEF ScreenOK
  <2> QED
    BY <2>1, <2>2 DEF ScreenOK, CallsKept, RelativeOfPivot
<1>3. ASSUME NEW v, SyncMetricCatalog(v) PROVE scope' = scope /\ ScreenOK' /\ CallsKept' /\ RelativeOfPivot'
  <2>1. /\ wish' = [wish EXCEPT !.metrics = wish.metrics \cap v]
        /\ UNCHANGED <<targetTree, place, scope, pivot, relative, call, preset>>
    BY <1>3 DEF SyncMetricCatalog
  <2>2. WishOK(wish')
    BY <2>1, WishChanges DEF ScreenOK
  <2> QED
    BY <2>1, <2>2 DEF ScreenOK, CallsKept, RelativeOfPivot
<1>4. CASE ResetSelections
  <2> DEFINE none == [wish EXCEPT !.targets = <<>>]
  <2>1. /\ wish' = [none EXCEPT !.metrics = {}] /\ relative' = NULL
        /\ UNCHANGED <<targetTree, place, scope, call, preset>>
    BY <1>4 DEF ResetSelections
  <2>2. TargetsOK(<<>>)
    BY EmptyList DEF TargetsOK
  <2>3. WishOK(none)
    BY <2>2, WishChanges DEF ScreenOK
  <2> HIDE DEF none
  <2>4. WishOK(wish')
    BY <2>1, <2>3, WishChanges
  <2> QED
    BY <2>1, <2>4 DEF ScreenOK, CallsKept, RelativeOfPivot
<1>5. CASE SavePreset
  <2>1. preset' = wish /\ UNCHANGED <<targetTree, place, scope, wish, pivot, relative, call>>
    BY <1>5 DEF SavePreset
  <2> QED
    BY <2>1 DEF ScreenOK, CallsKept, RelativeOfPivot
<1>6. ASSUME NEW c \in Calls, NEW ys, SetYears(ys, c)
      PROVE  scope' = scope /\ ScreenOK' /\ CallsKept' /\ RelativeOfPivot'
  <2> DEFINE k == [at |-> "load", years |-> ys]
  <2>1. /\ wish' = [wish EXCEPT !.years = ys] /\ call' = [call EXCEPT ![c] = k]
        /\ UNCHANGED <<targetTree, place, scope, pivot, relative, preset>>
    BY <1>6 DEF SetYears
  <2>2. PublicCall(k)
    BY DEF PublicCall
  <2> HIDE DEF k
  <2>3. CallsKept'
    BY <2>1, <2>2, OneCallChanges
  <2>4. WishOK(wish')
    BY <2>1, WishChanges DEF ScreenOK
  <2> QED
    BY <2>1, <2>3, <2>4 DEF ScreenOK, RelativeOfPivot
<1>7. ASSUME NEW o, NEW c, SetRelativeExpand(o, c) PROVE FALSE
  BY <1>7 DEF SetRelativeExpand
<1>8. ASSUME NEW c \in Calls, FetchPivot(c) \/ LoadPreset(c)
      PROVE  scope' = scope /\ ScreenOK' /\ CallsKept' /\ RelativeOfPivot'
  <2>1. PICK w : Fetch(c, w) /\ WishOK(w)
    BY <1>8 DEF FetchPivot, LoadPreset, ScreenOK
  <2>2. UNCHANGED <<targetTree, place, scope, preset>>
    BY <2>1 DEF Fetch
  <2>3. CASE Idle(w)
    <3>1. relative' = NULL /\ wish' = w /\ UNCHANGED call
      BY <2>1, <2>3 DEF Fetch
    <3> QED
      BY <2>1, <2>2, <3>1 DEF ScreenOK, CallsKept, RelativeOfPivot
  <2>4. CASE ~Idle(w) /\ (scope = "internal" \/ DOMAIN targetTree = {})
    <3> DEFINE k == [at |-> "tree", wish |-> w]
    <3>1. call' = [call EXCEPT ![c] = k] /\ wish' = w /\ UNCHANGED <<pivot, relative>>
      BY <2>1, <2>4 DEF Fetch
    <3>2. PublicCall(k)
      BY <2>1 DEF PublicCall
    <3> HIDE DEF k
    <3>3. CallsKept'
      BY <3>1, <3>2, OneCallChanges
    <3> QED
      BY <2>1, <2>2, <3>1, <3>3 DEF ScreenOK, RelativeOfPivot
  <2>5. CASE ~Idle(w) /\ ~(scope = "internal" \/ DOMAIN targetTree = {})
    <3>1. AskTable(c, w, targetTree, w)
      BY <2>1, <2>5 DEF Fetch
    <3> QED
      BY <2>1, <2>2, <3>1, AskKeeps DEF ScreenOK
  <2> QED
    BY <2>3, <2>4, <2>5
<1>9. ASSUME NEW c \in Calls, NEW ok \in BOOLEAN, TreeLoaded(c, ok)
      PROVE  scope' = scope /\ ScreenOK' /\ CallsKept' /\ RelativeOfPivot'
  <2>1. /\ targetTree' = IF ok THEN Served(scope, call[c].years) ELSE <<>>
        /\ call' = [call EXCEPT ![c] = NULL]
        /\ UNCHANGED <<place, scope, wish, pivot, relative, preset>>
    BY <1>9 DEF TreeLoaded
  <2>2. targetTree' \in {PublicTree(place), <<>>}
    BY <2>1 DEF Served
  <2>3. CallsKept'
    BY <2>1, OneCallChanges
  <2> QED
    BY <2>1, <2>2, <2>3 DEF ScreenOK, RelativeOfPivot
<1>10. ASSUME NEW c \in Calls, NEW ok \in BOOLEAN, TreeForQuery(c, ok)
       PROVE  scope' = scope /\ ScreenOK' /\ CallsKept' /\ RelativeOfPivot'
  <2> DEFINE w == call[c].wish
             data == IF ok THEN Served(scope, w.years) ELSE <<>>
  <2>1. /\ call[c] # NULL /\ call[c].at = "tree"
        /\ targetTree' = IF ok THEN data ELSE targetTree
        /\ AskTable(c, w, data, wish)
        /\ UNCHANGED <<place, scope, preset>>
    BY <1>10 DEF TreeForQuery
  <2>2. targetTree' \in {PublicTree(place), <<>>}
    BY <2>1 DEF Served, ScreenOK
  <2>3. WishOK(w)
    BY <2>1 DEF CallsKept, PublicCall
  <2> HIDE DEF w, data
  <2>4. WishOK(wish)' /\ CallsKept' /\ RelativeOfPivot'
    BY <2>1, <2>3, AskKeeps DEF ScreenOK
  <2> QED
    BY <2>1, <2>2, <2>4 DEF ScreenOK
<1>11. ASSUME NEW c \in Calls, NEW ok, RelativeTree(c, ok) \/ RelativeTable(c, ok) PROVE FALSE
  BY <1>11 DEF RelativeTree, RelativeTable, CallsKept, PublicCall
<1>12. ASSUME NEW c \in Calls, NEW ok \in BOOLEAN, RelativeAnswered(c, ok)
       PROVE  scope' = scope /\ ScreenOK' /\ CallsKept' /\ RelativeOfPivot'
  <2> DEFINE k == call[c]
  <2>1. /\ k # NULL /\ k.at = "relative"
        /\ pivot' = k.ask /\ relative' = (IF ok THEN Compared(k) ELSE NULL)
        /\ call' = [call EXCEPT ![c] = NULL]
        /\ UNCHANGED <<targetTree, place, scope, wish, preset>>
    BY <1>12 DEF RelativeAnswered, Done
  <2>2. TableCall(k) /\ ShouldShowRelativeCompare(k.shown)
    BY <2>1 DEF CallsKept, PublicCall
  <2>3. CallsKept'
    BY <2>1, OneCallChanges
  <2> HIDE DEF k
  <2>4. RelativeOfPivot'
    BY <2>1, <2>2, ComparisonArrives
  <2> QED
    BY <2>1, <2>3, <2>4 DEF ScreenOK
<1>13. ASSUME NEW c \in Calls, TableAnswered(c)
       PROVE  scope' = scope /\ ScreenOK' /\ CallsKept' /\ RelativeOfPivot'
  <2> DEFINE k == call[c]
             next == [k EXCEPT !.at = "relative"]
  <2>1. /\ k # NULL /\ k.at = "pivot"
        /\ UNCHANGED <<targetTree, place, scope, wish, preset>>
    BY <1>13 DEF TableAnswered
  <2>2. TableCall(k)
    BY <2>1 DEF CallsKept, PublicCall
  <2>3. CASE ShouldShowRelativeCompare(k.shown)
    <3>1. call' = [call EXCEPT ![c] = next] /\ UNCHANGED <<pivot, relative>>
      BY <1>13, <2>3 DEF TableAnswered
    <3>2. k = [at |-> k.at, ask |-> k.ask, shown |-> k.shown, wish |-> k.wish]
      BY <2>2 DEF TableCall
    <3>3. next = [at |-> "relative", ask |-> k.ask, shown |-> k.shown, wish |-> k.wish]
      BY <3>2
    <3> HIDE DEF k, next
    <3>4. /\ next.at = "relative" /\ next.ask = k.ask /\ next.shown = k.shown /\ next.wish = k.wish
          /\ next = [at |-> next.at, ask |-> next.ask, shown |-> next.shown, wish |-> next.wish]
      BY <3>3
    <3>5. TableCall(next)
      BY <2>2, <3>4 DEF TableCall
    <3>6. PublicCall(next)
      BY <2>3, <3>4, <3>5 DEF PublicCall
    <3>7. CallsKept'
      BY <3>1, <3>6, OneCallChanges
    <3> QED
      BY <2>1, <3>1, <3>7 DEF ScreenOK, RelativeOfPivot
  <2>4. CASE ~ShouldShowRelativeCompare(k.shown)
    <3>1. relative' = NULL /\ call' = [call EXCEPT ![c] = NULL]
      BY <1>13, <2>4 DEF TableAnswered, Show, Done
    <3>2. CallsKept'
      BY <3>1, OneCallChanges
    <3> QED
      BY <2>1, <3>1, <3>2 DEF ScreenOK, RelativeOfPivot
  <2> QED
    BY <2>3, <2>4
<1>14. ASSUME NEW c \in Calls, TableFails(c)
       PROVE  scope' = scope /\ ScreenOK' /\ CallsKept' /\ RelativeOfPivot'
  <2>1. /\ call' = [call EXCEPT ![c] = NULL]
        /\ UNCHANGED <<targetTree, place, scope, wish, pivot, relative, preset>>
    BY <1>14 DEF TableFails, Done
  <2>2. CallsKept'
    BY <2>1, OneCallChanges
  <2> QED
    BY <2>1, <2>2 DEF ScreenOK, RelativeOfPivot
<1>15. CASE UNCHANGED svars
  BY <1>15 DEF svars, ScreenOK, CallsKept, RelativeOfPivot
<1>16. ASSUME StoreNext
       PROVE  scope' = scope /\ ScreenOK' /\ CallsKept' /\ RelativeOfPivot'
  BY <1>1, <1>2, <1>3, <1>4, <1>5, <1>6, <1>7, <1>8, <1>9, <1>10, <1>11, <1>12, <1>13, <1>14, <1>16
     DEF StoreNext, Answer
<1>17. (\E n \in DOMAIN targetTree : Toggle(n)) \/ StoreNext \/ UNCHANGED svars
  BY DEF ViewsNext, mvars
<1> QED
  BY <1>1, <1>15, <1>16, <1>17

LEMMA ScopeStays == [ViewsNext]_mvars => scope' = scope
<1> SUFFICES ASSUME [ViewsNext]_mvars PROVE scope' = scope
  OBVIOUS
<1>1. ASSUME NEW c, Fetch(c, wish) \/ Fetch(c, preset) PROVE scope' = scope
  BY <1>1 DEF Fetch
<1>2. ASSUME NEW c, Answer(c) PROVE scope' = scope
  BY <1>2 DEF Answer, TreeLoaded, TreeForQuery, RelativeTree, RelativeTable, RelativeAnswered,
              TableAnswered, TableFails
<1>3. (\E n \in DOMAIN targetTree : Toggle(n)) \/ StoreNext \/ UNCHANGED svars
  BY DEF ViewsNext, mvars
<1>4. ASSUME StoreNext PROVE scope' = scope
  BY <1>1, <1>2, <1>4 DEF StoreNext, Toggle, ToggleMetric, SyncMetricCatalog, ResetSelections, SavePreset,
              SetYears, SetRelativeExpand, FetchPivot, LoadPreset
<1> QED
  BY <1>3, <1>4 DEF Toggle, svars

\* On the public screen the comparison shown is always that of the table beside it.
THEOREM ComparisonIsOfTable == NullApart => (ViewsSpec => []RelativeOfPivot)
<1> SUFFICES ASSUME NullApart PROVE ViewsSpec => []RelativeOfPivot
  OBVIOUS
<1>1. ViewsInit => PublicInv
  <2> SUFFICES ASSUME ViewsInit, scope = "disclosure" PROVE PublicInv
    BY DEF PublicInv
  <2>1. StoreInit(MetricIds)
    BY DEF ViewsInit
  <2>2. /\ targetTree = PublicTree(place) /\ relative = NULL /\ preset = NULL
        /\ wish = [targets |-> <<>>, metrics |-> MetricIds, years |-> SchoolYears, expand |-> {}]
        /\ call = [c \in Calls |-> NULL]
    BY <2>1 DEF StoreInit, Served
  <2>3. TargetsOK(<<>>)
    BY EmptyList DEF TargetsOK
  <2>4. WishOK(wish)
    BY <2>2, <2>3 DEF WishOK
  <2> QED
    BY <2>2, <2>4 DEF PublicInv, ScreenOK, CallsKept, RelativeOfPivot
<1>2. PublicInv /\ [ViewsNext]_mvars => PublicInv'
  BY PublicSteps, ScopeStays DEF PublicInv
<1>3. PublicInv => RelativeOfPivot
  BY DEF PublicInv, RelativeOfPivot
<1> QED
  BY <1>1, <1>2, <1>3, PTL DEF ViewsSpec

-----------------------------------------------------------------------------
(* Lists that are cut, joined and filtered.                                *)

LEMMA SameList ==
  ASSUME NEW s, IsList(s), NEW t, IsList(t), Len(s) = Len(t), \A i \in 1..Len(s) : s[i] = t[i]
  PROVE  s = t
BY DEF IsList

LEMMA ListDomain ==
  ASSUME NEW s, IsList(s)
  PROVE  Len(s) \in Nat /\ DOMAIN s = 1..Len(s) /\ ToSet(s) = {s[i] : i \in 1..Len(s)}
BY DEF IsList, ToSet

LEMMA CutList ==
  ASSUME NEW s, IsList(s), NEW n \in 0..Len(s)
  PROVE  /\ IsList(SubSeq(s, 1, n)) /\ Len(SubSeq(s, 1, n)) = n
         /\ \A i \in 1..n : SubSeq(s, 1, n)[i] = s[i]
         /\ IsList(SubSeq(s, n + 1, Len(s))) /\ Len(SubSeq(s, n + 1, Len(s))) = Len(s) - n
         /\ \A i \in 1..(Len(s) - n) : SubSeq(s, n + 1, Len(s))[i] = s[n + i]
<1> DEFINE S == {s[i] : i \in 1..Len(s)}
           l == Len(s)
<1>1. l \in Nat /\ n \in Nat /\ n <= l
  BY DEF IsList
<1>2. \A i \in 1..n : s[i] \in S
  BY <1>1
<1>3. \A i \in (n + 1)..l : s[i] \in S
  BY <1>1
<1> HIDE DEF S, l
<1>4. /\ SubSeq(s, 1, n) \in Seq(S)
      /\ Len(SubSeq(s, 1, n)) = IF 1 <= n THEN n - 1 + 1 ELSE 0
      /\ \A i \in 1..(n - 1 + 1) : SubSeq(s, 1, n)[i] = s[1 + i - 1]
  BY <1>1, <1>2, SubSeqProperties
<1>5. /\ SubSeq(s, n + 1, l) \in Seq(S)
      /\ Len(SubSeq(s, n + 1, l)) = IF n + 1 <= l THEN l - (n + 1) + 1 ELSE 0
      /\ \A i \in 1..(l - (n + 1) + 1) : SubSeq(s, n + 1, l)[i] = s[(n + 1) + i - 1]
  <2>1. n + 1 \in Int /\ l \in Int
    BY <1>1
  <2> QED
    BY <1>3, <2>1, SubSeqProperties
<1>6. Len(SubSeq(s, 1, n)) = n /\ \A i \in 1..n : SubSeq(s, 1, n)[i] = s[i]
  BY <1>1, <1>4
<1>7. Len(SubSeq(s, n + 1, l)) = l - n
  BY <1>1, <1>5
<1>8. ASSUME NEW i \in 1..(l - n) PROVE SubSeq(s, n + 1, l)[i] = s[n + i]
  <2>1. i \in 1..(l - (n + 1) + 1) /\ (n + 1) + i - 1 = n + i
    BY <1>1
  <2> QED
    BY <1>5, <2>1
<1>9. IsList(SubSeq(s, 1, n)) /\ IsList(SubSeq(s, n + 1, l))
  BY <1>4, <1>5, SeqIsList
<1> QED
  BY <1>6, <1>7, <1>8, <1>9 DEF l

LEMMA JoinedAgain ==
  ASSUME NEW s, IsList(s), NEW n \in 0..Len(s)
  PROVE  SubSeq(s, 1, n) \o SubSeq(s, n + 1, Len(s)) = s
<1> DEFINE a == SubSeq(s, 1, n)
           b == SubSeq(s, n + 1, Len(s))
           l == Len(s)
<1>1. l \in Nat /\ n \in Nat /\ n <= l
  BY DEF IsList
<1>2. /\ IsList(a) /\ Len(a) = n /\ \A i \in 1..n : a[i] = s[i]
      /\ IsList(b) /\ Len(b) = l - n /\ \A i \in 1..(l - n) : b[i] = s[n + i]
  BY CutList
<1>0. Len(s) = l
  OBVIOUS
<1> HIDE DEF a, b, l
<1>3. /\ IsList(a \o b) /\ Len(a \o b) = l
      /\ \A i \in 1..n : (a \o b)[i] = a[i]
      /\ \A i \in 1..(l - n) : (a \o b)[n + i] = b[i]
  <2>1. n + (l - n) = l
    BY <1>1
  <2>2. /\ IsList(a \o b) /\ Len(a \o b) = Len(a) + Len(b)
        /\ \A i \in 1..Len(a) : (a \o b)[i] = a[i]
        /\ \A i \in 1..Len(b) : (a \o b)[Len(a) + i] = b[i]
    <3>1. IsList(a) /\ IsList(b)
      BY <1>2
    <3> QED
      BY <3>1, ConcatList
  <2> QED
    BY <1>2, <2>1, <2>2
<1>4. ASSUME NEW i \in 1..l PROVE (a \o b)[i] = s[i]
  <2>1. CASE i <= n
    BY <1>1, <1>2, <1>3, <2>1
  <2>2. CASE n < i
    <3>1. i - n \in 1..(l - n) /\ n + (i - n) = i
      BY <1>1, <2>2
    <3>2. (a \o b)[n + (i - n)] = b[i - n] /\ b[i - n] = s[n + (i - n)]
      BY <1>2, <1>3, <3>1
    <3> QED
      BY <3>1, <3>2
  <2>3. i <= n \/ n < i
    BY <1>1
  <2> QED
    BY <2>1, <2>2, <2>3
<1>6. a \o b = s
  BY <1>0, <1>3, <1>4, SameList
<1> QED
  BY <1>0, <1>6 DEF a, b

\* Two lists joined are cut where they were joined.
LEMMA CutAtJoint ==
  ASSUME NEW s, IsList(s), NEW t, IsList(t)
  PROVE  SubSeq(s \o t, 1, Len(s)) = s /\ SubSeq(s \o t, Len(s) + 1, Len(s \o t)) = t
<1> DEFINE j == s \o t
           n == Len(s)
<1>1. /\ IsList(j) /\ Len(j) = n + Len(t)
      /\ \A i \in 1..n : j[i] = s[i]
      /\ \A i \in 1..Len(t) : j[n + i] = t[i]
  BY ConcatList
<1>2. n \in Nat /\ Len(t) \in Nat
  BY DEF IsList
<1> HIDE DEF j, n
<1>3. n \in 0..Len(j) /\ Len(j) - n = Len(t)
  BY <1>1, <1>2
<1>4. /\ IsList(SubSeq(j, 1, n)) /\ Len(SubSeq(j, 1, n)) = n
      /\ \A i \in 1..n : SubSeq(j, 1, n)[i] = j[i]
      /\ IsList(SubSeq(j, n + 1, Len(j))) /\ Len(SubSeq(j, n + 1, Len(j))) = Len(t)
      /\ \A i \in 1..Len(t) : SubSeq(j, n + 1, Len(j))[i] = j[n + i]
  BY <1>1, <1>3, CutList
<1>5. SubSeq(j, 1, n) = s
  BY <1>1, <1>4, SameList DEF n
<1>6. SubSeq(j, n + 1, Len(j)) = t
  BY <1>1, <1>4, SameList
<1> QED
  BY <1>5, <1>6 DEF j, n

-----------------------------------------------------------------------------
(* The places a filter keeps, counted from first to last.                  *)

Counts(f, n, P) ==
  /\ n \in Nat /\ P \in SUBSET Nat /\ f \in [1..n -> P]
  /\ \A i \in P : \E k \in 1..n : f[k] = i
  /\ \A k, l \in 1..n : k < l => f[k] < f[l]

LEMMA CountedRanks ==
  ASSUME NEW f, NEW n, NEW P, Counts(f, n, P)
  PROVE  /\ IsFiniteSet(P) /\ Cardinality(P) = n
         /\ \A k \in 1..n : Cardinality({j \in P : j < f[k]}) = k - 1
<1>1. ASSUME NEW m \in 0..n
      PROVE  LET Q == {f[k] : k \in 1..m} IN IsFiniteSet(Q) /\ Cardinality(Q) = m
  <2> DEFINE Q == {f[k] : k \in 1..m}
             g == [k \in 1..m |-> f[k]]
  <2>1. m \in Nat /\ 1..m \subseteq 1..n
    BY DEF Counts
  <2>2. IsFiniteSet(1..m) /\ Cardinality(1..m) = m
    <3>1. 1 \in Int /\ m \in Int
      BY <2>1
    <3> QED
      BY <2>1, <3>1, FS_Interval
  <2>3. g \in [1..m -> Q]
    OBVIOUS
  <2>4. \A k, l \in 1..m : g[k] = g[l] => k = l
    <3>1. ASSUME NEW k \in 1..m, NEW l \in 1..m, k < l PROVE g[k] # g[l]
      <4>1. f[k] < f[l] /\ f[k] \in Nat /\ f[l] \in Nat
        BY <2>1, <3>1 DEF Counts
      <4> QED
        BY <4>1
    <3>2. \A k, l \in 1..m : k < l \/ l < k \/ k = l
      BY <2>1
    <3> HIDE DEF g
    <3> QED
      BY <3>1, <3>2
  <2>5. \A q \in Q : \E k \in 1..m : g[k] = q
    OBVIOUS
  <2> HIDE DEF g, Q
  <2>6. g \in Bijection(1..m, Q)
    BY <2>3, <2>4, <2>5 DEF Bijection, Injection, Surjection, IsInjective
  <2>7. ExistsBijection(1..m, Q)
    BY <2>6 DEF ExistsBijection
  <2> QED
    BY <2>2, <2>7, FS_Bijection DEF Q
<1>2. P = {f[k] : k \in 1..n}
  BY DEF Counts
<1>3. n \in 0..n
  BY DEF Counts
<1>4. ASSUME NEW k \in 1..n
      PROVE  Cardinality({j \in P : j < f[k]}) = k - 1
  <2>1. k - 1 \in 0..n /\ 1..(k - 1) \subseteq 1..n /\ n \in Nat
    BY DEF Counts
  <2>2. ASSUME NEW l \in 1..n PROVE f[l] < f[k] <=> l \in 1..(k - 1)
    <3>1. f[l] \in Nat /\ f[k] \in Nat
      BY DEF Counts
    <3>2. l < k => f[l] < f[k]
      BY DEF Counts
    <3>3. k < l => f[k] < f[l]
      BY DEF Counts
    <3> QED
      BY <2>1, <3>1, <3>2, <3>3
  <2>3. {j \in P : j < f[k]} = {f[l] : l \in 1..(k - 1)}
    BY <1>2, <2>1, <2>2
  <2> QED
    BY <1>1, <2>1, <2>3
<1> QED
  BY <1>1, <1>2, <1>3, <1>4

\* What a filter returns, told by the places it keeps.
LEMMA SublistIs ==
  ASSUME NEW s, NEW f, NEW n, NEW P, Counts(f, n, P)
  PROVE  /\ Sublist(s, P) = [k \in 1..n |-> s[f[k]]]
         /\ IsList(Sublist(s, P)) /\ Len(Sublist(s, P)) = n
         /\ \A k \in 1..n : Sublist(s, P)[k] = s[f[k]]
<1> DEFINE at(k) == CHOOSE i \in P : Cardinality({j \in P : j < i}) = k - 1
           l == Sublist(s, P)
<1>1. Cardinality(P) = n /\ \A k \in 1..n : Cardinality({j \in P : j < f[k]}) = k - 1
  BY CountedRanks
<1>2. l = [k \in 1..n |-> s[at(k)]]
  BY <1>1 DEF Sublist
<1>3. ASSUME NEW k \in 1..n PROVE at(k) = f[k]
  <2>1. f[k] \in P /\ Cardinality({j \in P : j < f[k]}) = k - 1
    BY <1>1 DEF Counts
  <2>2. ASSUME NEW i \in P, Cardinality({j \in P : j < i}) = k - 1
        PROVE  i = f[k]
    <3>1. PICK h \in 1..n : f[h] = i
      BY DEF Counts
    <3>2. h - 1 = k - 1
      BY <1>1, <2>2, <3>1
    <3> QED
      BY <3>1, <3>2 DEF Counts
  <2> QED
    BY <2>1, <2>2
<1> HIDE DEF at, l
<1>4. l = [k \in 1..n |-> s[f[k]]]
  BY <1>2, <1>3
<1>5. n \in Nat /\ l = [k \in 1..n |-> l[k]]
  BY <1>4 DEF Counts
<1>6. IsList(l) /\ Len(l) = n
  BY <1>5, FunctionIsList
<1> QED
  BY <1>4, <1>6 DEF l

LEMMA PlacesCount ==
  ASSUME NEW N \in Nat, NEW P \in SUBSET (1..N)
  PROVE  \E f : Counts(f, Cardinality(P), P)
<1> DEFINE n == Cardinality(P)
           f == [k \in 1..n |-> CHOOSE i \in P : Rank(P, i) = k - 1]
<1>0. Ranked(P)
  BY PlacesAreRanked
<1>1. /\ n \in Nat /\ \A i \in P : Rank(P, i) \in 0..(n - 1)
      /\ \A i, j \in P : Rank(P, i) = Rank(P, j) => i = j
      /\ \A k \in 0..(n - 1) : \E i \in P : Rank(P, i) = k
  BY <1>0, RanksRun
<1> HIDE DEF n
<1>2. ASSUME NEW k \in 1..n PROVE f[k] \in P /\ Rank(P, f[k]) = k - 1
  <2>1. k - 1 \in 0..(n - 1)
    BY <1>1
  <2>2. \E i \in P : Rank(P, i) = k - 1
    BY <1>1, <2>1
  <2> QED
    BY <2>2
<1>3. ASSUME NEW i \in P PROVE \E k \in 1..n : f[k] = i
  <2>1. Rank(P, i) + 1 \in 1..n /\ (Rank(P, i) + 1) - 1 = Rank(P, i)
    BY <1>1
  <2>2. f[Rank(P, i) + 1] \in P /\ Rank(P, f[Rank(P, i) + 1]) = Rank(P, i)
    BY <1>2, <2>1
  <2>3. f[Rank(P, i) + 1] = i
    BY <1>1, <2>2
  <2> QED
    BY <2>1, <2>3
<1>4. f \in [1..n -> P]
  BY <1>2
<1> HIDE DEF f
<1>5. ASSUME NEW k \in 1..n, NEW l \in 1..n, k < l, f[l] <= f[k] PROVE FALSE
  <2>1. f[k] \in P /\ f[l] \in P /\ P \in SUBSET Nat
    BY <1>2
  <2>2. f[k] \in Nat /\ f[l] \in Nat
    BY <2>1
  <2>3. {j \in P : j < f[l]} \in SUBSET {j \in P : j < f[k]}
    <3>1. \A j \in P : j \in Nat
      BY <2>1
    <3>2. \A j \in P : j < f[l] => j < f[k]
      BY <1>5, <2>2, <3>1
    <3> QED
      BY <3>2
  <2>4. IsFiniteSet({j \in P : j < f[k]})
    <3>1. {j \in P : j < f[k]} \in SUBSET P
      OBVIOUS
    <3> QED
      BY <1>0, <3>1, FS_Subset DEF Ranked
  <2>5. Rank(P, f[l]) <= Rank(P, f[k])
    BY <2>3, <2>4, FS_Subset DEF Rank
  <2>6. l - 1 <= k - 1
    BY <1>2, <2>5
  <2> QED
    BY <1>1, <1>5, <2>6
<1>6. P \in SUBSET Nat /\ \A k \in 1..n : f[k] \in Nat
  <2>1. P \in SUBSET Nat
    OBVIOUS
  <2> QED
    BY <1>4, <2>1
<1>7. \A k, l \in 1..n : k < l => f[k] < f[l]
  BY <1>5, <1>6
<1>8. Counts(f, n, P)
  BY <1>1, <1>3, <1>4, <1>6, <1>7 DEF Counts
<1> QED
  BY <1>8 DEF n

\* The places of a list that hold nothing of S.
KeptAt(s, S) == {i \in 1..Len(s) : s[i] \notin S}

\* What is kept of a list, and its places.
LEMMA KeptPlaces ==
  ASSUME NEW s, IsList(s), NEW S
  PROVE  \E f : /\ Counts(f, Len(Without(s, S)), KeptAt(s, S))
                /\ Len(Without(s, S)) \in Nat
                /\ Len(Without(s, S)) = Cardinality(KeptAt(s, S))
                /\ IsList(Without(s, S))
                /\ \A k \in 1..Len(Without(s, S)) : Without(s, S)[k] = s[f[k]]
<1> DEFINE P == KeptAt(s, S)
<1>1. Len(s) \in Nat /\ P \in SUBSET (1..Len(s))
  BY DEF IsList, KeptAt
<1>3. Without(s, S) = Sublist(s, P)
  BY DEF Without, KeptAt
<1> HIDE DEF P
<1>2. PICK f : Counts(f, Cardinality(P), P)
  BY <1>1, PlacesCount
<1>4. /\ IsList(Without(s, S)) /\ Len(Without(s, S)) = Cardinality(P)
      /\ \A k \in 1..Cardinality(P) : Without(s, S)[k] = s[f[k]]
  BY <1>2, <1>3, SublistIs
<1>5. Cardinality(P) \in Nat
  BY <1>2 DEF Counts
<1> QED
  BY <1>2, <1>4, <1>5 DEF P

LEMMA WithoutIs ==
  ASSUME NEW s, IsList(s), NEW S, NEW n, NEW f, Counts(f, n, KeptAt(s, S))
  PROVE  /\ IsList(Without(s, S)) /\ Len(Without(s, S)) = n
         /\ \A k \in 1..n : Without(s, S)[k] = s[f[k]]
<1> DEFINE P == KeptAt(s, S)
<1>1. Without(s, S) = Sublist(s, P)
  BY DEF Without, KeptAt
<1>2. Counts(f, n, P)
  OBVIOUS
<1> HIDE DEF P
<1> QED
  BY <1>1, <1>2, SublistIs

LEMMA NothingTaken ==
  ASSUME NEW s, IsList(s), NEW S, \A i \in 1..Len(s) : s[i] \notin S
  PROVE  Without(s, S) = s
<1> DEFINE n == Len(s)
           f == [k \in 1..n |-> k]
<1>1. n \in Nat
  BY DEF IsList
<1>2. KeptAt(s, S) = 1..n
  BY DEF KeptAt
<1>3. Counts(f, n, 1..n)
  <2> HIDE DEF n
  <2> QED
    BY <1>1 DEF Counts
<1>4. /\ IsList(Without(s, S)) /\ Len(Without(s, S)) = n
      /\ \A k \in 1..n : Without(s, S)[k] = s[f[k]]
  <2>1. Counts(f, n, KeptAt(s, S))
    BY <1>2, <1>3
  <2> HIDE DEF f, n
  <2> QED
    BY <2>1, WithoutIs
<1>5. \A k \in 1..n : Without(s, S)[k] = s[k]
  BY <1>4
<1> HIDE DEF f
<1> QED
  BY <1>4, <1>5, SameList

\* To take out one and then all of them is to take out all.
LEMMA TakenTwice ==
  ASSUME NEW s, IsList(s), NEW S, NEW R, R \subseteq S
  PROVE  Without(Without(s, R), S) = Without(s, S)
<1> DEFINE P == KeptAt(s, R)
           r == Without(s, R)
           n == Len(r)
           Q == KeptAt(r, S)
           t == Without(r, S)
           m == Len(t)
           All2 == KeptAt(s, S)
<1>1. PICK e : /\ Counts(e, n, P) /\ n \in Nat
               /\ IsList(r) /\ \A k \in 1..n : r[k] = s[e[k]]
  BY KeptPlaces
<1>2. PICK g : /\ Counts(g, m, Q) /\ m \in Nat
               /\ IsList(t) /\ \A k \in 1..m : t[k] = r[g[k]]
  <2> HIDE DEF r
  <2> QED
    BY <1>1, KeptPlaces
<1> DEFINE f == [k \in 1..m |-> e[g[k]]]
<1>3. \A k \in 1..m : g[k] \in 1..n /\ r[g[k]] \notin S
  BY <1>2 DEF Counts, KeptAt
<1>4. All2 \in SUBSET P /\ P \in SUBSET Nat /\ \A i \in All2 : i \in 1..Len(s) /\ s[i] \notin S
  BY DEF KeptAt
<1>4a. \A i \in P : s[i] \notin S => i \in All2
  BY DEF KeptAt
<1>4b. \A k \in 1..n : r[k] \notin S => k \in Q
  BY DEF KeptAt
<1> HIDE DEF P, r, n, Q, t, m, All2
<1>5. \A k \in 1..m : f[k] \in All2 /\ f[k] = e[g[k]] /\ t[k] = s[f[k]]
  <2>1. ASSUME NEW k \in 1..m PROVE e[g[k]] \in P /\ r[g[k]] = s[e[g[k]]]
    BY <1>1, <1>3 DEF Counts
  <2> QED
    BY <1>2, <1>3, <1>4a, <2>1
<1>6. ASSUME NEW i \in All2 PROVE \E k \in 1..m : f[k] = i
  <2>1. PICK h \in 1..n : e[h] = i
    BY <1>1, <1>4 DEF Counts
  <2>2. h \in Q
    BY <1>1, <1>4, <1>4b, <2>1
  <2>3. PICK k \in 1..m : g[k] = h
    BY <1>2, <2>2 DEF Counts
  <2> QED
    BY <2>1, <2>3
<1>7. ASSUME NEW k \in 1..m, NEW l \in 1..m, k < l PROVE f[k] < f[l]
  <2>1. g[k] < g[l]
    BY <1>2, <1>7 DEF Counts
  <2>2. e[g[k]] < e[g[l]]
    BY <1>1, <1>3, <2>1 DEF Counts
  <2> QED
    BY <1>5, <2>2
<1>8. f \in [1..m -> All2] /\ All2 \in SUBSET Nat
  BY <1>4, <1>5
<1> HIDE DEF f
<1>9. Counts(f, m, All2)
  BY <1>2, <1>6, <1>7, <1>8 DEF Counts
<1>10. /\ IsList(Without(s, S)) /\ Len(Without(s, S)) = m
       /\ \A k \in 1..m : Without(s, S)[k] = s[f[k]]
  BY <1>9, WithoutIs DEF All2
<1>11. t = Without(s, S)
  <2>1. Len(t) = m
    BY DEF m
  <2> QED
    BY <1>2, <1>5, <1>10, <2>1, SameList
<1> QED
  BY <1>11 DEF t, r

\* A list is cut and then filtered as it is filtered and then cut.
LEMMA CutAndKept ==
  ASSUME NEW s, IsList(s), NEW n \in 0..Len(s), NEW S
  PROVE  LET a == Without(SubSeq(s, 1, n), S)
             b == Without(SubSeq(s, n + 1, Len(s)), S)
         IN /\ IsList(a) /\ IsList(b) /\ Without(s, S) = a \o b
            /\ Len(a) = Cardinality({i \in 1..n : s[i] \notin S})
<1> DEFINE l == Len(s)
           c == SubSeq(s, 1, n)
           d == SubSeq(s, n + 1, l)
           a == Without(c, S)
           b == Without(d, S)
           P == KeptAt(s, S)
           A == KeptAt(c, S)
           B == KeptAt(d, S)
           x == Len(a)
           y == Len(b)
<1>1. l \in Nat /\ n \in Nat /\ n <= l
  BY DEF IsList
<1>2. /\ IsList(c) /\ Len(c) = n /\ \A i \in 1..n : c[i] = s[i]
      /\ IsList(d) /\ Len(d) = l - n /\ \A i \in 1..(l - n) : d[i] = s[n + i]
  BY CutList
<1>3. PICK f : /\ Counts(f, x, A) /\ x \in Nat /\ x = Cardinality(A)
               /\ IsList(a) /\ \A k \in 1..x : a[k] = c[f[k]]
  <2> HIDE DEF c
  <2> QED
    BY <1>2, KeptPlaces
<1>4. PICK g : /\ Counts(g, y, B) /\ y \in Nat
               /\ IsList(b) /\ \A k \in 1..y : b[k] = d[g[k]]
  <2> HIDE DEF d
  <2> QED
    BY <1>2, KeptPlaces
<1> DEFINE h == [k \in 1..(x + y) |-> IF k <= x THEN f[k] ELSE n + g[k - x]]
<1>5. \A i \in 1..l : i \in P <=> s[i] \notin S
  BY DEF KeptAt
<1>5p. P \in SUBSET (1..l)
  BY DEF KeptAt
<1>5a. \A i \in A : i \in 1..n /\ c[i] \notin S
  BY <1>2 DEF KeptAt
<1>5b. \A i \in B : i \in 1..(l - n) /\ d[i] \notin S
  BY <1>2 DEF KeptAt
<1>5c. \A i \in 1..n : c[i] \notin S => i \in A
  BY <1>2 DEF KeptAt
<1>5d. \A i \in 1..(l - n) : d[i] \notin S => i \in B
  BY <1>2 DEF KeptAt
<1>5e. A = {i \in 1..n : s[i] \notin S}
  BY <1>2 DEF KeptAt
<1>5f. Len(a) = x /\ Len(b) = y /\ Len(s) = l
  OBVIOUS
<1> HIDE DEF l, c, d, a, b, P, A, B, x, y
<1>6. ASSUME NEW k \in 1..x
      PROVE  k \in 1..(x + y) /\ h[k] = f[k] /\ f[k] \in 1..n /\ h[k] \in P /\ (a \o b)[k] = s[h[k]]
  <2>1. k \in 1..(x + y) /\ k <= x
    BY <1>3, <1>4
  <2>2. f[k] \in A
    BY <1>3 DEF Counts
  <2>3. f[k] \in 1..n /\ c[f[k]] \notin S /\ c[f[k]] = s[f[k]] /\ f[k] \in 1..l
    BY <1>1, <1>2, <1>5a, <2>2
  <2>4. (a \o b)[k] = a[k]
    BY <1>3, <1>4, <1>5f, ConcatList
  <2> QED
    BY <1>3, <1>5, <2>1, <2>3, <2>4
<1>7. ASSUME NEW k \in 1..y
      PROVE  /\ x + k \in 1..(x + y) /\ h[x + k] = n + g[k] /\ g[k] \in 1..(l - n)
             /\ h[x + k] \in P /\ (a \o b)[x + k] = s[h[x + k]]
  <2>1. x + k \in 1..(x + y) /\ ~(x + k <= x) /\ (x + k) - x = k
    BY <1>3, <1>4
  <2>2. g[k] \in B
    BY <1>4 DEF Counts
  <2>3. g[k] \in 1..(l - n) /\ d[g[k]] \notin S /\ d[g[k]] = s[n + g[k]]
    BY <1>2, <1>5b, <2>2
  <2>4. n + g[k] \in 1..l
    BY <1>1, <2>3
  <2>5. (a \o b)[x + k] = b[k]
    BY <1>3, <1>4, <1>5f, ConcatList
  <2>6. h[x + k] = n + g[k]
    BY <2>1
  <2> QED
    BY <1>4, <1>5, <2>1, <2>3, <2>4, <2>5, <2>6
<1> HIDE DEF h
<1>8. ASSUME NEW k \in 1..(x + y)
      PROVE  k \in 1..x \/ (k - x \in 1..y /\ k = x + (k - x))
  BY <1>3, <1>4
<1>9. \A k \in 1..(x + y) : h[k] \in P /\ (a \o b)[k] = s[h[k]]
  BY <1>6, <1>7, <1>8
<1>10. ASSUME NEW i \in P PROVE \E k \in 1..(x + y) : h[k] = i
  <2>0. i \in 1..l /\ s[i] \notin S
    BY <1>5, <1>5p
  <2>1. CASE i <= n
    <3>1. i \in 1..n /\ c[i] = s[i]
      BY <1>1, <1>2, <2>0, <2>1
    <3>2. i \in A
      BY <1>5c, <2>0, <3>1
    <3>3. PICK k \in 1..x : f[k] = i
      BY <1>3, <3>2 DEF Counts
    <3> QED
      BY <1>6, <3>3
  <2>2. CASE n < i
    <3>1. i - n \in 1..(l - n) /\ n + (i - n) = i
      BY <1>1, <2>0, <2>2
    <3>2. i - n \in B
      BY <1>2, <1>5d, <2>0, <3>1
    <3>3. PICK k \in 1..y : g[k] = i - n
      BY <1>4, <3>2 DEF Counts
    <3> QED
      BY <1>7, <3>1, <3>3
  <2>3. i <= n \/ n < i
    BY <1>1, <2>0
  <2> QED
    BY <2>1, <2>2, <2>3
<1>11. ASSUME NEW k \in 1..(x + y), NEW m \in 1..(x + y), k < m PROVE h[k] < h[m]
  <2>1. CASE k \in 1..x /\ m \in 1..x
    <3>1. f[k] < f[m]
      BY <1>3, <1>11, <2>1 DEF Counts
    <3> QED
      BY <1>6, <2>1, <3>1
  <2>2. CASE k \in 1..x /\ m - x \in 1..y /\ m = x + (m - x)
    <3>1. h[k] \in 1..n /\ h[m] = n + g[m - x] /\ g[m - x] \in 1..(l - n)
      BY <1>6, <1>7, <2>2
    <3> QED
      BY <1>1, <3>1
  <2>3. CASE k - x \in 1..y /\ k = x + (k - x) /\ m - x \in 1..y /\ m = x + (m - x)
    <3>1. k - x < m - x
      BY <1>3, <1>4, <1>11
    <3>2. g[k - x] < g[m - x]
      BY <1>4, <2>3, <3>1 DEF Counts
    <3>3. h[k] = n + g[k - x] /\ h[m] = n + g[m - x] /\ g[k - x] \in 1..(l - n) /\ g[m - x] \in 1..(l - n)
      BY <1>7, <2>3
    <3> QED
      BY <1>1, <3>2, <3>3
  <2>4. ~(k - x \in 1..y /\ m \in 1..x)
    BY <1>3, <1>4, <1>11
  <2> QED
    BY <1>8, <2>1, <2>2, <2>3, <2>4
<1>12. Counts(h, x + y, P)
  <2>1. x + y \in Nat /\ P \in SUBSET Nat
    BY <1>1, <1>3, <1>4, <1>5p
  <2>2. h \in [1..(x + y) -> P]
    <3>1. h = [k \in 1..(x + y) |-> h[k]]
      BY DEF h
    <3> QED
      BY <1>9, <3>1
  <2> QED
    BY <1>10, <1>11, <2>1, <2>2 DEF Counts
<1>13. /\ IsList(Without(s, S)) /\ Len(Without(s, S)) = x + y
       /\ \A k \in 1..(x + y) : Without(s, S)[k] = s[h[k]]
  BY <1>12, WithoutIs DEF P, l
<1>14. IsList(a \o b) /\ Len(a \o b) = x + y
  BY <1>3, <1>4, <1>5f, ConcatList
<1>15. Without(s, S) = a \o b
  BY <1>9, <1>13, <1>14, SameList
<1> QED
  BY <1>3, <1>4, <1>5e, <1>15 DEF a, b, c, d, l, x

\* What a list holds after a filter, a concatenation or a splice.
LEMMA WithoutHolds ==
  ASSUME NEW s, IsList(s), NEW S
  PROVE  IsList(Without(s, S)) /\ ToSet(Without(s, S)) = ToSet(s) \ S
<1> DEFINE t == Without(s, S)
           n == Len(t)
<1>1. PICK f : /\ Counts(f, n, KeptAt(s, S)) /\ n \in Nat
               /\ IsList(t) /\ \A k \in 1..n : t[k] = s[f[k]]
  BY KeptPlaces
<1> HIDE DEF t
<1>2. /\ ToSet(t) = {t[k] : k \in 1..n} /\ ToSet(s) = {s[i] : i \in 1..Len(s)}
  BY <1>1, ListDomain
<1>3. ASSUME NEW x \in ToSet(t) PROVE x \in ToSet(s) \ S
  <2>1. PICK k \in 1..n : x = t[k]
    BY <1>2
  <2>2. f[k] \in KeptAt(s, S)
    BY <1>1 DEF Counts
  <2> QED
    BY <1>1, <1>2, <2>1, <2>2 DEF KeptAt
<1>4. ASSUME NEW x \in ToSet(s) \ S PROVE x \in ToSet(t)
  <2>1. PICK i \in 1..Len(s) : x = s[i]
    BY <1>2
  <2>2. i \in KeptAt(s, S)
    BY <1>4, <2>1 DEF KeptAt
  <2>3. PICK k \in 1..n : f[k] = i
    BY <1>1, <2>2 DEF Counts
  <2> QED
    BY <1>1, <1>2, <2>1, <2>3
<1> QED
  BY <1>1, <1>3, <1>4 DEF t

LEMMA OnlyHolds ==
  ASSUME NEW s, IsList(s), NEW S
  PROVE  IsList(Only(s, S)) /\ ToSet(Only(s, S)) = ToSet(s) \cap S
<1> DEFINE P == {i \in 1..Len(s) : s[i] \in S}
           t == Only(s, S)
           n == Cardinality(P)
<1>1. Len(s) \in Nat /\ P \in SUBSET (1..Len(s))
  BY DEF IsList
<1>2. t = Sublist(s, P)
  BY DEF Only
<1>2a. \A i \in P : i \in 1..Len(s) /\ s[i] \in S
  OBVIOUS
<1>2b. \A i \in 1..Len(s) : s[i] \in S => i \in P
  OBVIOUS
<1> HIDE DEF P, t
<1>3. PICK f : Counts(f, n, P)
  BY <1>1, PlacesCount
<1>4. IsList(t) /\ Len(t) = n /\ \A k \in 1..n : t[k] = s[f[k]]
  BY <1>2, <1>3, SublistIs
<1>5. /\ ToSet(t) = {t[k] : k \in 1..n} /\ ToSet(s) = {s[i] : i \in 1..Len(s)}
  BY <1>4, ListDomain
<1>6. ASSUME NEW x \in ToSet(t) PROVE x \in ToSet(s) \cap S
  <2>1. PICK k \in 1..n : x = t[k]
    BY <1>5
  <2>2. f[k] \in P
    BY <1>3 DEF Counts
  <2> QED
    BY <1>2a, <1>4, <1>5, <2>1, <2>2
<1>7. ASSUME NEW x \in ToSet(s) \cap S PROVE x \in ToSet(t)
  <2>1. PICK i \in 1..Len(s) : x = s[i]
    BY <1>5
  <2>2. i \in P
    BY <1>2b, <1>7, <2>1
  <2>3. PICK k \in 1..n : f[k] = i
    BY <1>3, <2>2 DEF Counts
  <2> QED
    BY <1>4, <1>5, <2>1, <2>3
<1> QED
  BY <1>4, <1>6, <1>7 DEF t

LEMMA ConcatHolds ==
  ASSUME NEW s, IsList(s), NEW t, IsList(t)
  PROVE  IsList(s \o t) /\ ToSet(s \o t) = ToSet(s) \cup ToSet(t)
<1> DEFINE j == s \o t
           n == Len(s)
           l == Len(t)
<1>1. /\ IsList(j) /\ Len(j) = n + l
      /\ \A i \in 1..n : j[i] = s[i]
      /\ \A i \in 1..l : j[n + i] = t[i]
  BY ConcatList
<1>2. n \in Nat /\ l \in Nat
  BY DEF IsList
<1> HIDE DEF j
<1>3. /\ ToSet(j) = {j[i] : i \in 1..Len(j)} /\ ToSet(s) = {s[i] : i \in 1..n}
      /\ ToSet(t) = {t[i] : i \in 1..l}
  BY <1>1, ListDomain
<1> HIDE DEF n, l
<1>4. ASSUME NEW x \in ToSet(j) PROVE x \in ToSet(s) \cup ToSet(t)
  <2>1. PICK i \in 1..(n + l) : x = j[i]
    BY <1>1, <1>3
  <2>2. i \in 1..n \/ (i - n \in 1..l /\ n + (i - n) = i)
    BY <1>2
  <2> QED
    BY <1>1, <1>3, <2>1, <2>2
<1>5. \A i \in 1..n : i \in 1..(n + l)
  BY <1>2
<1>6. \A i \in 1..l : n + i \in 1..(n + l)
  BY <1>2
<1>7. ToSet(s) \subseteq ToSet(j)
  BY <1>1, <1>3, <1>5
<1>8. ToSet(t) \subseteq ToSet(j)
  BY <1>1, <1>3, <1>6
<1> QED
  BY <1>1, <1>4, <1>7, <1>8 DEF j

LEMMA SpliceHolds ==
  ASSUME NEW s, IsList(s), NEW t, IsList(t), NEW at \in Nat
  PROVE  IsList(SpliceIn(s, at, t)) /\ ToSet(SpliceIn(s, at, t)) = ToSet(s) \cup ToSet(t)
<1> DEFINE n == IF at > Len(s) THEN Len(s) ELSE at
           a == SubSeq(s, 1, n)
           b == SubSeq(s, n + 1, Len(s))
<1>1. n \in 0..Len(s)
  BY DEF IsList
<1>2. SpliceIn(s, at, t) = (a \o t) \o b
  BY DEF SpliceIn
<1> HIDE DEF n
<1>3. IsList(a) /\ IsList(b) /\ a \o b = s
  BY <1>1, CutList, JoinedAgain
<1> HIDE DEF a, b
<1>4. ToSet(s) = ToSet(a) \cup ToSet(b)
  BY <1>3, ConcatHolds
<1>5. IsList(a \o t) /\ ToSet(a \o t) = ToSet(a) \cup ToSet(t)
  BY <1>3, ConcatHolds
<1>6. IsList((a \o t) \o b) /\ ToSet((a \o t) \o b) = ToSet(a \o t) \cup ToSet(b)
  BY <1>3, <1>5, ConcatHolds
<1> QED
  BY <1>2, <1>4, <1>5, <1>6

\* Those that come before each, by position and then by number.
Ahead(S, pos) == [x \in S |-> {y \in S : pos[y] < pos[x] \/ (pos[y] = pos[x] /\ y < x)}]

Numbered(B, S) ==
  /\ Cardinality(S) \in Nat
  /\ \A x \in S : Cardinality(B[x]) \in 0..(Cardinality(S) - 1)
  /\ \A x, y \in S : Cardinality(B[x]) = Cardinality(B[y]) => x = y
  /\ \A k \in 0..(Cardinality(S) - 1) : \E x \in S : Cardinality(B[x]) = k

LEMMA OrderNumbers ==
  ASSUME NEW R, IsFiniteSet(R), NEW B, Orders(B, R)
  PROVE  Numbered(B, R)
BY PlacesRun DEF Numbered

LEMMA BeforeRuns ==
  ASSUME NEW S \in SUBSET Int, IsFiniteSet(S), NEW pos, \A x \in S : pos[x] \in Int, NEW B, B = Ahead(S, pos)
  PROVE  /\ \A x, y \in S : y \in B[x] <=> pos[y] < pos[x] \/ (pos[y] = pos[x] /\ y < x)
         /\ \A x \in S : B[x] \in SUBSET (S \ {x})
         /\ Numbered(B, S)
<1>0. IsFiniteSet(S)
  OBVIOUS
<1>1. \A x, y \in S : y \in B[x] <=> pos[y] < pos[x] \/ (pos[y] = pos[x] /\ y < x)
  BY DEF Ahead
<1>2. B \in [S -> SUBSET S]
  BY DEF Ahead
<1>3. \A x \in S : x \in Int /\ pos[x] \in Int
  OBVIOUS
<1>4. Orders(B, S)
  BY <1>1, <1>2, <1>3 DEF Orders
<1>5. \A x \in S : B[x] \in SUBSET (S \ {x})
  BY <1>1, <1>2, <1>3
<1>6. Numbered(B, S)
  BY <1>0, <1>4, OrderNumbers
<1> QED
  BY <1>1, <1>5, <1>6

\* A finite set of numbers in a list, by positions that are numbers too.
LEMMA SortedHolds ==
  ASSUME NEW S \in SUBSET Int, IsFiniteSet(S), NEW pos, \A x \in S : pos[x] \in Int
  PROVE  IsList(Sorted(S, pos)) /\ ToSet(Sorted(S, pos)) = S
<1> DEFINE B == Ahead(S, pos)
           n == Cardinality(S)
           at(i) == CHOOSE x \in S : Cardinality(B[x]) = i - 1
           l == Sorted(S, pos)
<1>2. l = [i \in 1..n |-> CHOOSE x \in S :
             Cardinality({y \in S : pos[y] < pos[x] \/ (pos[y] = pos[x] /\ y < x)}) = i - 1]
  BY DEF Sorted
<1>3. ASSUME NEW i \in 1..n
      PROVE  (CHOOSE x \in S : Cardinality({y \in S : pos[y] < pos[x] \/ (pos[y] = pos[x] /\ y < x)}) = i - 1)
               = at(i)
  <2>1. \A x \in S : B[x] = {y \in S : pos[y] < pos[x] \/ (pos[y] = pos[x] /\ y < x)}
    BY DEF Ahead
  <2> HIDE DEF B
  <2> QED
    BY <2>1
<1> HIDE DEF B, l
<1>4. /\ n \in Nat
      /\ \A x \in S : Cardinality(B[x]) \in 0..(n - 1)
      /\ \A x, y \in S : Cardinality(B[x]) = Cardinality(B[y]) => x = y
      /\ \A k \in 0..(n - 1) : \E x \in S : Cardinality(B[x]) = k
  BY BeforeRuns DEF B, Numbered
<1> HIDE DEF n
<1>6. ASSUME NEW i \in 1..n PROVE at(i) \in S /\ Cardinality(B[at(i)]) = i - 1
  <2>1. i - 1 \in 0..(n - 1)
    BY <1>4
  <2>2. \E x \in S : Cardinality(B[x]) = i - 1
    BY <1>4, <2>1
  <2> QED
    BY <2>2
<1> HIDE DEF at
<1>5. l = [i \in 1..n |-> at(i)]
  BY <1>2, <1>3
<1>7. ASSUME NEW x \in S PROVE \E i \in 1..n : at(i) = x
  <2> DEFINE i == Cardinality(B[x]) + 1
  <2>1. i \in 1..n /\ i - 1 = Cardinality(B[x])
    BY <1>4
  <2>2. at(i) \in S /\ Cardinality(B[at(i)]) = i - 1
    BY <1>6, <2>1
  <2>3. at(i) = x
    BY <1>4, <2>1, <2>2
  <2> QED
    BY <2>1, <2>3
<1>8. IsList(l) /\ Len(l) = n /\ \A i \in 1..n : l[i] = at(i)
  <2>1. l = [i \in 1..n |-> l[i]]
    BY <1>5
  <2> QED
    BY <1>4, <1>5, <2>1, FunctionIsList
<1>9. ToSet(l) = {l[i] : i \in 1..n}
  BY <1>8, ListDomain
<1>10. \A x \in ToSet(l) : x \in S
  BY <1>6, <1>8, <1>9
<1>11. \A x \in S : x \in ToSet(l)
  BY <1>7, <1>8, <1>9
<1> QED
  BY <1>8, <1>10, <1>11 DEF l

-----------------------------------------------------------------------------
(* The tree of a pane: every metric in one place, and what is nested too.  *)

TreeOK(a) ==
  /\ a = [order |-> a.order, items |-> a.items, under |-> a.under]
  /\ IsList(a.order) /\ Groups(a) \ {Uncat} \subseteq ToSet(a.order)
  /\ DOMAIN a.under \subseteq Metrics
  /\ \A g \in Groups(a) : IsList(a.items[g]) /\ ToSet(a.items[g]) \subseteq DOMAIN a.under
  /\ \A x \in DOMAIN a.under : IsList(a.under[x]) /\ ToSet(a.under[x]) \subseteq DOMAIN a.under
  /\ \A g \in Groups(a), x \in DOMAIN a.under : ToSet(a.items[g]) \cap ToSet(a.under[x]) = {}
  /\ \A x, y \in DOMAIN a.under : x = y \/ ToSet(a.under[x]) \cap ToSet(a.under[y]) = {}
  /\ \A m \in DOMAIN a.under : \/ \E g \in Groups(a) : m \in ToSet(a.items[g])
                               \/ \E x \in DOMAIN a.under : m \in ToSet(a.under[x])

LEMMA ItemsAre ==
  ASSUME NEW a, TreeOK(a)
  PROVE  ItemsOf(a) = DOMAIN a.under
<1> DEFINE L == {ToSet(a.items[g]) : g \in Groups(a)}
           U == UNION L
           D == DOMAIN a.under
<1>1. \A g \in Groups(a) : ToSet(a.items[g]) \subseteq D
  BY DEF TreeOK
<1>2. \A s \in L : s \subseteq D
  BY <1>1
<1>3. ItemsOf(a) = D \cup U
  BY DEF ItemsOf
<1> HIDE DEF L, D
<1>4. U \subseteq D
  BY <1>2
<1> HIDE DEF U
<1>5. ItemsOf(a) = D
  BY <1>3, <1>4
<1> QED
  BY <1>5 DEF D

LEMMA NestedIsIn ==
  ASSUME NEW a, NEW S, NEW T \in SUBSET ItemsOf(a), S \cap ItemsOf(a) \subseteq T,
         \A x \in T \cap DOMAIN a.under : ToSet(a.under[x]) \subseteq T
  PROVE  Nested(a, S) \subseteq T
BY DEF Nested

LEMMA NestedHolds ==
  ASSUME NEW a, TreeOK(a), NEW S
  PROVE  /\ Nested(a, S) \in SUBSET DOMAIN a.under /\ S \cap DOMAIN a.under \subseteq Nested(a, S)
         /\ \A x \in Nested(a, S) : ToSet(a.under[x]) \subseteq Nested(a, S)
         /\ \A m \in Nested(a, S) : m \in S \/ \E x \in Nested(a, S) : m \in ToSet(a.under[x])
<1> DEFINE D == DOMAIN a.under
           N == Nested(a, S)
           Closed(T) == S \cap D \subseteq T /\ \A x \in T \cap D : ToSet(a.under[x]) \subseteq T
<1>1. ItemsOf(a) = D /\ \A x \in D : ToSet(a.under[x]) \subseteq D
  BY ItemsAre DEF TreeOK
<1>2. N = {m \in D : \A T \in SUBSET D : Closed(T) => m \in T}
  BY <1>1 DEF Nested
<1>3. N \subseteq D /\ \A T \in SUBSET D : Closed(T) => N \subseteq T
  BY <1>2
<1>4. S \cap D \subseteq N
  BY <1>2
<1>5. ASSUME NEW x \in N, NEW m \in ToSet(a.under[x]) PROVE m \in N
  <2>1. m \in D
    BY <1>1, <1>3
  <2>2. ASSUME NEW T \in SUBSET D, Closed(T) PROVE m \in T
    BY <1>3, <2>2
  <2> QED
    BY <1>2, <2>1, <2>2
<1>6. ASSUME NEW m \in N, m \notin S, \A x \in N : m \notin ToSet(a.under[x]) PROVE FALSE
  <2> DEFINE T == N \ {m}
  <2>1. T \in SUBSET D
    BY <1>3
  <2>2. Closed(T)
    BY <1>4, <1>5, <1>6
  <2> QED
    BY <1>3, <2>1, <2>2
<1> HIDE DEF N
<1>7. N \in SUBSET D /\ S \cap D \subseteq N /\ (\A x \in N : ToSet(a.under[x]) \subseteq N)
  BY <1>3, <1>4, <1>5
<1>8. \A m \in N : m \in S \/ \E x \in N : m \in ToSet(a.under[x])
  BY <1>6
<1> QED
  BY <1>7, <1>8 DEF N

\* A row that is under none comes out by itself, if it is taken.
LEMMA TopsAre ==
  ASSUME NEW a, TreeOK(a), NEW ids
  PROVE  /\ Tops(a, ids) \in SUBSET (ToSet(ids) \cap DOMAIN a.under)
         /\ \A m \in ToSet(ids) \cap DOMAIN a.under :
              (\A x \in DOMAIN a.under : m \notin ToSet(a.under[x])) => m \in Tops(a, ids)
<1> DEFINE moved == ToSet(ids) \cap ItemsOf(a)
<1>1. ItemsOf(a) = DOMAIN a.under
  BY ItemsAre
<1>2. Tops(a, ids) = {m \in moved : \A x \in moved \ {m} : m \notin Nested(a, {x})}
  BY DEF Tops
<1>3. ASSUME NEW m \in moved, \A x \in DOMAIN a.under : m \notin ToSet(a.under[x]), NEW x \in moved \ {m}
      PROVE  m \notin Nested(a, {x})
  <2>1. /\ Nested(a, {x}) \in SUBSET DOMAIN a.under
        /\ m \in Nested(a, {x}) => m \in {x} \/ \E y \in Nested(a, {x}) : m \in ToSet(a.under[y])
    BY NestedHolds
  <2> QED
    BY <1>3, <2>1
<1> QED
  BY <1>1, <1>2, <1>3

-----------------------------------------------------------------------------
(* What the user does keeps the tree one.                                  *)

\* What is moved is taken out wherever it is, and is in the group then.
MovedTo(b, a, tops, g) ==
  /\ b = [order |-> b.order, items |-> b.items, under |-> b.under] /\ b.order = a.order
  /\ Groups(b) = Groups(a) /\ DOMAIN b.under = DOMAIN a.under /\ tops \subseteq DOMAIN a.under
  /\ \A h \in Groups(a) \ {g} : IsList(b.items[h]) /\ ToSet(b.items[h]) = ToSet(a.items[h]) \ tops
  /\ IsList(b.items[g]) /\ ToSet(b.items[g]) = ToSet(a.items[g]) \cup tops
  /\ \A x \in DOMAIN a.under : IsList(b.under[x]) /\ ToSet(b.under[x]) = ToSet(a.under[x]) \ tops

LEMMA MovedHolds ==
  ASSUME NEW a, TreeOK(a), NEW ids, IsList(ids), NEW g \in Groups(a), NEW at \in Nat
  PROVE  MovedTo(MoveItems(a, ids, g, at), a, Tops(a, ids), g)
<1> DEFINE tops == Tops(a, ids)
           b == MoveItems(a, ids, g, at)
           D == DOMAIN a.under
           new == Only(ids, tops)
           left == [h \in Groups(a) |-> Without(a.items[h], tops)]
<1>1. tops \subseteq D /\ tops \subseteq ToSet(ids)
  BY TopsAre
<1>2. IsList(new) /\ ToSet(new) = tops
  BY <1>1, OnlyHolds
<1>3. b = [a EXCEPT !.items = [left EXCEPT ![g] = SpliceIn(@, at, new)],
                    !.under = [x \in D |-> Without(a.under[x], tops)]]
  BY DEF MoveItems
<1>4. \A h \in Groups(a) : /\ IsList(left[h]) /\ ToSet(left[h]) = ToSet(a.items[h]) \ tops
  BY WithoutHolds DEF TreeOK
<1>5. \A x \in D : /\ IsList(Without(a.under[x], tops))
                   /\ ToSet(Without(a.under[x], tops)) = ToSet(a.under[x]) \ tops
  BY WithoutHolds DEF TreeOK
<1>6. IsList(SpliceIn(left[g], at, new)) /\ ToSet(SpliceIn(left[g], at, new)) = (ToSet(a.items[g]) \ tops) \cup tops
  <2>1. IsList(left[g]) /\ ToSet(left[g]) = ToSet(a.items[g]) \ tops
    BY <1>4
  <2>2. /\ IsList(SpliceIn(left[g], at, new))
        /\ ToSet(SpliceIn(left[g], at, new)) = ToSet(left[g]) \cup ToSet(new)
    <3> HIDE DEF left, tops, new, b
    <3> QED
      BY <1>2, <2>1, SpliceHolds
  <2> QED
    BY <1>2, <2>1, <2>2
<1>7. /\ b = [order |-> b.order, items |-> b.items, under |-> b.under] /\ b.order = a.order
      /\ b.items = [left EXCEPT ![g] = SpliceIn(left[g], at, new)]
      /\ b.under = [x \in D |-> Without(a.under[x], tops)]
  <2>1. a = [order |-> a.order, items |-> a.items, under |-> a.under]
    BY DEF TreeOK
  <2>2. g \in DOMAIN left
    OBVIOUS
  <2> HIDE DEF left, tops, new, b
  <2>3. [left EXCEPT ![g] = SpliceIn(@, at, new)] = [left EXCEPT ![g] = SpliceIn(left[g], at, new)]
    BY <2>2
  <2> QED
    BY <1>3, <2>1, <2>3
<1>8. DOMAIN b.items = Groups(a) /\ DOMAIN b.under = D
  BY <1>7
<1>9. /\ \A h \in Groups(a) \ {g} : b.items[h] = left[h]
      /\ b.items[g] = SpliceIn(left[g], at, new)
  <2> HIDE DEF b, new, tops
  <2> QED
    BY <1>7
<1>10. \A x \in D : b.under[x] = Without(a.under[x], tops)
  BY <1>7
<1> HIDE DEF b, new, left, tops
<1>11. /\ \A h \in Groups(a) \ {g} : IsList(b.items[h]) /\ ToSet(b.items[h]) = ToSet(a.items[h]) \ tops
       /\ IsList(b.items[g]) /\ ToSet(b.items[g]) = ToSet(a.items[g]) \cup tops
  BY <1>4, <1>6, <1>9
<1>12. \A x \in D : IsList(b.under[x]) /\ ToSet(b.under[x]) = ToSet(a.under[x]) \ tops
  BY <1>5, <1>10
<1>13. Groups(b) = Groups(a)
  BY <1>8 DEF Groups
<1>14. MovedTo(b, a, tops, g)
  BY <1>1, <1>7, <1>8, <1>11, <1>12, <1>13 DEF MovedTo
<1> QED
  BY <1>14 DEF b, tops

LEMMA MoveKeepsTree ==
  ASSUME NEW a, TreeOK(a), NEW ids, IsList(ids), NEW g, NEW at \in Nat
  PROVE  TreeOK(MoveItems(a, ids, g, at))
<1> DEFINE tops == Tops(a, ids)
           D == DOMAIN a.under
           b == MoveItems(a, ids, g, at)
<1>1. CASE g \notin Groups(a)
  BY <1>1 DEF MoveItems
<1>2. CASE g \in Groups(a)
  <2>0. MovedTo(b, a, tops, g)
    BY <1>2, MovedHolds
  <2> HIDE DEF b, tops
  <2>1. /\ b = [order |-> b.order, items |-> b.items, under |-> b.under] /\ b.order = a.order
        /\ Groups(b) = Groups(a) /\ DOMAIN b.under = D /\ tops \subseteq D
        /\ \A h \in Groups(a) : /\ IsList(b.items[h])
                                /\ ToSet(b.items[h]) \subseteq ToSet(a.items[h]) \cup tops
                                /\ ToSet(a.items[h]) \ tops \subseteq ToSet(b.items[h])
        /\ tops \subseteq ToSet(b.items[g])
        /\ \A x \in D : IsList(b.under[x]) /\ ToSet(b.under[x]) = ToSet(a.under[x]) \ tops
    BY <1>2, <2>0 DEF MovedTo
  <2>2. \A h \in Groups(a) : ToSet(b.items[h]) \subseteq D
    BY <2>1 DEF TreeOK
  <2>3. \A x \in D : ToSet(b.under[x]) \subseteq D
    BY <2>1 DEF TreeOK
  <2>4. \A h \in Groups(a), x \in D : ToSet(b.items[h]) \cap ToSet(b.under[x]) = {}
    <3> SUFFICES ASSUME NEW h \in Groups(a), NEW x \in D, NEW m \in ToSet(b.items[h]), m \in ToSet(b.under[x]) PROVE FALSE
      OBVIOUS
    <3>1. m \in ToSet(a.under[x]) /\ m \notin tops /\ m \in ToSet(a.items[h])
      BY <2>1
    <3> QED
      BY <3>1 DEF TreeOK
  <2>5. \A x, y \in D : x = y \/ ToSet(b.under[x]) \cap ToSet(b.under[y]) = {}
    BY <2>1 DEF TreeOK
  <2>6. ASSUME NEW m \in D
        PROVE  (\E h \in Groups(a) : m \in ToSet(b.items[h])) \/ \E x \in D : m \in ToSet(b.under[x])
    <3>1. CASE m \in tops
      BY <1>2, <2>1, <3>1
    <3>2. CASE m \notin tops /\ \E h \in Groups(a) : m \in ToSet(a.items[h])
      BY <2>1, <3>2
    <3>3. CASE m \notin tops /\ \E x \in D : m \in ToSet(a.under[x])
      BY <2>1, <3>3
    <3> QED
      BY <3>1, <3>2, <3>3 DEF TreeOK
  <2>7. IsList(b.order) /\ Groups(b) \ {Uncat} \subseteq ToSet(b.order) /\ DOMAIN b.under \subseteq Metrics
    BY <2>1 DEF TreeOK
  <2>8. TreeOK(b)
    BY <2>1, <2>2, <2>3, <2>4, <2>5, <2>6, <2>7 DEF TreeOK
  <2> QED
    BY <2>8 DEF b
<1> QED
  BY <1>1, <1>2

LEMMA MoveGroupKeepsTree ==
  ASSUME NEW a, TreeOK(a), NEW from, NEW to
  PROVE  TreeOK(MoveGroup(a, from, to))
<1> DEFINE n == Len(a.order)
           rest == RemoveAt(a.order, from + 1)
           one == <<a.order[from + 1]>>
           order == SpliceIn(rest, to, one)
           b == MoveGroup(a, from, to)
<1>1. CASE from = to \/ from \notin 0..(n - 1) \/ to \notin 0..(n - 1)
  BY <1>1 DEF MoveGroup
<1>2. CASE from # to /\ from \in 0..(n - 1) /\ to \in 0..(n - 1)
  <2>1. IsList(a.order) /\ n \in Nat
    BY DEF TreeOK, IsList
  <2>2. from + 1 \in 1..n /\ to \in Nat /\ from \in 0..n /\ from + 1 \in 0..n /\ (from + 1) - 1 = from
    BY <1>2, <2>1
  <2> DEFINE p == SubSeq(a.order, 1, from)
             q == SubSeq(a.order, (from + 1) + 1, n)
             pp == SubSeq(a.order, 1, from + 1)
  <2>3. rest = p \o q
    BY <2>2 DEF RemoveAt
  <2>4. IsList(p) /\ Len(p) = from /\ \A i \in 1..from : p[i] = a.order[i]
    BY <2>1, <2>2, CutList
  <2>5. /\ IsList(pp) /\ Len(pp) = from + 1 /\ (\A i \in 1..(from + 1) : pp[i] = a.order[i])
        /\ IsList(q) /\ pp \o q = a.order
    BY <2>1, <2>2, CutList, JoinedAgain
  <2>6. IsList(one) /\ ToSet(one) = {a.order[from + 1]}
    <3> DEFINE o == a.order[from + 1]
    <3> HIDE DEF o
    <3>1. IsList(<<o>>) /\ Len(<<o>>) = 1 /\ <<o>>[1] = o
      BY ShortLists
    <3>2. ToSet(<<o>>) = {<<o>>[i] : i \in 1..Len(<<o>>)}
      BY <3>1, ListDomain
    <3>3. 1..1 = {1}
      OBVIOUS
    <3>4. ToSet(<<o>>) = {o}
      BY <3>1, <3>2, <3>3
    <3> QED
      BY <3>1, <3>4 DEF o
  <2>7. ToSet(pp) = ToSet(p) \cup ToSet(one)
    <3>1. /\ ToSet(pp) = {pp[i] : i \in 1..(from + 1)} /\ ToSet(p) = {p[i] : i \in 1..from}
      BY <2>4, <2>5, ListDomain
    <3>2. 1..(from + 1) = 1..from \cup {from + 1} /\ \A i \in 1..from : i \in 1..(from + 1)
      BY <2>2
    <3> HIDE DEF p, pp, one
    <3>3. ASSUME NEW x \in ToSet(pp) PROVE x \in ToSet(p) \cup ToSet(one)
      <4>1. PICK i \in 1..(from + 1) : x = pp[i]
        BY <3>1
      <4>2. CASE i \in 1..from
        BY <2>4, <2>5, <3>1, <4>1, <4>2
      <4>3. CASE i = from + 1
        BY <2>2, <2>5, <2>6, <3>2, <4>1, <4>3
      <4> QED
        BY <3>2, <4>1, <4>2, <4>3
    <3>4. \A x \in ToSet(p) \cup ToSet(one) : x \in ToSet(pp)
      BY <2>2, <2>4, <2>5, <2>6, <3>1, <3>2
    <3> QED
      BY <3>3, <3>4
  <2> HIDE DEF p, q, pp, one
  <2>8. IsList(rest) /\ ToSet(rest) = ToSet(p) \cup ToSet(q)
    BY <2>3, <2>4, <2>5, ConcatHolds
  <2>9. ToSet(a.order) = ToSet(pp) \cup ToSet(q)
    BY <2>5, ConcatHolds
  <2> HIDE DEF rest
  <2>10. IsList(order) /\ ToSet(order) = ToSet(a.order)
    <3>1. IsList(order) /\ ToSet(order) = ToSet(rest) \cup ToSet(one)
      BY <2>2, <2>6, <2>8, SpliceHolds
    <3> HIDE DEF order
    <3> QED
      BY <2>7, <2>8, <2>9, <3>1
  <2>11. b = [a EXCEPT !.order = order]
    BY <1>2 DEF MoveGroup, rest, one
  <2> HIDE DEF order, b
  <2>12. /\ b = [order |-> b.order, items |-> b.items, under |-> b.under]
         /\ b.order = order /\ b.items = a.items /\ b.under = a.under
    <3>1. a = [order |-> a.order, items |-> a.items, under |-> a.under]
      BY DEF TreeOK
    <3> QED
      BY <2>11, <3>1
  <2>13. TreeOK(b)
    BY <2>10, <2>12 DEF TreeOK, Groups
  <2> QED
    BY <2>13 DEF b
<1> QED
  BY <1>1, <1>2

\* A row is taken out with all that is nested in it.
TakenFrom(b, a, m) ==
  /\ b = [order |-> b.order, items |-> b.items, under |-> b.under] /\ b.order = a.order
  /\ Groups(b) = Groups(a) /\ DOMAIN b.under = DOMAIN a.under \ Nested(a, {m})
  /\ \A g \in Groups(a) : IsList(b.items[g]) /\ ToSet(b.items[g]) = ToSet(a.items[g]) \ {m}
  /\ \A x \in DOMAIN a.under \ Nested(a, {m}) : IsList(b.under[x]) /\ ToSet(b.under[x]) = ToSet(a.under[x]) \ {m}

LEMMA RemovedHolds ==
  ASSUME TreeOK(tree), NEW m
  PROVE  TakenFrom(Removed({m}), tree, m)
<1> DEFINE a == tree
           b == Removed({m})
           N == Nested(a, {m})
           D == DOMAIN a.under
<1>1. b = [a EXCEPT !.items = [g \in Groups(a) |-> Without(a.items[g], {m})],
                    !.under = [x \in D \ N |-> Without(a.under[x], {m})]]
  BY DEF Removed
<1> HIDE DEF N, b
<1>2. /\ b = [order |-> b.order, items |-> b.items, under |-> b.under] /\ b.order = a.order
      /\ b.items = [g \in Groups(a) |-> Without(a.items[g], {m})]
      /\ b.under = [x \in D \ N |-> Without(a.under[x], {m})]
  <2>1. a = [order |-> a.order, items |-> a.items, under |-> a.under]
    BY DEF TreeOK
  <2> QED
    BY <1>1, <2>1
<1>3. Groups(b) = Groups(a) /\ DOMAIN b.under = D \ N
  BY <1>2 DEF Groups
<1>4. \A g \in Groups(a) : IsList(b.items[g]) /\ ToSet(b.items[g]) = ToSet(a.items[g]) \ {m}
  BY <1>2, WithoutHolds DEF TreeOK
<1>5. \A x \in D \ N : IsList(b.under[x]) /\ ToSet(b.under[x]) = ToSet(a.under[x]) \ {m}
  BY <1>2, WithoutHolds DEF TreeOK
<1>6. TakenFrom(b, a, m)
  BY <1>2, <1>3, <1>4, <1>5 DEF TakenFrom, N
<1> QED
  BY <1>6 DEF b

LEMMA RemovedKeepsTree ==
  ASSUME TreeOK(tree), NEW m
  PROVE  TreeOK(Removed({m}))
<1> DEFINE a == tree
           b == Removed({m})
           N == Nested(a, {m})
           D == DOMAIN a.under
<1>1. /\ N \in SUBSET D /\ {m} \cap D \subseteq N
      /\ \A x \in N : ToSet(a.under[x]) \subseteq N
      /\ \A x \in N : x \in {m} \/ \E y \in N : x \in ToSet(a.under[y])
  BY NestedHolds
<1>2. TakenFrom(b, a, m)
  BY RemovedHolds
<1> HIDE DEF b
<1>3. b = [order |-> b.order, items |-> b.items, under |-> b.under] /\ b.order = a.order
  BY <1>2 DEF TakenFrom
<1>4. Groups(b) = Groups(a) /\ DOMAIN b.under = D \ N
  BY <1>2 DEF TakenFrom
<1>5. \A g \in Groups(a) : IsList(b.items[g]) /\ ToSet(b.items[g]) = ToSet(a.items[g]) \ {m}
  BY <1>2 DEF TakenFrom
<1>6. \A x \in D \ N : IsList(b.under[x]) /\ ToSet(b.under[x]) = ToSet(a.under[x]) \ {m}
  BY <1>2 DEF TakenFrom
<1> HIDE DEF N
<1>7. ASSUME NEW g \in Groups(a), NEW x \in ToSet(b.items[g]) PROVE x \in D \ N
  <2>1. x \in D /\ x # m /\ \A y \in D : x \notin ToSet(a.under[y])
    BY <1>5 DEF TreeOK
  <2> QED
    BY <1>1, <2>1
<1>8. ASSUME NEW y \in D \ N, NEW x \in ToSet(b.under[y]) PROVE x \in D \ N
  <2>1. x \in D /\ x # m /\ \A z \in D : x \in ToSet(a.under[z]) => z = y
    BY <1>6 DEF TreeOK
  <2> QED
    BY <1>1, <2>1
<1>9. \A g \in Groups(a), x \in D \ N : ToSet(b.items[g]) \cap ToSet(b.under[x]) = {}
  BY <1>5, <1>6 DEF TreeOK
<1>10. \A x, y \in D \ N : x = y \/ ToSet(b.under[x]) \cap ToSet(b.under[y]) = {}
  BY <1>6 DEF TreeOK
<1>11. ASSUME NEW x \in D \ N
       PROVE  (\E g \in Groups(a) : x \in ToSet(b.items[g])) \/ \E y \in D \ N : x \in ToSet(b.under[y])
  <2>1. x # m
    BY <1>1
  <2>2. CASE \E g \in Groups(a) : x \in ToSet(a.items[g])
    BY <1>5, <2>1, <2>2
  <2>3. CASE \E y \in D : x \in ToSet(a.under[y])
    BY <1>1, <1>6, <2>1, <2>3
  <2> QED
    BY <2>2, <2>3 DEF TreeOK
<1>12. IsList(b.order) /\ Groups(b) \ {Uncat} \subseteq ToSet(b.order) /\ DOMAIN b.under \subseteq Metrics
  BY <1>3, <1>4 DEF TreeOK
<1>13. TreeOK(b)
  BY <1>3, <1>4, <1>5, <1>6, <1>7, <1>8, <1>9, <1>10, <1>11, <1>12 DEF TreeOK
<1> QED
  BY <1>13 DEF b

-----------------------------------------------------------------------------
(* Where a drop puts the rows.                                             *)

LEMMA DropLands ==
  ASSUME TreeOK(tree), IsList(picked), NEW m \in DOMAIN tree.under, NEW from \in Groups(tree),
         NEW g \in Groups(tree), NEW at \in 0..MaxMetric, "drag" \in RowOffers(m), Droppable(m, from, g, at),
         PlainDrop(tree, Dragged(picked, m), m, from, g, at)
  PROVE  LET ids == Dragged(picked, m)
         IN MoveItems(tree, ids, g, DropIndex(tree, ids, from, g, at)).items[g] = DropSeen(tree, ids, m, g, at)
<1> DEFINE ids == Dragged(picked, m)
           a == tree
           D == DOMAIN a.under
           tops == Tops(a, ids)
           L == a.items[g]
           rows == Without(L, {m})
           new == Only(ids, tops)
           to == DropIndex(a, ids, from, g, at)
           X == Without(SubSeq(rows, 1, at), tops)
           Y == Without(SubSeq(rows, at + 1, Len(rows)), tops)
           b == MoveItems(a, ids, g, to)
<1>1. /\ IsList(ids) /\ m \in ToSet(ids) /\ (Len(ids) = 1 => ids = <<m>>)
  <2>1. CASE m \in ToSet(picked) /\ Len(picked) > 1
    <3>1. ids = picked /\ Len(picked) # 1
      BY <2>1 DEF Dragged, IsList
    <3> QED
      BY <2>1, <3>1
  <2>2. CASE ~(m \in ToSet(picked) /\ Len(picked) > 1)
    <3>1. ids = <<m>>
      BY <2>2 DEF Dragged
    <3>2. IsList(<<m>>) /\ Len(<<m>>) = 1 /\ <<m>>[1] = m
      BY ShortLists
    <3>3. ToSet(<<m>>) = {<<m>>[i] : i \in 1..Len(<<m>>)}
      BY <3>2, ListDomain
    <3>4. m \in ToSet(<<m>>)
      BY <3>2, <3>3
    <3> HIDE DEF ids
    <3> QED
      BY <3>1, <3>2, <3>4
  <2> QED
    BY <2>1, <2>2
<1>2. \A x \in D : m \notin ToSet(a.under[x])
  BY DEF RowOffers, NestedRows, Pick
<1>3. /\ tops \in SUBSET (ToSet(ids) \cap D) /\ m \in tops
      /\ \A y \in ToSet(ids) \cap D : (\A x \in D : y \notin ToSet(a.under[x])) => y \in tops
  BY <1>1, <1>2, TopsAre
<1>4. IsList(L) /\ Len(L) \in Nat
  BY DEF TreeOK, IsList
<1>5. IsList(rows) /\ at \in 0..Len(rows) /\ at \in Nat /\ Len(rows) \in Nat
  <2>1. IsList(rows)
    BY <1>4, WithoutHolds
  <2>2. at \in 0..Len(rows)
    BY DEF Droppable, DropRows
  <2> QED
    BY <2>1, <2>2 DEF IsList
<1>6. /\ IsList(X) /\ IsList(Y) /\ Without(L, tops) = X \o Y
  <2>1. Without(rows, tops) = Without(L, tops)
    <3>1. {m} \subseteq tops
      BY <1>3
    <3> HIDE DEF tops, L
    <3> QED
      BY <1>4, <3>1, TakenTwice
  <2>2. IsList(X) /\ IsList(Y) /\ Without(rows, tops) = X \o Y
    <3> HIDE DEF rows, tops
    <3> QED
      BY <1>5, CutAndKept
  <2> QED
    BY <2>1, <2>2
\* The rows before the drop, if the dragged one is not among them.
<1>7. ASSUME at <= Len(L), \A i \in 1..at : L[i] # m
      PROVE  SubSeq(rows, 1, at) = SubSeq(L, 1, at)
  <2> DEFINE c == SubSeq(L, 1, at)
             d == SubSeq(L, at + 1, Len(L))
             r == Without(d, {m})
  <2>1. at \in 0..Len(L)
    BY <1>4, <1>5, <1>7
  <2>2. /\ IsList(c) /\ Len(c) = at /\ (\A i \in 1..at : c[i] = L[i]) /\ IsList(d)
    <3> HIDE DEF L
    <3> QED
      BY <1>4, <2>1, CutList
  <2>3. Without(c, {m}) = c
    <3>1. \A i \in 1..Len(c) : c[i] \notin {m}
      BY <1>7, <2>2
    <3> HIDE DEF c
    <3> QED
      BY <2>2, <3>1, NothingTaken
  <2>4. rows = Without(c, {m}) \o r /\ IsList(r)
    <3> HIDE DEF L
    <3> QED
      BY <1>4, <2>1, CutAndKept
  <2> HIDE DEF rows, r, c
  <2>5. rows = c \o r
    BY <2>3, <2>4
  <2>6. SubSeq(c \o r, 1, Len(c)) = c
    BY <2>2, <2>4, CutAtJoint
  <2> QED
    BY <2>2, <2>5, <2>6 DEF c
<1>8. at <= Len(L)
  <2>1. /\ Len(rows) = Cardinality(KeptAt(L, {m})) /\ KeptAt(L, {m}) \in SUBSET (1..Len(L))
    <3> HIDE DEF L
    <3>1. KeptAt(L, {m}) \in SUBSET (1..Len(L))
      BY DEF KeptAt
    <3> QED
      BY <1>4, <3>1, KeptPlaces
  <2>2. IsFiniteSet(1..Len(L)) /\ Cardinality(1..Len(L)) = Len(L)
    <3> DEFINE l == Len(L)
    <3>1. 1 \in Int /\ l \in Int /\ l \in Nat
      BY <1>4
    <3> HIDE DEF l
    <3>2. IsFiniteSet(1..l) /\ Cardinality(1..l) = l
      BY <3>1, FS_Interval
    <3> QED
      BY <3>2 DEF l
  <2> HIDE DEF rows, L
  <2>3. Cardinality(KeptAt(L, {m})) <= Len(L)
    BY <2>1, <2>2, FS_Subset
  <2> QED
    BY <1>4, <1>5, <2>1, <2>3
\* The index is that of the first row behind the dragged ones.
<1>9. to = Len(X)
  <2>1. CASE Len(ids) = 1
    <3>1. to = at
      BY <2>1 DEF DropIndex
    <3>2. tops = {m}
      <4>1. ToSet(ids) = {m}
        <5>1. ids = <<m>> /\ IsList(<<m>>) /\ Len(<<m>>) = 1 /\ <<m>>[1] = m
          BY <1>1, <2>1, ShortLists
        <5>2. ToSet(<<m>>) = {<<m>>[i] : i \in 1..Len(<<m>>)}
          BY <5>1, ListDomain
        <5>3. 1..1 = {1}
          OBVIOUS
        <5>4. ToSet(<<m>>) = {m}
          BY <5>1, <5>2, <5>3
        <5> HIDE DEF ids
        <5> QED
          BY <5>1, <5>4
      <4> HIDE DEF tops
      <4> QED
        BY <1>3, <4>1
    <3>3. /\ IsList(SubSeq(rows, 1, at)) /\ Len(SubSeq(rows, 1, at)) = at
          /\ \A i \in 1..at : SubSeq(rows, 1, at)[i] = rows[i]
      <4> HIDE DEF rows
      <4> QED
        BY <1>5, CutList
    <3>4. \A i \in 1..Len(rows) : rows[i] \notin {m}
      <4>1. ToSet(rows) = ToSet(L) \ {m}
        BY <1>4, WithoutHolds
      <4>2. ToSet(rows) = {rows[i] : i \in 1..Len(rows)}
        BY <1>5, ListDomain
      <4> HIDE DEF rows
      <4> QED
        BY <4>1, <4>2
    <3>5. Without(SubSeq(rows, 1, at), {m}) = SubSeq(rows, 1, at)
      <4> DEFINE s == SubSeq(rows, 1, at)
      <4>1. \A i \in 1..Len(s) : s[i] \notin {m}
        <5> HIDE DEF rows
        <5> QED
          BY <1>5, <3>3, <3>4
      <4>2. IsList(s)
        BY <3>3
      <4> HIDE DEF s
      <4>3. Without(s, {m}) = s
        BY <4>1, <4>2, NothingTaken
      <4> QED
        BY <4>3 DEF s
    <3> HIDE DEF tops, rows
    <3> QED
      BY <3>1, <3>2, <3>3, <3>5
  <2>2. CASE Len(ids) # 1
    <3>1. Len(ids) > 1
      <4>1. ToSet(ids) = {ids[i] : i \in 1..Len(ids)} /\ Len(ids) \in Nat
        BY <1>1, ListDomain DEF IsList
      <4>2. Len(ids) # 0
        <5> HIDE DEF ids
        <5> QED
          BY <1>1, <4>1
      <4>3. Len(ids) \in Nat /\ Len(ids) # 1
        BY <2>2, <4>1
      <4> DEFINE l == Len(ids)
      <4>4. l \in Nat /\ l # 1 /\ l # 0
        BY <4>2, <4>3
      <4> HIDE DEF l
      <4>5. l > 1
        BY <4>4
      <4> QED
        BY <4>5 DEF l
    <3>2. \A i \in 1..at : i \in 1..Len(L) /\ L[i] \in ToSet(L)
      <4>1. ToSet(L) = {L[i] : i \in 1..Len(L)}
        BY <1>4, ListDomain
      <4> HIDE DEF L
      <4> QED
        BY <1>4, <1>5, <1>8, <4>1
    <3>3. \A i \in 1..at : L[i] \in tops <=> L[i] \in ToSet(ids)
      <4>1. ASSUME NEW y \in ToSet(L) PROVE y \in D /\ \A x \in D : y \notin ToSet(a.under[x])
        BY DEF TreeOK
      <4> HIDE DEF L, tops, ids
      <4> QED
        BY <1>3, <3>2, <4>1
    <3>4. \A i \in 1..at : L[i] # m
      <4>1. CASE from = g
        BY <2>2, <4>1, <3>1 DEF PlainDrop
      <4>2. CASE from # g
        <5>1. ToSet(SubSeq(L, 1, at)) \cap ToSet(ids) = {}
          BY <2>2, <4>2 DEF PlainDrop
        <5>2. at \in 0..Len(L)
          BY <1>4, <1>5, <1>8
        <5>3. /\ IsList(SubSeq(L, 1, at)) /\ Len(SubSeq(L, 1, at)) = at
              /\ \A i \in 1..at : SubSeq(L, 1, at)[i] = L[i]
          <6> HIDE DEF L
          <6> QED
            BY <1>4, <5>2, CutList
        <5>4. ToSet(SubSeq(L, 1, at)) = {SubSeq(L, 1, at)[i] : i \in 1..at}
          BY <5>3, ListDomain
        <5> HIDE DEF L, ids
        <5> QED
          BY <1>1, <5>1, <5>3, <5>4
      <4> QED
        BY <4>1, <4>2
    <3>5. SubSeq(rows, 1, at) = SubSeq(L, 1, at)
      BY <1>7, <1>8, <3>4
    <3> DEFINE K == {i \in 1..at : L[i] \notin tops}
               T == {i \in 1..at : L[i] \in tops}
    <3>6. Len(X) = Cardinality(K)
      <4>1. at \in 0..Len(L)
        BY <1>4, <1>5, <1>8
      <4> HIDE DEF L, tops, rows
      <4>2. Len(Without(SubSeq(L, 1, at), tops)) = Cardinality({i \in 1..at : L[i] \notin tops})
        BY <1>4, <4>1, CutAndKept
      <4> QED
        BY <3>5, <4>2
    <3>7. /\ IsFiniteSet(K) /\ IsFiniteSet(T) /\ Cardinality(K) \in Nat /\ Cardinality(T) \in Nat
          /\ Cardinality(K) + Cardinality(T) = at
      <4>1. IsFiniteSet(1..at) /\ Cardinality(1..at) = at
        <5>1. 1 \in Int /\ at \in Int
          BY <1>5
        <5> QED
          BY <1>5, <5>1, FS_Interval
      <4>2. K \in SUBSET (1..at) /\ T \in SUBSET (1..at) /\ K \cap T = {} /\ K \cup T = 1..at
        OBVIOUS
      <4> HIDE DEF K, T
      <4>3. IsFiniteSet(K) /\ IsFiniteSet(T)
        BY <4>1, <4>2, FS_Subset
      <4>4. Cardinality(K \cup T) = Cardinality(K) + Cardinality(T) - Cardinality(K \cap T)
        BY <4>3, FS_Union
      <4>5. Cardinality({}) = 0
        BY FS_EmptySet
      <4>6. Cardinality(K) \in Nat /\ Cardinality(T) \in Nat
        BY <4>3, FS_CardinalityType
      <4>7. Cardinality(K \cap T) = 0
        BY <4>2, <4>5
      <4>8. Cardinality(K \cup T) = at
        BY <4>1, <4>2
      <4> QED
        BY <1>5, <4>3, <4>4, <4>6, <4>7, <4>8
    <3>8. CASE from = g
      <4>1. to = at - Cardinality({i \in 1..at : i <= Len(L) /\ L[i] \in ToSet(ids)})
        BY <3>1, <3>8 DEF DropIndex
      <4>2. {i \in 1..at : i <= Len(L) /\ L[i] \in ToSet(ids)} = T
        <5>1. \A i \in 1..at : i <= Len(L)
          BY <1>4, <1>5, <1>8
        <5> HIDE DEF L, tops, ids
        <5> QED
          BY <3>3, <5>1
      <4>3. to = at - Cardinality(T)
        BY <4>1, <4>2
      <4> HIDE DEF T, K, X, L, ids, to
      <4> QED
        BY <1>5, <3>6, <3>7, <4>3
    <3>9. CASE from # g
      <4>1. to = at
        BY <3>9 DEF DropIndex
      <4>2. T = {}
        <5>1. ToSet(SubSeq(L, 1, at)) \cap ToSet(ids) = {}
          BY <2>2, <3>9 DEF PlainDrop
        <5>2. at \in 0..Len(L)
          BY <1>4, <1>5, <1>8
        <5>3. /\ IsList(SubSeq(L, 1, at)) /\ Len(SubSeq(L, 1, at)) = at
              /\ \A i \in 1..at : SubSeq(L, 1, at)[i] = L[i]
          <6> HIDE DEF L
          <6> QED
            BY <1>4, <5>2, CutList
        <5>4. ToSet(SubSeq(L, 1, at)) = {SubSeq(L, 1, at)[i] : i \in 1..at}
          BY <5>3, ListDomain
        <5> HIDE DEF L, ids, tops
        <5> QED
          BY <3>3, <5>1, <5>3, <5>4
      <4>3. Cardinality(T) = 0
        BY <4>2, FS_EmptySet
      <4> HIDE DEF T, K, X, L, ids, to
      <4> QED
        BY <1>5, <3>6, <3>7, <4>1, <4>3
    <3> QED
      BY <3>8, <3>9
  <2> QED
    BY <2>1, <2>2
<1>10. SpliceIn(X \o Y, Len(X), new) = (X \o new) \o Y
  <2>1. SubSeq(X \o Y, 1, Len(X)) = X /\ SubSeq(X \o Y, Len(X) + 1, Len(X \o Y)) = Y
    <3> HIDE DEF X, Y
    <3> QED
      BY <1>6, CutAtJoint
  <2>2. ~(Len(X) > Len(X \o Y))
    <3> HIDE DEF X, Y
    <3>1. Len(X \o Y) = Len(X) + Len(Y) /\ Len(X) \in Nat /\ Len(Y) \in Nat
      BY <1>6, ConcatList DEF IsList
    <3> QED
      BY <3>1
  <2> HIDE DEF X, Y, new
  <2> QED
    BY <2>1, <2>2 DEF SpliceIn
<1>11. b.items[g] = SpliceIn(Without(L, tops), to, new)
  <2> DEFINE left == [h \in Groups(a) |-> Without(a.items[h], tops)]
             under == [x \in D |-> Without(a.under[x], tops)]
  <2>1. b = [a EXCEPT !.items = [left EXCEPT ![g] = SpliceIn(@, to, new)], !.under = under]
    BY DEF MoveItems
  <2>2. a = [order |-> a.order, items |-> a.items, under |-> a.under]
    BY DEF TreeOK
  <2>3. left[g] = Without(L, tops) /\ g \in DOMAIN left
    OBVIOUS
  <2> HIDE DEF left, under, b, new, tops, to
  <2>4. b.items = [left EXCEPT ![g] = SpliceIn(@, to, new)]
    BY <2>1, <2>2
  <2> QED
    BY <2>3, <2>4
<1>12. DropSeen(a, ids, m, g, at) = (X \o new) \o Y
  BY DEF DropSeen, DropRows
<1> HIDE DEF X, Y, new, to, b, L, tops
<1>13. b.items[g] = (X \o new) \o Y
  BY <1>6, <1>9, <1>10, <1>11
<1> QED
  BY <1>12, <1>13 DEF b, to

-----------------------------------------------------------------------------
(* What the service keeps, and what is on its way to it.                   *)

StoreOK ==
  /\ DOMAIN metricRow = Metrics /\ DOMAIN catOrder = Cats \cup {Uncat}
  /\ \A m \in StoredMetrics : metricRow[m].order \in Int /\ metricRow[m].cat \in StoredCats
  /\ \A c \in StoredCats : catOrder[c] \in Int

RequestOK(r) ==
  /\ r.op = "save" => (\A c \in DOMAIN r.x : r.x[c] \in Int) /\ \A m \in DOMAIN r.y : r.y[m].order \in Int
  /\ r.op = "addCategory" => r.x \in Int

Asked(rs) == IsList(rs) /\ \A i \in 1..Len(rs) : RequestOK(rs[i])

TreeInv == TreeOK(tree) /\ StoreOK /\ IsList(picked) /\ Asked(wire)

LEMMA FiniteIds == /\ IsFiniteSet(Metrics) /\ Metrics \in SUBSET Int
                   /\ IsFiniteSet(Cats) /\ Cats \in SUBSET Int
<1>1. 1 \in Int /\ MaxMetric \in Int /\ MaxCat \in Int
  BY TreeScreenAssumption
<1> QED
  BY <1>1, FS_Interval DEF Metrics, Cats

\* The service's answer is a tree.
LEMMA StoredTreeOK ==
  ASSUME StoreOK
  PROVE  TreeOK(StoredTree)
<1> DEFINE pos == [m \in StoredMetrics |-> metricRow[m].order]
           named == StoredCats \ {Uncat}
           spot == [c \in named |-> catOrder[c]]
           It(c) == {m \in StoredMetrics : metricRow[m].cat = c /\ ~ShownUnder(m, metricRow[m].parent)}
           Un(p) == {m \in StoredMetrics : ShownUnder(m, p)}
           b == StoredTree
           D == StoredMetrics
<1>1. D \in SUBSET Metrics /\ \A m \in D : pos[m] \in Int
  BY DEF StoredMetrics, StoreOK
<1>2. ASSUME NEW S \in SUBSET D
      PROVE  IsList(Sorted(S, pos)) /\ ToSet(Sorted(S, pos)) = S
  <2>1. S \in SUBSET Int /\ IsFiniteSet(S) /\ \A x \in S : pos[x] \in Int
    <3>1. S \in SUBSET Metrics
      BY <1>1
    <3> QED
      BY <1>1, <3>1, FiniteIds, FS_Subset
  <2> HIDE DEF pos
  <2> QED
    BY <2>1, SortedHolds
<1>3. IsList(Sorted(named, spot)) /\ ToSet(Sorted(named, spot)) = named
  <2>1. named \in SUBSET Cats /\ \A c \in named : spot[c] \in Int
    BY DEF StoredCats, StoreOK
  <2>2. named \in SUBSET Int /\ IsFiniteSet(named)
    BY <2>1, FiniteIds, FS_Subset
  <2> HIDE DEF spot, named
  <2> QED
    BY <2>1, <2>2, SortedHolds
<1>4. /\ b = [order |-> b.order, items |-> b.items, under |-> b.under]
      /\ b.order = Sorted(named, spot)
      /\ b.items = [c \in StoredCats |-> Sorted(It(c), pos)]
      /\ b.under = [p \in D |-> Sorted(Un(p), pos)]
  BY DEF StoredTree
<1>5. \A c : It(c) \in SUBSET D
  OBVIOUS
<1>6. \A p : Un(p) \in SUBSET D
  OBVIOUS
<1>7. \A c, m : m \in It(c) <=> m \in D /\ metricRow[m].cat = c /\ ~ShownUnder(m, metricRow[m].parent)
  OBVIOUS
<1>8. \A p, m : m \in Un(p) <=> m \in D /\ ShownUnder(m, p)
  OBVIOUS
<1> HIDE DEF pos, spot, It, Un, b
<1>9. Groups(b) = StoredCats /\ DOMAIN b.under = D
  BY <1>4 DEF Groups
<1>10. \A c \in StoredCats : IsList(b.items[c]) /\ ToSet(b.items[c]) = It(c)
  BY <1>2, <1>4, <1>5
<1>11. \A p \in D : IsList(b.under[p]) /\ ToSet(b.under[p]) = Un(p)
  BY <1>2, <1>4, <1>6
<1>12. \A p, m : ShownUnder(m, p) => metricRow[m].parent = p /\ p \in D
  BY DEF ShownUnder
<1>13. \A c, p : It(c) \cap Un(p) = {}
  BY <1>7, <1>8, <1>12
<1>14. \A p, q : p = q \/ Un(p) \cap Un(q) = {}
  BY <1>8, <1>12
<1>15. ASSUME NEW m \in D
       PROVE  (\E c \in StoredCats : m \in It(c)) \/ \E p \in D : m \in Un(p)
  <2>1. CASE ShownUnder(m, metricRow[m].parent)
    BY <1>8, <1>12, <2>1
  <2>2. CASE ~ShownUnder(m, metricRow[m].parent)
    BY <1>7, <2>2 DEF StoreOK
  <2> QED
    BY <2>1, <2>2
<1>16. IsList(b.order) /\ Groups(b) \ {Uncat} \subseteq ToSet(b.order)
  BY <1>3, <1>4, <1>9
<1>17. \A c \in Groups(b) : IsList(b.items[c]) /\ ToSet(b.items[c]) \subseteq DOMAIN b.under
  BY <1>5, <1>9, <1>10
<1>18. \A p \in DOMAIN b.under : IsList(b.under[p]) /\ ToSet(b.under[p]) \subseteq DOMAIN b.under
  BY <1>6, <1>9, <1>11
<1>19. \A c \in Groups(b), p \in DOMAIN b.under : ToSet(b.items[c]) \cap ToSet(b.under[p]) = {}
  BY <1>9, <1>10, <1>11, <1>13
<1>20. \A p, q \in DOMAIN b.under : p = q \/ ToSet(b.under[p]) \cap ToSet(b.under[q]) = {}
  BY <1>9, <1>11, <1>14
<1>21. \A m \in DOMAIN b.under : \/ \E c \in Groups(b) : m \in ToSet(b.items[c])
                                 \/ \E p \in DOMAIN b.under : m \in ToSet(b.under[p])
  BY <1>9, <1>10, <1>11, <1>15
<1>22. b = [order |-> b.order, items |-> b.items, under |-> b.under] /\ DOMAIN b.under \subseteq Metrics
  BY <1>1, <1>4, <1>9
<1>23. TreeOK(b)
  BY <1>16, <1>17, <1>18, <1>19, <1>20, <1>21, <1>22 DEF TreeOK
<1> QED
  BY <1>23 DEF b

\* A save sends numbers.
LEMMA SavedAreNumbers ==
  ASSUME TreeOK(tree)
  PROVE  /\ \A c \in DOMAIN SavedCats(tree) : SavedCats(tree)[c] \in Int
         /\ \A m \in DOMAIN SavedRows(tree) : SavedRows(tree)[m].order \in Int
<1> DEFINE a == tree
           D == DOMAIN a.under
<1>1. ASSUME NEW list, IsList(list), NEW x \in ToSet(list)
      PROVE  (CHOOSE i \in 1..Len(list) : list[i] = x) \in Int
  <2>1. \E i \in 1..Len(list) : list[i] = x
    BY <1>1, ListDomain
  <2>2. (CHOOSE i \in 1..Len(list) : list[i] = x) \in 1..Len(list)
    BY <2>1
  <2> QED
    BY <2>2
<1>2. ASSUME NEW c \in Groups(a) PROVE SavedCats(a)[c] \in Int
  <2>1. SavedCats(a)[c] = IF c = Uncat THEN -1
                          ELSE (CHOOSE i \in 1..Len(a.order) : a.order[i] = c) - (IF Uncat \in Groups(a) THEN 0 ELSE 1)
    BY DEF SavedCats
  <2>2. CASE c = Uncat
    BY <2>1, <2>2
  <2>3. CASE c # Uncat
    <3> DEFINE n == CHOOSE i \in 1..Len(a.order) : a.order[i] = c
               k == IF Uncat \in Groups(a) THEN 0 ELSE 1
    <3>1. c \in ToSet(a.order) /\ IsList(a.order)
      BY <2>3 DEF TreeOK
    <3>2. n \in Int
      BY <1>1, <3>1
    <3>3. k \in Int
      OBVIOUS
    <3>4. SavedCats(a)[c] = n - k
      BY <2>1, <2>3
    <3> HIDE DEF n, k
    <3> QED
      BY <3>2, <3>3, <3>4
  <2> QED
    BY <2>2, <2>3
<1>3. ASSUME NEW m \in D PROVE SavedRows(a)[m].order \in Int
  <2> DEFINE c == CHOOSE h \in Groups(a) : m \in Nested(a, ToSet(a.items[h]))
             up == CHOOSE x \in D : m \in ToSet(a.under[x])
             p == IF \E x \in D : m \in ToSet(a.under[x]) THEN up ELSE NULL
             list == IF p = NULL THEN a.items[c] ELSE a.under[p]
  <2>1. SavedRows(a)[m] = [cat |-> c, order |-> (CHOOSE i \in 1..Len(list) : list[i] = m) - 1, parent |-> p]
    BY ItemsAre DEF SavedRows
  <2>2. IsList(list) /\ m \in ToSet(list)
    <3>1. CASE \E x \in D : m \in ToSet(a.under[x])
      <4>1. up \in D /\ m \in ToSet(a.under[up])
        BY <3>1
      <4>2. p = up
        BY <3>1
      <4> HIDE DEF up, p
      <4>3. p # NULL
        BY <4>1, <4>2, FiniteIds, NullAssumption DEF TreeOK
      <4>4. list = a.under[p]
        BY <4>3
      <4> HIDE DEF list
      <4> QED
        BY <4>1, <4>2, <4>4 DEF TreeOK
    <3>2. CASE ~\E x \in D : m \in ToSet(a.under[x])
      <4>1. list = a.items[c]
        BY <3>2
      <4>2. PICK h \in Groups(a) : m \in ToSet(a.items[h])
        BY <3>2 DEF TreeOK
      <4>3. m \in Nested(a, ToSet(a.items[h]))
        BY <4>2, NestedHolds
      <4>4. c \in Groups(a) /\ m \in Nested(a, ToSet(a.items[c]))
        BY <4>3
      <4> HIDE DEF c, list
      <4>5. /\ Nested(a, ToSet(a.items[c])) \in SUBSET D
            /\ m \in ToSet(a.items[c]) \/ \E x \in Nested(a, ToSet(a.items[c])) : m \in ToSet(a.under[x])
        BY <4>4, NestedHolds
      <4>6. m \in ToSet(a.items[c])
        BY <3>2, <4>5
      <4> QED
        BY <4>1, <4>4, <4>6 DEF TreeOK
    <3> QED
      BY <3>1, <3>2
  <2> HIDE DEF list, c, p
  <2> DEFINE n == CHOOSE i \in 1..Len(list) : list[i] = m
  <2>3. n \in Int
    BY <1>1, <2>2
  <2>4. SavedRows(a)[m].order = n - 1
    BY <2>1
  <2> HIDE DEF n
  <2> QED
    BY <2>3, <2>4
<1>4. DOMAIN SavedCats(a) = Groups(a) /\ DOMAIN SavedRows(a) = D
  BY ItemsAre DEF SavedCats, SavedRows
<1> QED
  BY <1>2, <1>3, <1>4

\* There is a greatest of finitely many numbers.
LEMMA NextPlaceIsNumber ==
  ASSUME NEW S \in SUBSET Int, IsFiniteSet(S), NEW pos, \A x \in S : pos[x] \in Int
  PROVE  NextPlace(S, pos) \in Int
<1> DEFINE B == Ahead(S, pos)
           n == Cardinality(S)
           V == {pos[x] : x \in S}
<1>1. CASE S = {}
  BY <1>1 DEF NextPlace
<1>2. CASE S # {}
  <2>0. IsFiniteSet(S)
    OBVIOUS
  <2>1. /\ \A x, y \in S : y \in B[x] <=> pos[y] < pos[x] \/ (pos[y] = pos[x] /\ y < x)
        /\ \A x \in S : B[x] \in SUBSET (S \ {x})
        /\ n \in Nat /\ \A k \in 0..(n - 1) : \E x \in S : Cardinality(B[x]) = k
    BY BeforeRuns DEF Numbered
  <2> HIDE DEF B
  <2>2. \A x \in S : x \in Int /\ pos[x] \in Int
    OBVIOUS
  <2>4. n # 0
    BY <1>2, FS_EmptySet
  <2>6. n - 1 \in 0..(n - 1)
    BY <2>1, <2>4
  <2>7. PICK x \in S : Cardinality(B[x]) = n - 1
    BY <2>1, <2>6
  <2>8. B[x] \in SUBSET (S \ {x})
    BY <2>1
  <2>9. IsFiniteSet(S \ {x}) /\ Cardinality(S \ {x}) = n - 1
    BY <2>0, FS_RemoveElement
  <2>10. B[x] = S \ {x}
    BY <2>7, <2>8, <2>9, FS_Subset
  <2>11. \A y \in S : pos[y] <= pos[x]
    BY <2>1, <2>2, <2>10
  <2>12. \E v \in V : \A y \in S : pos[y] <= v
    BY <2>11
  <2>13. (CHOOSE v \in V : \A y \in S : pos[y] <= v) \in V
    BY <2>12
  <2>14. V \in SUBSET Int
    OBVIOUS
  <2> DEFINE top == CHOOSE v \in V : \A y \in S : pos[y] <= v
  <2>15. NextPlace(S, pos) = 1 + top
    BY <1>2 DEF NextPlace
  <2>16. top \in Int
    BY <2>13, <2>14
  <2> HIDE DEF top
  <2> QED
    BY <2>15, <2>16
<1> QED
  BY <1>1, <1>2

-----------------------------------------------------------------------------
(* What each step keeps.                                                   *)

LEMMA SameStore ==
  ASSUME StoreOK, UNCHANGED service
  PROVE  StoreOK'
BY DEF StoreOK, service, StoredMetrics, StoredCats

LEMMA ReorderKeepsStore ==
  ASSUME StoreOK, NEW cats, \A c \in DOMAIN cats : cats[c] \in Int,
         NEW rows, \A m \in DOMAIN rows : rows[m].order \in Int,
         \A m \in DOMAIN rows : m \in StoredMetrics => rows[m].cat \in StoredCats,
         Reorder(cats, rows)
  PROVE  StoreOK'
<1>1. /\ DOMAIN catOrder' = DOMAIN catOrder /\ DOMAIN metricRow' = Metrics
      /\ \A c \in Cats \cup {Uncat} : catOrder'[c] = IF c \in DOMAIN cats /\ catOrder[c] # NULL THEN cats[c] ELSE catOrder[c]
      /\ \A m \in Metrics : metricRow'[m] = IF m \in DOMAIN rows /\ metricRow[m] # NULL THEN rows[m] ELSE metricRow[m]
  BY DEF Reorder, StoreOK
<1>2. \A c \in Cats \cup {Uncat} : c \in StoredCats => catOrder'[c] \in Int
  BY <1>1 DEF StoreOK, StoredCats
<1>3. \A c \in Cats \cup {Uncat} : catOrder'[c] # NULL => catOrder'[c] \in Int
  BY <1>1 DEF StoreOK, StoredCats
<1>4. StoredCats \subseteq StoredCats'
  BY <1>2, NullAssumption DEF StoredCats
<1>5. ASSUME NEW m \in Metrics, metricRow'[m] # NULL
      PROVE  metricRow'[m].order \in Int /\ metricRow'[m].cat \in StoredCats
  <2>1. metricRow[m] # NULL
    BY <1>1, <1>5
  <2>2. m \in StoredMetrics
    BY <2>1 DEF StoredMetrics
  <2> QED
    BY <1>1, <2>1, <2>2 DEF StoreOK
<1>6. \A c \in StoredCats' : catOrder'[c] \in Int
  BY <1>3 DEF StoredCats
<1>7. \A m \in StoredMetrics' : metricRow'[m].order \in Int /\ metricRow'[m].cat \in StoredCats'
  BY <1>4, <1>5 DEF StoredMetrics
<1>8. DOMAIN metricRow' = Metrics /\ DOMAIN catOrder' = Cats \cup {Uncat}
  BY <1>1 DEF StoreOK
<1> QED
  BY <1>6, <1>7, <1>8 DEF StoreOK

LEMMA InsertKeepsStore ==
  ASSUME StoreOK, NEW m \in Metrics, NEW c \in StoredCats, NEW p, InsertMetric(m, c, p), UNCHANGED catOrder
  PROVE  StoreOK'
<1> DEFINE siblings == {x \in StoredMetrics : metricRow[x].cat = c /\ metricRow[x].parent = p}
           pos == [x \in siblings |-> metricRow[x].order]
           new == [cat |-> c, order |-> NextPlace(siblings, pos), parent |-> p]
<1>1. metricRow' = [metricRow EXCEPT ![m] = new]
  BY DEF InsertMetric
<1>2. new.order \in Int /\ new.cat = c
  <2>1. siblings \in SUBSET Metrics /\ \A x \in siblings : pos[x] \in Int
    BY DEF StoredMetrics, StoreOK
  <2>2. siblings \in SUBSET Int /\ IsFiniteSet(siblings)
    BY <2>1, FiniteIds, FS_Subset
  <2> HIDE DEF siblings, pos
  <2>3. NextPlace(siblings, pos) \in Int
    BY <2>1, <2>2, NextPlaceIsNumber
  <2> QED
    BY <2>3
<1> HIDE DEF new
<1>3. StoredCats' = StoredCats
  BY DEF StoredCats
<1>4. /\ DOMAIN metricRow' = Metrics /\ metricRow'[m] = new
      /\ \A x \in Metrics \ {m} : metricRow'[x] = metricRow[x]
  BY <1>1 DEF StoreOK
<1>5. \A x \in StoredMetrics' : x = m \/ (x \in StoredMetrics /\ metricRow'[x] = metricRow[x])
  BY <1>4 DEF StoredMetrics
<1> QED
  BY <1>2, <1>3, <1>4, <1>5 DEF StoreOK

\* What is dropped, and maybe the category it was in.
LEMMA DropKeepsStore ==
  ASSUME StoreOK, NEW S, DropMetrics(S), NEW C, DOMAIN catOrder' = DOMAIN catOrder,
         \A c \in Cats \cup {Uncat} : catOrder'[c] = IF c \in C THEN NULL ELSE catOrder[c],
         \A m \in StoredMetrics : metricRow[m].cat \in C => m \in S
  PROVE  StoreOK'
<1>1. \A m \in StoredMetrics \cap S : m \in RowsUnder(S)
  BY DEF RowsUnder
<1>2. /\ DOMAIN metricRow' = Metrics
      /\ \A m \in Metrics : metricRow'[m] = IF m \in RowsUnder(S) THEN NULL ELSE metricRow[m]
  BY DEF DropMetrics
<1>3. \A m \in StoredMetrics' : m \in StoredMetrics /\ metricRow'[m] = metricRow[m] /\ m \notin S
  BY <1>1, <1>2 DEF StoredMetrics
<1>4. \A c \in StoredCats' : c \in StoredCats /\ catOrder'[c] = catOrder[c]
  BY DEF StoredCats
<1>5. \A c \in StoredCats : c \notin C => c \in StoredCats'
  BY DEF StoredCats
<1>6. \A m \in StoredMetrics' : metricRow'[m].order \in Int /\ metricRow'[m].cat \in StoredCats'
  BY <1>3, <1>5 DEF StoreOK
<1>7. \A c \in StoredCats' : catOrder'[c] \in Int
  BY <1>4 DEF StoreOK
<1>8. DOMAIN metricRow' = Metrics /\ DOMAIN catOrder' = Cats \cup {Uncat}
  BY <1>2 DEF StoreOK
<1> QED
  BY <1>6, <1>7, <1>8 DEF StoreOK

LEMMA JoinedAsked ==
  ASSUME NEW rs, Asked(rs), NEW more, Asked(more)
  PROVE  Asked(rs \o more)
<1> DEFINE j == rs \o more
           n == Len(rs)
           l == Len(more)
<1>1. /\ IsList(j) /\ Len(j) = n + l
      /\ \A i \in 1..n : j[i] = rs[i]
      /\ \A i \in 1..l : j[n + i] = more[i]
  BY ConcatList DEF Asked
<1>2. n \in Nat /\ l \in Nat
  BY DEF Asked, IsList
<1>3. \A i \in 1..n : RequestOK(rs[i])
  BY DEF Asked
<1>4. \A i \in 1..l : RequestOK(more[i])
  BY DEF Asked
<1> HIDE DEF j, n, l
<1>5. ASSUME NEW i \in 1..(n + l) PROVE RequestOK(j[i])
  <2>1. i \in 1..n \/ (i - n \in 1..l /\ n + (i - n) = i)
    BY <1>2
  <2>2. CASE i \in 1..n
    BY <1>1, <1>3, <2>2
  <2>3. CASE i - n \in 1..l /\ n + (i - n) = i
    <3>1. j[n + (i - n)] = more[i - n]
      BY <1>1, <2>3
    <3> QED
      BY <1>4, <2>3, <3>1
  <2> QED
    BY <2>1, <2>2, <2>3
<1>6. Asked(j)
  BY <1>1, <1>5 DEF Asked
<1> QED
  BY <1>6 DEF j

LEMMA ShortAsked ==
  /\ Asked(<<>>)
  /\ \A r : RequestOK(r) => Asked(<<r>>)
  /\ \A r, q : RequestOK(r) /\ RequestOK(q) => Asked(<<r, q>>)
<1>1. Asked(<<>>)
  <2>1. IsList(<<>>) /\ Len(<<>>) = 0
    BY EmptyList
  <2>2. \A i \in 1..0 : FALSE
    OBVIOUS
  <2> QED
    BY <2>1, <2>2 DEF Asked
<1>2. ASSUME NEW r, RequestOK(r) PROVE Asked(<<r>>)
  <2>1. IsList(<<r>>) /\ Len(<<r>>) = 1 /\ <<r>>[1] = r
    BY ShortLists
  <2>2. \A i \in 1..1 : i = 1
    OBVIOUS
  <2> DEFINE l == <<r>>
  <2>3. IsList(l) /\ Len(l) = 1 /\ l[1] = r
    BY <2>1
  <2> HIDE DEF l
  <2>4. Asked(l)
    BY <1>2, <2>2, <2>3 DEF Asked
  <2> QED
    BY <2>4 DEF l
<1>3. ASSUME NEW r, RequestOK(r), NEW q, RequestOK(q) PROVE Asked(<<r, q>>)
  <2>2. \A i \in 1..2 : i = 1 \/ i = 2
    OBVIOUS
  <2> DEFINE l == <<r, q>>
  <2>3. IsList(l) /\ Len(l) = 2 /\ l[1] = r /\ l[2] = q
    BY ShortLists
  <2> HIDE DEF l
  <2>4. Asked(l)
    BY <1>3, <2>2, <2>3 DEF Asked
  <2> QED
    BY <2>4 DEF l
<1> QED
  BY <1>1, <1>2, <1>3

LEMMA PlainRequest ==
  ASSUME NEW op, op \notin {"save", "addCategory"}, NEW x, NEW y
  PROVE  RequestOK(Request(op, x, y))
BY DEF RequestOK, Request

LEMMA SentAsked ==
  ASSUME Asked(wire), NEW r, RequestOK(r), Send(r)
  PROVE  Asked(wire')
<1>1. wire' = wire \o <<r>>
  BY AppendList DEF Send, Asked
<1>2. Asked(<<r>>)
  BY ShortAsked
<1>3. Asked(wire \o <<r>>)
  BY <1>2, JoinedAsked
<1> QED
  BY <1>1, <1>3

LEMMA ThenAsked ==
  ASSUME Asked(wire), wire # <<>>, NEW rs, Asked(rs), Then(rs)
  PROVE  Asked(wire') /\ RequestOK(Head1)
<1>1. /\ Len(wire) \in Nat \ {0} /\ IsList(Tail(wire)) /\ Len(Tail(wire)) = Len(wire) - 1
      /\ \A i \in 1..(Len(wire) - 1) : Tail(wire)[i] = wire[i + 1]
  BY TailList DEF Asked
<1>2. \A i \in 1..(Len(wire) - 1) : i + 1 \in 1..Len(wire)
  BY <1>1
<1>3. Asked(Tail(wire))
  BY <1>1, <1>2 DEF Asked
<1>4. Asked(Tail(wire) \o rs)
  BY <1>3, JoinedAsked
<1>5. 1 \in 1..Len(wire)
  BY <1>1
<1> QED
  BY <1>4, <1>5 DEF Then, Asked, Head1

LEMMA ToggledList ==
  ASSUME NEW ticks, IsList(ticks), NEW rows, IsList(rows)
  PROVE  IsList(Toggled(ticks, rows))
<1>1. IsList(Without(ticks, ToSet(rows))) /\ IsList(Without(rows, ToSet(ticks)))
  BY WithoutHolds
<1>2. IsList(ticks \o Without(rows, ToSet(ticks)))
  BY <1>1, ConcatHolds
<1> QED
  BY <1>1, <1>2 DEF Toggled

LEMMA FlattenedList ==
  ASSUME NEW a, TreeOK(a), NEW list
  PROVE  IsList(Flattened(a, list))
<1> DEFINE S == Nested(a, ToSet(list))
           l == Flattened(a, list)
           Over(x, y) ==
             \/ y \in Nested(a, {x})
             \/ \E r \in {list} \cup {a.under[z] : z \in S \cap DOMAIN a.under} : \E j \in 1..Len(r) : \E i \in 1..(j - 1) :
                  x \in Nested(a, {r[i]}) /\ y \in Nested(a, {r[j]})
           row(k) == CHOOSE y \in S : Cardinality({x \in S \ {y} : Over(x, y)}) = k - 1
<1>1. S \in SUBSET Metrics
  BY NestedHolds DEF TreeOK
<1>2. Cardinality(S) \in Nat
  <2> HIDE DEF S
  <2> QED
    BY <1>1, FiniteIds, FS_Subset, FS_CardinalityType
<1>5. l = [k \in 1..Cardinality(S) |-> row(k)]
  BY DEF Flattened
<1> HIDE DEF row, l, S
<1>3. l = [k \in 1..Cardinality(S) |-> l[k]]
  BY <1>5
<1>4. IsList(l)
  BY <1>2, <1>3, FunctionIsList
<1> QED
  BY <1>4 DEF l

LEMMA EmptyTree == TreeOK(Empty)
<1>1. IsList(<<>>) /\ Len(<<>>) = 0
  BY EmptyList
<1>2. DOMAIN <<>> = {}
  <2>1. DOMAIN <<>> = 1..0
    BY <1>1, ListDomain
  <2>2. 1..0 = {}
    OBVIOUS
  <2> QED
    BY <2>1, <2>2
<1>3. Empty.order = <<>> /\ Empty.items = <<>> /\ Empty.under = <<>>
  BY DEF Empty
<1>4. Groups(Empty) = {} /\ DOMAIN Empty.under = {}
  BY <1>2, <1>3 DEF Groups
<1>5. Empty = [order |-> Empty.order, items |-> Empty.items, under |-> Empty.under]
  BY DEF Empty
<1> QED
  BY <1>1, <1>3, <1>4, <1>5 DEF TreeOK

LEMMA QuietKeeps ==
  ASSUME TreeInv, UNCHANGED <<service, tree, picked>>, Asked(wire') \/ wire' = wire
  PROVE  TreeInv'
<1>1. StoreOK'
  BY SameStore DEF TreeInv
<1> QED
  BY <1>1 DEF TreeInv

LEMMA PicksKeep ==
  ASSUME TreeInv, UNCHANGED <<service, tree, wire>>, IsList(picked')
  PROVE  TreeInv'
<1>1. StoreOK'
  BY SameStore DEF TreeInv
<1> QED
  BY <1>1 DEF TreeInv

\* Where a drag puts what is dragged.
LEMMA DragIsMove ==
  ASSUME IsList(picked), NEW m, NEW c, NEW g, NEW at \in 0..MaxMetric, DragMetric(m, c, g, at)
  PROVE  \E ids, to : IsList(ids) /\ to \in Nat /\ ApplyMove(ids, g, to)
<1> DEFINE ids == Dragged(picked, m)
           to == DropIndex(tree, ids, c, g, at)
<1>1. IsList(ids)
  BY ShortLists DEF Dragged
<1>2. to \in Nat
  <2> DEFINE T == {i \in 1..at : i <= Len(tree.items[g]) /\ tree.items[g][i] \in ToSet(ids)}
  <2>1. at \in Nat /\ at \in Int /\ 1 \in Int
    BY TreeScreenAssumption
  <2>2. IsFiniteSet(1..at) /\ Cardinality(1..at) = at
    BY <2>1, FS_Interval
  <2>3. T \in SUBSET (1..at)
    OBVIOUS
  <2>4. to = at \/ to = at - Cardinality(T)
    BY DEF DropIndex
  <2> HIDE DEF T, to
  <2>5. Cardinality(T) \in Nat /\ Cardinality(T) <= at
    BY <2>2, <2>3, FS_Subset, FS_CardinalityType
  <2> QED
    BY <2>1, <2>4, <2>5
<1>3. ApplyMove(ids, g, to)
  BY DEF DragMetric
<1> HIDE DEF ids, to
<1> QED
  BY <1>1, <1>2, <1>3

\* What the user ticks, drags and asks for.
LEMMA UserKeepsTree ==
  ASSUME TreeInv
  PROVE  /\ \A m \in DOMAIN tree.under : TogglePick(m) \/ StartRename(m) \/ RenameMetric(m) \/ HideMetric(m)
                                         \/ DeleteMetric(m) \/ OpenFormula(m) => TreeInv'
         /\ \A c \in Groups(tree) : TogglePickCategory(c) \/ BulkMove(c) \/ RenameCategory(c) \/ HideCategory(c)
                                    \/ DeleteCategory(c) => TreeInv'
         /\ \A c, p : AddMetric(c, p) => TreeInv'
         /\ \A m \in DOMAIN tree.under, c, g \in Groups(tree), at \in 0..MaxMetric : DragMetric(m, c, g, at) => TreeInv'
         /\ \A from, to : DragCategory(from, to) => TreeInv'
         /\ ClearPicks \/ Save \/ AddCategory \/ CancelRename \/ ToggleSettings => TreeInv'
         /\ \A saved \in BOOLEAN : CloseFormula(saved) => TreeInv'
<1>0. TreeOK(tree) /\ StoreOK /\ IsList(picked) /\ Asked(wire) /\ IsList(<<>>)
  BY EmptyList DEF TreeInv
<1>1. ASSUME NEW m \in DOMAIN tree.under, TogglePick(m) PROVE TreeInv'
  <2>1. IsList(Toggled(picked, <<m>>))
    BY <1>0, ShortLists, ToggledList
  <2>2. picked' = Toggled(picked, <<m>>) /\ UNCHANGED <<service, tree, wire>>
    BY <1>1 DEF TogglePick
  <2> QED
    BY <2>1, <2>2, PicksKeep
<1>2. ASSUME NEW c \in Groups(tree), TogglePickCategory(c) PROVE TreeInv'
  <2> DEFINE all == Flattened(tree, tree.items[c])
  <2>1. IsList(all)
    BY <1>0, FlattenedList
  <2>2. picked' = Toggled(picked, all) /\ UNCHANGED <<service, tree, wire>>
    BY <1>2 DEF TogglePickCategory
  <2> HIDE DEF all
  <2>3. IsList(Toggled(picked, all))
    BY <1>0, <2>1, ToggledList
  <2> QED
    BY <2>2, <2>3, PicksKeep
<1>3. ASSUME ClearPicks PROVE TreeInv'
  <2>1. picked' = <<>> /\ UNCHANGED <<service, tree, wire>>
    BY <1>3 DEF ClearPicks
  <2> QED
    BY <1>0, <2>1, PicksKeep
<1>4. ASSUME ToggleSettings PROVE TreeInv'
  <2>1. (picked' = <<>> \/ picked' = picked) /\ UNCHANGED <<service, tree, wire>>
    BY <1>4 DEF ToggleSettings
  <2>2. IsList(picked')
    BY <1>0, <2>1
  <2> QED
    BY <2>1, <2>2, PicksKeep
<1>5. ASSUME NEW ids, IsList(ids), NEW c, NEW at \in Nat, ApplyMove(ids, c, at) PROVE TreeInv'
  <2>1. TreeOK(MoveItems(tree, ids, c, at))
    BY <1>0, <1>5, MoveKeepsTree
  <2>2. tree' = MoveItems(tree, ids, c, at) /\ picked' = <<>> /\ UNCHANGED <<service, wire>>
    BY <1>5 DEF ApplyMove
  <2>3. StoreOK'
    BY <1>0, <2>2, SameStore
  <2>4. TreeOK(tree') /\ IsList(picked') /\ Asked(wire')
    BY <1>0, <2>1, <2>2
  <2> QED
    BY <2>3, <2>4 DEF TreeInv
<1>6. ASSUME NEW c \in Groups(tree), BulkMove(c) PROVE TreeInv'
  <2>1. Len(tree.items[c]) \in Nat
    BY <1>0 DEF TreeOK, IsList
  <2>2. ApplyMove(picked, c, Len(tree.items[c]))
    BY <1>6 DEF BulkMove
  <2> QED
    BY <1>0, <1>5, <2>1, <2>2
<1>7. ASSUME NEW m \in DOMAIN tree.under, NEW c \in Groups(tree), NEW g \in Groups(tree), NEW at \in 0..MaxMetric,
             DragMetric(m, c, g, at)
      PROVE  TreeInv'
  BY <1>0, <1>5, <1>7, DragIsMove
<1>8. ASSUME NEW from, NEW to, DragCategory(from, to) PROVE TreeInv'
  <2>1. TreeOK(MoveGroup(tree, from, to))
    BY <1>0, MoveGroupKeepsTree
  <2>2. tree' = MoveGroup(tree, from, to) /\ picked' = picked /\ UNCHANGED <<service, wire>>
    BY <1>8 DEF DragCategory
  <2>3. StoreOK'
    BY <1>0, <2>2, SameStore
  <2>4. TreeOK(tree') /\ IsList(picked') /\ Asked(wire')
    BY <1>0, <2>1, <2>2
  <2> QED
    BY <2>3, <2>4 DEF TreeInv
<1>9. ASSUME NEW r, RequestOK(r), Send(r), UNCHANGED <<service, tree, picked>> PROVE TreeInv'
  <2>1. Asked(wire')
    BY <1>0, <1>9, SentAsked
  <2> QED
    BY <1>9, <2>1, QuietKeeps
<1>10. ASSUME Save PROVE TreeInv'
  <2> DEFINE r == Request("save", SavedCats(tree), SavedRows(tree))
  <2>1. RequestOK(r)
    BY <1>0, SavedAreNumbers DEF RequestOK, Request
  <2>2. Send(r) /\ UNCHANGED <<service, tree, picked>>
    BY <1>10 DEF Save, screen
  <2> HIDE DEF r
  <2> QED
    BY <1>9, <2>1, <2>2
<1>11. ASSUME AddCategory PROVE TreeInv'
  <2> DEFINE n == IF Uncat \in Groups(tree) THEN 2 ELSE 1
             l == Len(tree.order)
             r == Request("addCategory", l + n, NULL)
  <2>1. n \in Int /\ l \in Int
    BY <1>0 DEF TreeOK, IsList
  <2>2. Send(r) /\ UNCHANGED <<service, tree, picked>>
    BY <1>11 DEF AddCategory, screen
  <2> HIDE DEF n, l
  <2>3. RequestOK(r)
    BY <2>1 DEF RequestOK, Request
  <2> HIDE DEF r
  <2> QED
    BY <1>9, <2>2, <2>3
<1>12. ASSUME NEW op, op \notin {"save", "addCategory"}, NEW x, NEW y, Send(Request(op, x, y)),
              UNCHANGED <<service, tree, picked>>
       PROVE  TreeInv'
  <2>1. RequestOK(Request(op, x, y))
    BY <1>12, PlainRequest
  <2> QED
    BY <1>9, <1>12, <2>1
<1>13. ASSUME NEW c, NEW p, AddMetric(c, p) PROVE TreeInv'
  <2>1. Send(Request("addMetric", c, p)) /\ UNCHANGED <<service, tree, picked>>
    BY <1>13 DEF AddMetric, screen
  <2> QED
    BY <1>12, <2>1
<1>14. ASSUME NEW m, RenameMetric(m) PROVE TreeInv'
  <2>1. Send(Request("renameMetric", m, NULL)) /\ UNCHANGED <<service, tree, picked>>
    BY <1>14 DEF RenameMetric, screen
  <2> QED
    BY <1>12, <2>1
<1>15. ASSUME NEW m, HideMetric(m) PROVE TreeInv'
  <2>1. Send(Request("hideMetric", m, NULL)) /\ UNCHANGED <<service, tree, picked>>
    BY <1>15 DEF HideMetric, screen
  <2> QED
    BY <1>12, <2>1
<1>16. ASSUME NEW m, DeleteMetric(m) PROVE TreeInv'
  <2>1. Send(Request("deleteMetric", m, Nested(tree, {m}))) /\ UNCHANGED <<service, tree, picked>>
    BY <1>16 DEF DeleteMetric, screen
  <2> QED
    BY <1>12, <2>1
<1>17. ASSUME NEW c, RenameCategory(c) PROVE TreeInv'
  <2>1. Send(Request("renameCategory", c, NULL)) /\ UNCHANGED <<service, tree, picked>>
    BY <1>17 DEF RenameCategory, screen
  <2> QED
    BY <1>12, <2>1
<1>18. ASSUME NEW c, HideCategory(c) PROVE TreeInv'
  <2>1. Send(Request("hideCategory", c, NULL)) /\ UNCHANGED <<service, tree, picked>>
    BY <1>18 DEF HideCategory, screen
  <2> QED
    BY <1>12, <2>1
<1>19. ASSUME NEW c, DeleteCategory(c) PROVE TreeInv'
  <2>1. Send(Request("deleteCategory", c, NULL)) /\ UNCHANGED <<service, tree, picked>>
    BY <1>19 DEF DeleteCategory, screen
  <2> QED
    BY <1>12, <2>1
<1>20. ASSUME NEW m, StartRename(m) \/ OpenFormula(m) \/ CancelRename PROVE TreeInv'
  <2>1. UNCHANGED <<service, tree, picked, wire>>
    BY <1>20 DEF StartRename, OpenFormula, CancelRename
  <2> QED
    BY <2>1, QuietKeeps
<1>21. ASSUME NEW saved, CloseFormula(saved) PROVE TreeInv'
  <2>1. UNCHANGED <<service, tree, picked>> /\ (Send(Request("load", NULL, NULL)) \/ wire' = wire)
    BY <1>21 DEF CloseFormula, LoadRequest
  <2> QED
    BY <1>12, <2>1, QuietKeeps
<1>a. \A m \in DOMAIN tree.under : TogglePick(m) \/ StartRename(m) \/ RenameMetric(m) \/ HideMetric(m)
                                   \/ DeleteMetric(m) \/ OpenFormula(m) => TreeInv'
  BY <1>1, <1>14, <1>15, <1>16, <1>20
<1>b. \A c \in Groups(tree) : TogglePickCategory(c) \/ BulkMove(c) \/ RenameCategory(c) \/ HideCategory(c)
                              \/ DeleteCategory(c) => TreeInv'
  BY <1>2, <1>6, <1>17, <1>18, <1>19
<1>c. ClearPicks \/ Save \/ AddCategory \/ CancelRename \/ ToggleSettings => TreeInv'
  BY <1>3, <1>4, <1>10, <1>11, <1>20
<1> QED
  BY <1>a, <1>b, <1>c, <1>7, <1>8, <1>13, <1>21

\* What comes back.
LEMMA AnswerKeepsTree ==
  ASSUME TreeInv,
         AnswerLoad \/ AnswerSave \/ SaveBreaks \/ AnswerAddCategory \/ AnswerAddMetric \/ AnswerRenameMetric
         \/ AnswerRenameCategory \/ AnswerHide \/ AnswerDeleteMetric \/ AnswerDeleteCategory \/ Fail
  PROVE  TreeInv'
<1>0. TreeOK(tree) /\ StoreOK /\ IsList(picked) /\ Asked(wire) /\ IsList(<<>>)
  BY EmptyList DEF TreeInv
<1>1. /\ \A x, y : RequestOK(Request("load", x, y)) /\ RequestOK(LoadRequest)
      /\ Asked(<<>>) /\ Asked(<<LoadRequest>>)
      /\ \A x, y : Asked(<<LoadRequest, Request("load", x, y)>>)
  <2>1. \A x, y : RequestOK(Request("load", x, y))
    BY PlainRequest
  <2>2. RequestOK(LoadRequest)
    BY <2>1 DEF LoadRequest
  <2> QED
    BY <2>1, <2>2, ShortAsked
<1>2. ASSUME NEW rs, Asked(rs), wire # <<>>, Then(rs) PROVE Asked(wire') /\ RequestOK(Head1)
  BY <1>0, <1>2, ThenAsked
<1>3. ASSUME NEW rs, Asked(rs), wire # <<>>, Then(rs), UNCHANGED <<service, tree, picked>> PROVE TreeInv'
  BY <1>2, <1>3, QuietKeeps
<1>4. CASE AnswerLoad
  <2>1. Asked(wire')
    BY <1>1, <1>2, <1>4 DEF AnswerLoad, Taken
  <2>2. tree' = StoredTree /\ picked' = <<>> /\ UNCHANGED service
    BY <1>4 DEF AnswerLoad
  <2>3. StoreOK'
    BY <1>0, <2>2, SameStore
  <2>4. TreeOK(tree')
    BY <1>0, <2>2, StoredTreeOK
  <2> QED
    BY <1>0, <2>1, <2>2, <2>3, <2>4 DEF TreeInv
<1>5. ASSUME wire # <<>>, Head1.op = "save", RequestOK(Head1), NEW E \in SUBSET DOMAIN Head1.y,
             \A m \in E : ~Breaks(Head1.y, m), Reorder(Head1.x, [m \in E |-> Head1.y[m]])
      PROVE  StoreOK'
  <2> DEFINE rows == [m \in E |-> Head1.y[m]]
  <2>1. DOMAIN rows = E /\ \A m \in E : rows[m] = Head1.y[m] /\ rows[m].order \in Int
    BY <1>5 DEF RequestOK
  <2>2. \A c \in DOMAIN Head1.x : Head1.x[c] \in Int
    BY <1>5 DEF RequestOK
  <2>3. \A m \in E : m \in StoredMetrics => rows[m].cat \in StoredCats
    BY <1>5, <2>1 DEF Breaks
  <2>4. Reorder(Head1.x, rows)
    BY <1>5
  <2> HIDE DEF rows
  <2> QED
    BY <1>0, <2>1, <2>2, <2>3, <2>4, ReorderKeepsStore
<1>6. CASE AnswerSave
  <2>1. Asked(wire') /\ RequestOK(Head1)
    BY <1>1, <1>2, <1>6 DEF AnswerSave, Taken
  <2>2. /\ wire # <<>> /\ Head1.op = "save" /\ \A m \in DOMAIN Head1.y : ~Breaks(Head1.y, m)
        /\ Reorder(Head1.x, Head1.y) /\ UNCHANGED <<tree, picked>>
    BY <1>6 DEF AnswerSave, Taken, Head1
  <2>3. /\ \A c \in DOMAIN Head1.x : Head1.x[c] \in Int
        /\ \A m \in DOMAIN Head1.y : Head1.y[m].order \in Int
    BY <2>1, <2>2 DEF RequestOK
  <2>4. \A m \in DOMAIN Head1.y : m \in StoredMetrics => Head1.y[m].cat \in StoredCats
    BY <2>2 DEF Breaks
  <2>5. StoreOK'
    BY <1>0, <2>2, <2>3, <2>4, ReorderKeepsStore
  <2> QED
    BY <1>0, <2>1, <2>2, <2>5 DEF TreeInv
<1>7. CASE SaveBreaks
  <2>1. Asked(wire') /\ RequestOK(Head1) /\ wire # <<>> /\ Head1.op = "save"
    BY <1>1, <1>2, <1>7 DEF SaveBreaks, Taken, Head1
  <2>2. PICK E \in SUBSET {m \in DOMAIN Head1.y : ~Breaks(Head1.y, m)} : Reorder(Head1.x, [m \in E |-> Head1.y[m]])
    BY <1>7 DEF SaveBreaks
  <2>3. E \in SUBSET DOMAIN Head1.y /\ \A m \in E : ~Breaks(Head1.y, m)
    OBVIOUS
  <2>4. StoreOK'
    BY <1>5, <2>1, <2>2, <2>3
  <2>5. UNCHANGED <<tree, picked>>
    BY <1>7 DEF SaveBreaks, screen
  <2> QED
    BY <1>0, <2>1, <2>4, <2>5 DEF TreeInv
<1>8. CASE AnswerAddCategory
  <2>1. Asked(wire') /\ RequestOK(Head1) /\ Head1.op = "addCategory"
    BY <1>1, <1>2, <1>8 DEF AnswerAddCategory, Taken, Head1
  <2>2. PICK c \in Cats : catOrder' = [catOrder EXCEPT ![c] = Head1.x]
    BY <1>8 DEF AnswerAddCategory
  <2>3. UNCHANGED <<metricRow, tree, picked>>
    BY <1>8 DEF AnswerAddCategory, screen
  <2>4. Head1.x \in Int
    BY <2>1 DEF RequestOK
  <2>5. /\ DOMAIN catOrder' = Cats \cup {Uncat} /\ catOrder'[c] \in Int
        /\ \A d \in Cats \cup {Uncat} : catOrder'[d] = catOrder[d] \/ catOrder'[d] \in Int
    BY <1>0, <2>2, <2>4 DEF StoreOK
  <2>6. StoredCats \subseteq StoredCats' /\ \A d \in StoredCats' : catOrder'[d] \in Int
    BY <1>0, <2>5, NullAssumption DEF StoreOK, StoredCats
  <2>7. StoredMetrics' = StoredMetrics
    BY <2>3 DEF StoredMetrics
  <2>8. StoreOK'
    BY <1>0, <2>3, <2>5, <2>6, <2>7 DEF StoreOK
  <2> QED
    BY <1>0, <2>1, <2>3, <2>8 DEF TreeInv
<1>9. CASE AnswerAddMetric
  <2>1. Asked(wire')
    BY <1>1, <1>2, <1>9 DEF AnswerAddMetric, Taken
  <2>2. PICK m \in Metrics \ StoredMetrics : InsertMetric(m, Head1.x, Head1.y)
    BY <1>9 DEF AnswerAddMetric
  <2>3. UNCHANGED <<catOrder, tree, picked>> /\ Head1.x \in StoredCats /\ m \in Metrics
    BY <1>9 DEF AnswerAddMetric, screen
  <2>4. StoreOK'
    BY <1>0, <2>2, <2>3, InsertKeepsStore
  <2> QED
    BY <1>0, <2>1, <2>3, <2>4 DEF TreeInv
<1>10. CASE AnswerRenameMetric
  BY <1>1, <1>3, <1>10 DEF AnswerRenameMetric, Taken
<1>11. CASE AnswerRenameCategory
  BY <1>1, <1>3, <1>11 DEF AnswerRenameCategory, Taken, screen
<1>12. CASE AnswerHide
  BY <1>1, <1>3, <1>12 DEF AnswerHide, Taken, screen
<1>13. CASE AnswerDeleteMetric
  <2>1. Asked(wire')
    BY <1>1, <1>2, <1>13 DEF AnswerDeleteMetric, Taken
  <2>2. /\ DropMetrics({Head1.x}) /\ tree' = Removed({Head1.x}) /\ picked' = Without(picked, Head1.y)
        /\ catOrder' = catOrder
    BY <1>13 DEF AnswerDeleteMetric
  <2>3. TreeOK(tree')
    BY <1>0, <2>2, RemovedKeepsTree
  <2>4. IsList(picked')
    BY <1>0, <2>2, WithoutHolds
  <2>5. StoreOK'
    <3>1. /\ DOMAIN catOrder' = DOMAIN catOrder
          /\ \A c \in Cats \cup {Uncat} : catOrder'[c] = IF c \in {} THEN NULL ELSE catOrder[c]
      BY <2>2
    <3> QED
      BY <1>0, <2>2, <3>1, DropKeepsStore
  <2> QED
    BY <2>1, <2>3, <2>4, <2>5 DEF TreeInv
<1>14. CASE AnswerDeleteCategory
  <2> DEFINE S == {m \in StoredMetrics : metricRow[m].cat = Head1.x}
  <2>1. Asked(wire')
    BY <1>1, <1>2, <1>14 DEF AnswerDeleteCategory, Taken
  <2>2. DropMetrics(S) /\ catOrder' = [catOrder EXCEPT ![Head1.x] = NULL] /\ UNCHANGED <<tree, picked>>
    BY <1>14 DEF AnswerDeleteCategory
  <2>3. StoreOK'
    <3>1. /\ DOMAIN catOrder' = DOMAIN catOrder
          /\ \A c \in Cats \cup {Uncat} : catOrder'[c] = IF c \in {Head1.x} THEN NULL ELSE catOrder[c]
      BY <1>0, <2>2 DEF StoreOK
    <3>2. \A m \in StoredMetrics : metricRow[m].cat \in {Head1.x} => m \in S
      OBVIOUS
    <3> HIDE DEF S
    <3> QED
      BY <1>0, <2>2, <3>1, <3>2, DropKeepsStore
  <2> QED
    BY <1>0, <2>1, <2>2, <2>3 DEF TreeInv
<1>15. CASE Fail
  <2>1. PICK rs : Asked(rs) /\ Then(rs)
    <3> DEFINE rs == IF Head1.op \in {"hideMetric", "hideCategory", "deleteMetric"} THEN <<LoadRequest>> ELSE <<>>
    <3>1. Asked(rs)
      BY <1>1
    <3>2. Then(rs)
      BY <1>15 DEF Fail
    <3> QED
      BY <3>1, <3>2
  <2>2. (tree' = tree \/ tree' = Empty) /\ picked' = picked /\ UNCHANGED service /\ wire # <<>>
    BY <1>15 DEF Fail
  <2>3. Asked(wire')
    BY <1>2, <2>1, <2>2
  <2>4. StoreOK'
    BY <1>0, <2>2, SameStore
  <2>5. TreeOK(tree')
    BY <1>0, <2>2, EmptyTree
  <2> QED
    BY <1>0, <2>2, <2>3, <2>4, <2>5 DEF TreeInv
<1> QED
  BY <1>4, <1>6, <1>7, <1>8, <1>9, <1>10, <1>11, <1>12, <1>13, <1>14, <1>15

LEMMA InitTree == TreeScreenInit => TreeInv
<1> SUFFICES ASSUME TreeScreenInit PROVE TreeInv
  OBVIOUS
<1>1. TreeOK(tree) /\ IsList(picked)
  BY EmptyTree, EmptyList DEF TreeScreenInit
<1>2. Asked(wire)
  <2>1. RequestOK(LoadRequest)
    BY PlainRequest DEF LoadRequest
  <2> QED
    BY <2>1, ShortAsked DEF TreeScreenInit
<1>3. 1 \in Cats /\ Uncat # 1 /\ -1 # NULL /\ 1 # NULL
  BY TreeScreenAssumption, NullAssumption DEF Cats
<1>4. /\ DOMAIN catOrder = Cats \cup {Uncat} /\ catOrder[1] = 1
      /\ \A c \in Cats \cup {Uncat} : catOrder[c] = NULL \/ catOrder[c] \in Int
  <2>1. PICK u \in {-1, NULL} : catOrder = [c \in Cats \cup {Uncat} |-> IF c = Uncat THEN u ELSE IF c <= 2 THEN c ELSE NULL]
    BY DEF TreeScreenInit
  <2>2. \A c \in Cats : c \in Int
    BY FiniteIds
  <2>3. \A c \in Cats \cup {Uncat} : catOrder[c] = IF c = Uncat THEN u ELSE IF c <= 2 THEN c ELSE NULL
    BY <2>1
  <2>4. 1 <= 2 /\ 1 \in Cats \cup {Uncat} /\ (u = NULL \/ u \in Int)
    BY <1>3
  <2>5. catOrder[1] = 1
    BY <1>3, <2>3, <2>4
  <2>6. \A c \in Cats \cup {Uncat} : catOrder[c] = NULL \/ catOrder[c] \in Int
    BY <2>2, <2>3, <2>4
  <2> QED
    BY <2>1, <2>5, <2>6
<1>5. /\ DOMAIN metricRow = Metrics
      /\ \A m \in Metrics : metricRow[m] = NULL \/ (metricRow[m].order = 0 /\ metricRow[m].cat = 1)
  BY DEF TreeScreenInit
<1>6. 1 \in StoredCats /\ \A c \in StoredCats : catOrder[c] \in Int
  BY <1>3, <1>4 DEF StoredCats
<1>7. StoreOK
  BY <1>4, <1>5, <1>6 DEF StoreOK, StoredMetrics
<1> QED
  BY <1>1, <1>2, <1>7 DEF TreeInv

-----------------------------------------------------------------------------
(* Dropped rows come to lie where they were dropped, in the order picked,  *)
(* and the other rows keep theirs, in any tree (onDragEnd and              *)
(* moveMetricsInTree): the step that takes the dragged rows out leaves     *)
(* those before the drop, and the corrected index is their number.         *)

THEOREM DropsLand == MCSpec => []DropExact
<1>1. MCInit => TreeInv
  BY InitTree DEF MCInit
<1>2. TreeInv /\ [MCNext]_<<tsvars, osvars, open>> => TreeInv'
  <2> SUFFICES ASSUME TreeInv, [MCNext]_<<tsvars, osvars, open>> PROVE TreeInv'
    OBVIOUS
  <2>1. CASE TreeScreenNext
    BY <2>1, UserKeepsTree, AnswerKeepsTree DEF TreeScreenNext
  <2>2. CASE UNCHANGED tsvars
    <3>1. UNCHANGED <<service, tree, picked, wire>>
      BY <2>2 DEF tsvars, service
    <3> QED
      BY <3>1, QuietKeeps
  <2> QED
    BY <2>1, <2>2 DEF MCNext
<1>3. TreeInv => DropExact
  BY DropLands DEF TreeInv, DropExact
<1> QED
  BY <1>1, <1>2, <1>3, PTL DEF MCSpec

-----------------------------------------------------------------------------
(* Lists without repetition.                                               *)

Distinct(s) == \A i, j \in 1..Len(s) : s[i] = s[j] => i = j

LEMMA KeptDistinct ==
  ASSUME NEW s, Distinct(s), NEW P \in SUBSET (1..Len(s)), NEW f, NEW t, Counts(f, Len(t), P),
         \A k \in 1..Len(t) : t[k] = s[f[k]]
  PROVE  Distinct(t)
<1> SUFFICES ASSUME NEW k \in 1..Len(t), NEW l \in 1..Len(t), t[k] = t[l] PROVE k = l
  BY DEF Distinct
<1>1. f[k] \in 1..Len(s) /\ f[l] \in 1..Len(s) /\ f[k] \in Nat /\ f[l] \in Nat /\ Len(t) \in Nat
  BY DEF Counts
<1>2. f[k] = f[l]
  BY <1>1 DEF Distinct
<1>3. ~(k < l) /\ ~(l < k)
  BY <1>1, <1>2 DEF Counts
<1> QED
  BY <1>1, <1>3

LEMMA FilterDistinct ==
  ASSUME NEW s, IsList(s), Distinct(s), NEW S
  PROVE  Distinct(Without(s, S)) /\ Distinct(Only(s, S))
<1> DEFINE P == {i \in 1..Len(s) : s[i] \in S}
           t == Only(s, S)
<1>1. Distinct(Without(s, S))
  <2>1. PICK f : /\ Counts(f, Len(Without(s, S)), KeptAt(s, S))
                 /\ \A k \in 1..Len(Without(s, S)) : Without(s, S)[k] = s[f[k]]
    BY KeptPlaces
  <2>2. KeptAt(s, S) \in SUBSET (1..Len(s))
    BY DEF KeptAt
  <2> QED
    BY <2>1, <2>2, KeptDistinct
<1>2. Distinct(t)
  <2>1. Len(s) \in Nat /\ P \in SUBSET (1..Len(s))
    BY DEF IsList
  <2>2. t = Sublist(s, P)
    BY DEF Only
  <2> HIDE DEF P, t
  <2>3. PICK f : Counts(f, Cardinality(P), P)
    BY <2>1, PlacesCount
  <2>4. Len(t) = Cardinality(P) /\ \A k \in 1..Cardinality(P) : t[k] = s[f[k]]
    BY <2>2, <2>3, SublistIs
  <2> QED
    BY <2>1, <2>3, <2>4, KeptDistinct
<1> QED
  BY <1>1, <1>2

LEMMA JoinDistinct ==
  ASSUME NEW s, IsList(s), NEW t, IsList(t)
  PROVE  Distinct(s \o t) <=> Distinct(s) /\ Distinct(t) /\ ToSet(s) \cap ToSet(t) = {}
<1> DEFINE j == s \o t
           n == Len(s)
           l == Len(t)
<1>1. /\ IsList(j) /\ Len(j) = n + l
      /\ \A i \in 1..n : j[i] = s[i]
      /\ \A i \in 1..l : j[n + i] = t[i]
  BY ConcatList
<1>2. n \in Nat /\ l \in Nat
  BY DEF IsList
<1>3. ToSet(s) = {s[i] : i \in 1..n} /\ ToSet(t) = {t[i] : i \in 1..l}
  BY ListDomain
<1> HIDE DEF j
<1>4. ASSUME Distinct(j) PROVE Distinct(s) /\ Distinct(t) /\ ToSet(s) \cap ToSet(t) = {}
  <2>1. \A i \in 1..n, k \in 1..n : s[i] = s[k] => i = k
    BY <1>1, <1>2, <1>4 DEF Distinct
  <2>2. ASSUME NEW i \in 1..l, NEW k \in 1..l, t[i] = t[k] PROVE i = k
    <3>1. n + i \in 1..(n + l) /\ n + k \in 1..(n + l)
      BY <1>2
    <3>2. n + i = n + k
      BY <1>1, <1>4, <2>2, <3>1 DEF Distinct
    <3> QED
      BY <1>2, <3>2
  <2>3. ASSUME NEW i \in 1..n, NEW k \in 1..l, s[i] = t[k] PROVE FALSE
    <3>1. i \in 1..(n + l) /\ n + k \in 1..(n + l) /\ i # n + k
      BY <1>2
    <3>2. j[i] = j[n + k]
      BY <1>1, <2>3
    <3> QED
      BY <1>1, <1>4, <3>1, <3>2 DEF Distinct
  <2> QED
    BY <1>3, <2>1, <2>2, <2>3 DEF Distinct
<1>5. ASSUME Distinct(s), Distinct(t), ToSet(s) \cap ToSet(t) = {} PROVE Distinct(j)
  <2> SUFFICES ASSUME NEW i \in 1..(n + l), NEW k \in 1..(n + l), j[i] = j[k] PROVE i = k
    BY <1>1 DEF Distinct
  <2>1. \A x \in 1..(n + l) : (x \in 1..n /\ j[x] \in ToSet(s))
                              \/ (x - n \in 1..l /\ x = n + (x - n) /\ j[x] = t[x - n] /\ j[x] \in ToSet(t))
    <3> SUFFICES ASSUME NEW x \in 1..(n + l), x \notin 1..n
                 PROVE  x - n \in 1..l /\ x = n + (x - n) /\ j[x] = t[x - n] /\ j[x] \in ToSet(t)
      BY <1>1, <1>3
    <3>1. x - n \in 1..l /\ x = n + (x - n)
      BY <1>2
    <3> QED
      BY <1>1, <1>3, <3>1
  <2>2. CASE i \in 1..n /\ k \in 1..n
    BY <1>1, <1>5, <2>2 DEF Distinct
  <2>3. CASE i \notin 1..n /\ k \notin 1..n
    <3>1. i - n = k - n
      BY <1>5, <2>1, <2>3 DEF Distinct
    <3> QED
      BY <1>2, <3>1
  <2>4. CASE i \in 1..n /\ k \notin 1..n
    BY <1>5, <2>1, <2>4
  <2>5. CASE i \notin 1..n /\ k \in 1..n
    BY <1>5, <2>1, <2>5
  <2> QED
    BY <2>2, <2>3, <2>4, <2>5
<1> QED
  BY <1>4, <1>5 DEF j

LEMMA SpliceDistinct ==
  ASSUME NEW s, IsList(s), Distinct(s), NEW t, IsList(t), Distinct(t), ToSet(s) \cap ToSet(t) = {},
         NEW at \in Nat
  PROVE  Distinct(SpliceIn(s, at, t))
<1> DEFINE n == IF at > Len(s) THEN Len(s) ELSE at
           a == SubSeq(s, 1, n)
           b == SubSeq(s, n + 1, Len(s))
<1>1. n \in 0..Len(s)
  BY DEF IsList
<1>2. SpliceIn(s, at, t) = (a \o t) \o b
  BY DEF SpliceIn
<1> HIDE DEF n
<1>3. IsList(a) /\ IsList(b) /\ a \o b = s
  BY <1>1, CutList, JoinedAgain
<1> HIDE DEF a, b
<1>4. ToSet(s) = ToSet(a) \cup ToSet(b) /\ Distinct(a) /\ Distinct(b) /\ ToSet(a) \cap ToSet(b) = {}
  BY <1>3, ConcatHolds, JoinDistinct
<1>5. IsList(a \o t) /\ ToSet(a \o t) = ToSet(a) \cup ToSet(t)
  BY <1>3, ConcatHolds
<1>6. Distinct(a \o t)
  BY <1>3, <1>4, JoinDistinct
<1>7. ToSet(a \o t) \cap ToSet(b) = {}
  BY <1>4, <1>5
<1> QED
  BY <1>2, <1>3, <1>4, <1>5, <1>6, <1>7, JoinDistinct

LEMMA OneInList ==
  ASSUME NEW x
  PROVE  IsList(<<x>>) /\ ToSet(<<x>>) = {x} /\ Distinct(<<x>>)
<1>1. IsList(<<x>>) /\ Len(<<x>>) = 1 /\ <<x>>[1] = x
  BY ShortLists
<1>2. ToSet(<<x>>) = {<<x>>[i] : i \in 1..Len(<<x>>)}
  BY <1>1, ListDomain
<1>3. 1..1 = {1}
  OBVIOUS
<1> QED
  BY <1>1, <1>2, <1>3 DEF Distinct

\* One of a list is taken out and put in elsewhere.
LEMMA OneMoved ==
  ASSUME NEW s, IsList(s), NEW from \in 0..(Len(s) - 1), NEW to \in Nat,
         NEW t, t = SpliceIn(RemoveAt(s, from + 1), to, <<s[from + 1]>>)
  PROVE  IsList(t) /\ ToSet(t) = ToSet(s) /\ (Distinct(s) => Distinct(t))
<1> DEFINE n == Len(s)
           x == s[from + 1]
           p == SubSeq(s, 1, from)
           q == SubSeq(s, (from + 1) + 1, n)
           pp == SubSeq(s, 1, from + 1)
           rest == RemoveAt(s, from + 1)
<1>1. n \in Nat
  BY DEF IsList
<1>2. from + 1 \in 1..n /\ from \in Nat /\ from \in 0..n /\ from + 1 \in 0..n /\ (from + 1) - 1 = from
  BY <1>1
<1>3. rest = p \o q
  BY <1>2 DEF RemoveAt
<1>4. IsList(p) /\ Len(p) = from /\ \A i \in 1..from : p[i] = s[i]
  BY <1>2, CutList
<1>5. /\ IsList(pp) /\ Len(pp) = from + 1 /\ (\A i \in 1..(from + 1) : pp[i] = s[i])
      /\ IsList(q) /\ pp \o q = s
  BY <1>2, CutList, JoinedAgain
<1> HIDE DEF p, q, pp, rest, n
<1>6. pp = p \o <<x>>
  <2> HIDE DEF x
  <2>1. /\ IsList(p \o <<x>>) /\ Len(p \o <<x>>) = from + 1
        /\ \A i \in 1..from : (p \o <<x>>)[i] = p[i]
        /\ (p \o <<x>>)[from + 1] = x
    BY <1>4, OneMore
  <2>2. \A i \in 1..(from + 1) : (p \o <<x>>)[i] = pp[i]
    <3> SUFFICES ASSUME NEW i \in 1..(from + 1) PROVE (p \o <<x>>)[i] = pp[i]
      OBVIOUS
    <3>1. CASE i \in 1..from
      BY <1>4, <1>5, <2>1, <3>1
    <3>2. CASE i = from + 1
      BY <1>5, <2>1, <3>2 DEF x
    <3>3. i \in 1..from \/ i = from + 1
      BY <1>2
    <3> QED
      BY <3>1, <3>2, <3>3
  <2> QED
    BY <1>5, <2>1, <2>2, SameList
<1>7. t = SpliceIn(rest, to, <<x>>)
  BY DEF rest, x
<1> HIDE DEF x
<1>8. IsList(<<x>>) /\ ToSet(<<x>>) = {x} /\ Distinct(<<x>>)
  BY OneInList
<1>9. IsList(rest) /\ ToSet(rest) = ToSet(p) \cup ToSet(q)
  BY <1>3, <1>4, <1>5, ConcatHolds
<1>10. ToSet(s) = ToSet(p) \cup {x} \cup ToSet(q)
  <2>1. IsList(pp) /\ ToSet(pp) = ToSet(p) \cup ToSet(<<x>>)
    BY <1>4, <1>6, <1>8, ConcatHolds
  <2>2. ToSet(pp \o q) = ToSet(pp) \cup ToSet(q)
    BY <1>5, <2>1, ConcatHolds
  <2> QED
    BY <1>5, <1>8, <2>1, <2>2
<1>11. IsList(t) /\ ToSet(t) = ToSet(rest) \cup {x}
  <2>1. ToSet(t) = ToSet(rest) \cup ToSet(<<x>>) /\ IsList(t)
    <3> DEFINE one == <<x>>
    <3>1. t = SpliceIn(rest, to, one) /\ IsList(one)
      BY <1>7, <1>8
    <3> HIDE DEF one
    <3>2. IsList(SpliceIn(rest, to, one)) /\ ToSet(SpliceIn(rest, to, one)) = ToSet(rest) \cup ToSet(one)
      BY <1>9, <3>1, SpliceHolds
    <3> QED
      BY <3>1, <3>2 DEF one
  <2> QED
    BY <1>8, <2>1
<1>12. ASSUME Distinct(s) PROVE Distinct(t)
  <2>1. Distinct(pp) /\ Distinct(q) /\ ToSet(pp) \cap ToSet(q) = {}
    BY <1>5, <1>12, JoinDistinct
  <2>2. Distinct(p) /\ ToSet(p) \cap {x} = {} /\ ToSet(pp) = ToSet(p) \cup {x}
    BY <1>4, <1>6, <1>8, <2>1, JoinDistinct, ConcatHolds
  <2>3. Distinct(rest)
    BY <1>3, <1>4, <1>5, <2>1, <2>2, JoinDistinct
  <2>4. ToSet(rest) \cap ToSet(<<x>>) = {}
    BY <1>8, <1>9, <2>1, <2>2
  <2> QED
    BY <1>7, <1>8, <1>9, <2>3, <2>4, SpliceDistinct
<1> QED
  BY <1>9, <1>10, <1>11, <1>12

-----------------------------------------------------------------------------
(* Sorting, and joining a list of lists.                                   *)

\* The first n of a list without repetition are n.
LEMMA FirstCount ==
  ASSUME NEW s, IsList(s), Distinct(s), NEW n \in 0..Len(s)
  PROVE  /\ IsFiniteSet({s[i] : i \in 1..n}) /\ Cardinality({s[i] : i \in 1..n}) = n
<1> DEFINE S == {s[i] : i \in 1..n}
           f == [i \in 1..n |-> s[i]]
<1>1. n \in Nat /\ \A i \in 1..n : i \in 1..Len(s)
  BY DEF IsList
<1>2. IsFiniteSet(1..n) /\ Cardinality(1..n) = n
  <2>1. 1 \in Int /\ n \in Int
    BY <1>1
  <2>2. IsFiniteSet(1..n) /\ Cardinality(1..n) = IF 1 > n THEN 0 ELSE n - 1 + 1
    BY <2>1, FS_Interval
  <2> QED
    BY <1>1, <2>2
<1>3. f \in [1..n -> S] /\ \A x \in S : \E i \in 1..n : f[i] = x
  OBVIOUS
<1>4. \A i, j \in 1..n : f[i] = f[j] => i = j
  BY <1>1 DEF Distinct
<1> HIDE DEF f, S
<1>5. f \in Bijection(1..n, S)
  BY <1>3, <1>4 DEF Bijection, Injection, IsInjective, Surjection
<1>6. ExistsBijection(1..n, S)
  BY <1>5 DEF ExistsBijection
<1>7. IsFiniteSet(S) /\ Cardinality(S) = n
  BY <1>2, <1>6, FS_Bijection
<1> QED
  BY <1>7 DEF S

LEMMA SortedRanks ==
  ASSUME NEW S \in SUBSET Int, IsFiniteSet(S), NEW pos, \A x \in S : pos[x] \in Int,
         NEW B, B = Ahead(S, pos), NEW n, n = Cardinality(S), NEW l, l = Sorted(S, pos)
  PROVE  /\ n \in Nat /\ IsList(l) /\ Len(l) = n
         /\ \A i \in 1..n : l[i] \in S /\ Cardinality(B[l[i]]) = i - 1
<1> DEFINE at(i) == CHOOSE x \in S : Cardinality(B[x]) = i - 1
<1>1. l = [i \in 1..n |-> CHOOSE x \in S :
             Cardinality({y \in S : pos[y] < pos[x] \/ (pos[y] = pos[x] /\ y < x)}) = i - 1]
  BY DEF Sorted
<1>2. \A x \in S : B[x] = {y \in S : pos[y] < pos[x] \/ (pos[y] = pos[x] /\ y < x)}
  BY DEF Ahead
<1>3. ASSUME NEW i \in 1..n
      PROVE  (CHOOSE x \in S : Cardinality({y \in S : pos[y] < pos[x] \/ (pos[y] = pos[x] /\ y < x)}) = i - 1)
               = at(i)
  BY <1>2
<1>4. n \in Nat /\ \A k \in 0..(n - 1) : \E x \in S : Cardinality(B[x]) = k
  BY BeforeRuns DEF Numbered
<1>5. ASSUME NEW i \in 1..n PROVE at(i) \in S /\ Cardinality(B[at(i)]) = i - 1
  <2>1. i - 1 \in 0..(n - 1)
    BY <1>4
  <2>2. \E x \in S : Cardinality(B[x]) = i - 1
    BY <1>4, <2>1
  <2> QED
    BY <2>2
<1> HIDE DEF at
<1>6. l = [i \in 1..n |-> at(i)]
  BY <1>1, <1>3
<1>7. l = [i \in 1..n |-> l[i]] /\ \A i \in 1..n : l[i] = at(i)
  BY <1>6
<1>8. IsList(l) /\ Len(l) = n
  BY <1>4, <1>7, FunctionIsList
<1> QED
  BY <1>4, <1>5, <1>7, <1>8

LEMMA SortedDistinct ==
  ASSUME NEW S \in SUBSET Int, IsFiniteSet(S), NEW pos, \A x \in S : pos[x] \in Int
  PROVE  Distinct(Sorted(S, pos))
<1> DEFINE B == Ahead(S, pos)
           n == Cardinality(S)
           l == Sorted(S, pos)
<1>0. B = Ahead(S, pos) /\ n = Cardinality(S) /\ l = Sorted(S, pos)
  OBVIOUS
<1> HIDE DEF B, n, l
<1>1. n \in Nat /\ Len(l) = n /\ \A i \in 1..n : Cardinality(B[l[i]]) = i - 1
  BY <1>0, SortedRanks
<1>2. \A i, j \in 1..n : l[i] = l[j] => i = j
  BY <1>1
<1> QED
  BY <1>1, <1>2 DEF Distinct, l

\* A list in the order of the positions, and of the numbers where those are equal, is the sorted one.
LEMMA OrderedIsSorted ==
  ASSUME NEW s, IsList(s), Distinct(s), ToSet(s) \in SUBSET Int, NEW pos, \A x \in ToSet(s) : pos[x] \in Int,
         \A i, j \in 1..Len(s) : i < j => pos[s[i]] < pos[s[j]] \/ (pos[s[i]] = pos[s[j]] /\ s[i] < s[j])
  PROVE  Sorted(ToSet(s), pos) = s
<1> DEFINE S == ToSet(s)
           n == Len(s)
           B == Ahead(S, pos)
           l == Sorted(S, pos)
<1>1. n \in Nat /\ S = {s[i] : i \in 1..n}
  BY ListDomain
<1>2. IsFiniteSet(S) /\ Cardinality(S) = n
  <2>1. n \in 0..Len(s)
    BY <1>1
  <2>2. IsFiniteSet({s[i] : i \in 1..n}) /\ Cardinality({s[i] : i \in 1..n}) = n
    BY <2>1, FirstCount
  <2> QED
    BY <1>1, <2>2
<1>3. S \in SUBSET Int /\ \A x \in S : pos[x] \in Int
  OBVIOUS
<1>4. \A i, j \in 1..n : i < j => pos[s[i]] < pos[s[j]] \/ (pos[s[i]] = pos[s[j]] /\ s[i] < s[j])
  OBVIOUS
<1> HIDE DEF S, B, l
<1>5. /\ \A x, y \in S : y \in B[x] <=> pos[y] < pos[x] \/ (pos[y] = pos[x] /\ y < x)
      /\ \A x \in S : B[x] \in SUBSET (S \ {x})
      /\ \A x, y \in S : Cardinality(B[x]) = Cardinality(B[y]) => x = y
  BY <1>2, <1>3, BeforeRuns DEF Numbered, B
<1>6. /\ IsList(l) /\ Len(l) = n
      /\ \A i \in 1..n : l[i] \in S /\ Cardinality(B[l[i]]) = i - 1
  BY <1>2, <1>3, SortedRanks DEF B, l
<1>7. ASSUME NEW i \in 1..n PROVE s[i] \in S /\ Cardinality(B[s[i]]) = i - 1
  <2>1. s[i] \in S /\ i - 1 \in 0..n /\ 1..(i - 1) \subseteq 1..n
    BY <1>1
  <2>2. ASSUME NEW j \in 1..n PROVE s[j] \in B[s[i]] <=> j < i
    <3>1. s[j] \in S /\ s[j] \in Int /\ s[i] \in Int /\ pos[s[j]] \in Int /\ pos[s[i]] \in Int
      BY <1>1, <1>3, <2>1
    <3>2. CASE j < i
      BY <1>4, <1>5, <2>1, <3>1, <3>2
    <3>3. CASE i < j
      BY <1>4, <1>5, <2>1, <3>1, <3>3
    <3>4. CASE i = j
      BY <1>5, <2>1, <3>4
    <3> QED
      BY <1>1, <3>2, <3>3, <3>4
  <2>3. B[s[i]] = {s[j] : j \in 1..(i - 1)}
    <3>1. ASSUME NEW x \in B[s[i]] PROVE x \in {s[j] : j \in 1..(i - 1)}
      <4>1. x \in S
        BY <1>5, <2>1
      <4>2. PICK j \in 1..n : x = s[j]
        BY <1>1, <4>1
      <4>3. j < i
        BY <2>2, <4>2
      <4>4. j \in 1..(i - 1)
        BY <1>1, <4>3
      <4> QED
        BY <4>2, <4>4
    <3>2. ASSUME NEW j \in 1..(i - 1) PROVE s[j] \in B[s[i]]
      <4>1. j \in 1..n /\ j < i
        BY <1>1, <2>1
      <4> QED
        BY <2>2, <4>1
    <3> QED
      BY <3>1, <3>2
  <2>4. Cardinality({s[j] : j \in 1..(i - 1)}) = i - 1
    BY <2>1, FirstCount
  <2> QED
    BY <2>1, <2>3, <2>4
<1>8. \A i \in 1..n : l[i] = s[i]
  BY <1>5, <1>6, <1>7
<1>9. l = s
  BY <1>6, <1>8, SameList
<1> QED
  BY <1>9 DEF l, S

\* So is one whose positions ascend.
LEMMA AscendingIsSorted ==
  ASSUME NEW s, IsList(s), Distinct(s), ToSet(s) \in SUBSET Int, NEW pos, \A x \in ToSet(s) : pos[x] \in Int,
         \A i, j \in 1..Len(s) : i < j => pos[s[i]] < pos[s[j]]
  PROVE  Sorted(ToSet(s), pos) = s
<1>1. \A i, j \in 1..Len(s) : i < j => pos[s[i]] < pos[s[j]] \/ (pos[s[i]] = pos[s[j]] /\ s[i] < s[j])
  OBVIOUS
<1> QED
  BY <1>1, OrderedIsSorted

\* Of finitely many with positions one comes first and one last.
LEMMA EndsAre ==
  ASSUME NEW S \in SUBSET Int, IsFiniteSet(S), S # {}, NEW pos, \A x \in S : pos[x] \in Int
  PROVE  /\ \E x \in S : \A y \in S : pos[x] <= pos[y]
         /\ \E x \in S : \A y \in S : pos[y] <= pos[x]
<1> DEFINE B == Ahead(S, pos)
           n == Cardinality(S)
<1> HIDE DEF B, n
<1>1. /\ \A x, y \in S : y \in B[x] <=> pos[y] < pos[x] \/ (pos[y] = pos[x] /\ y < x)
      /\ \A x \in S : B[x] \in SUBSET (S \ {x})
      /\ n \in Nat /\ \A k \in 0..(n - 1) : \E x \in S : Cardinality(B[x]) = k
  BY BeforeRuns DEF Numbered, B, n
<1>2. \A x \in S : x \in Int /\ pos[x] \in Int
  OBVIOUS
<1>3. n # 0
  BY FS_EmptySet DEF n
<1>4. 0 \in 0..(n - 1) /\ n - 1 \in 0..(n - 1)
  BY <1>1, <1>3
<1>5. \E x \in S : \A y \in S : pos[y] <= pos[x]
  <2>1. PICK x \in S : Cardinality(B[x]) = n - 1
    BY <1>1, <1>4
  <2>2. IsFiniteSet(S \ {x}) /\ Cardinality(S \ {x}) = n - 1
    BY FS_RemoveElement DEF n
  <2>3. B[x] = S \ {x}
    BY <1>1, <2>1, <2>2, FS_Subset
  <2> QED
    BY <1>1, <1>2, <2>3
<1>6. \E x \in S : \A y \in S : pos[x] <= pos[y]
  <2>1. PICK x \in S : Cardinality(B[x]) = 0
    BY <1>1, <1>4
  <2>2. IsFiniteSet(B[x])
    BY <1>1, FS_Subset
  <2>3. B[x] = {}
    BY <2>1, <2>2, FS_EmptySet
  <2>4. ASSUME NEW y \in S PROVE pos[x] <= pos[y]
    <3>1. ~(pos[y] < pos[x]) /\ pos[x] \in Int /\ pos[y] \in Int
      BY <1>1, <1>2, <2>3
    <3> QED
      BY <3>1
  <2> QED
    BY <2>4
<1> QED
  BY <1>5, <1>6

\* All lists of a list, one behind the other.
LEMMA FlatHolds ==
  ASSUME NEW ss, IsList(ss), \A i \in 1..Len(ss) : IsList(ss[i])
  PROVE  /\ IsList(FlattenSeq(ss))
         /\ ToSet(FlattenSeq(ss)) = UNION {ToSet(ss[i]) : i \in 1..Len(ss)}
<1> DEFINE n == Len(ss)
           Every(k) == UNION {ToSet(ss[i]) : i \in 1..k}
           step(f, i) == IF i = 1 THEN ss[i] ELSE f[i - 1] \o ss[i]
           whole(f) == f = [i \in 1..n |-> step(f, i)]
           built(k) == \E f : f = [i \in 1..k |-> f[i]]
                              /\ \A i \in 1..k : f[i] = step(f, i) /\ IsList(f[i]) /\ ToSet(f[i]) = Every(i)
<1>1. n \in Nat
  BY DEF IsList
<1>2. CASE n = 0
  <2>1. FlattenSeq(ss) = ss
    BY <1>2 DEF FlattenSeq
  <2>2. ToSet(ss) = {} /\ Every(n) = {}
    <3>1. 1..0 = {}
      OBVIOUS
    <3>2. ToSet(ss) = {ss[i] : i \in 1..n}
      BY ListDomain
    <3> QED
      BY <1>2, <3>1, <3>2
  <2> QED
    BY <2>1, <2>2
<1>3. CASE n # 0
  <2>1. FlattenSeq(ss) = (CHOOSE f : whole(f))[n]
    BY <1>3 DEF FlattenSeq
  <2>2. built(0)
    <3>1. \A f : \A i \in 1..0 : FALSE
      OBVIOUS
    <3>2. [i \in 1..0 |-> 0] = [i \in 1..0 |-> [j \in 1..0 |-> 0][i]]
      OBVIOUS
    <3> HIDE DEF step, Every
    <3> QED
      BY <3>1, <3>2
  <2>3. ASSUME NEW k \in Nat, k < n, built(k) PROVE built(k + 1)
    <3>1. PICK f : /\ f = [i \in 1..k |-> f[i]]
                   /\ \A i \in 1..k : f[i] = step(f, i) /\ IsList(f[i]) /\ ToSet(f[i]) = Every(i)
      BY <2>3
    <3> DEFINE g == [i \in 1..(k + 1) |-> IF i = k + 1 THEN step(f, i) ELSE f[i]]
    <3>2. k + 1 \in 1..n /\ IsList(ss[k + 1]) /\ \A i \in 1..(k + 1) : i = k + 1 \/ i \in 1..k
      BY <1>1, <2>3
    <3>3. \A i \in 1..k : g[i] = f[i] /\ i \in 1..(k + 1) /\ i # k + 1
      BY <2>3
    <3>4. g = [i \in 1..(k + 1) |-> g[i]] /\ g[k + 1] = step(f, k + 1)
      BY <2>3
    <3> HIDE DEF g
    <3>5. \A i \in 1..(k + 1) : step(g, i) = step(f, i)
      <4> SUFFICES ASSUME NEW i \in 1..(k + 1), i # 1 PROVE g[i - 1] = f[i - 1]
        OBVIOUS
      <4>1. i - 1 \in 1..k
        BY <2>3
      <4> QED
        BY <3>3, <4>1
    <3>6. IsList(g[k + 1]) /\ ToSet(g[k + 1]) = Every(k + 1)
      <4>1. CASE k = 0
        <5>1. g[k + 1] = ss[k + 1] /\ 1..(k + 1) = {k + 1}
          BY <3>4, <4>1
        <5> QED
          BY <3>2, <5>1
      <4>2. CASE k # 0
        <5>1. k \in 1..k /\ k + 1 # 1 /\ (k + 1) - 1 = k
          BY <2>3, <4>2
        <5>2. g[k + 1] = f[k] \o ss[k + 1]
          BY <3>4, <5>1
        <5>3. IsList(f[k]) /\ ToSet(f[k]) = Every(k)
          BY <3>1, <5>1
        <5>4. IsList(g[k + 1]) /\ ToSet(g[k + 1]) = ToSet(f[k]) \cup ToSet(ss[k + 1])
          BY <3>2, <5>2, <5>3, ConcatHolds
        <5>5. Every(k + 1) = Every(k) \cup ToSet(ss[k + 1])
          <6>1. 1..(k + 1) = 1..k \cup {k + 1}
            BY <2>3
          <6> QED
            BY <6>1
        <5> QED
          BY <5>3, <5>4, <5>5
      <4> QED
        BY <4>1, <4>2
    <3> HIDE DEF step, Every
    <3>7. \A i \in 1..(k + 1) : g[i] = step(g, i) /\ IsList(g[i]) /\ ToSet(g[i]) = Every(i)
      BY <3>1, <3>2, <3>3, <3>4, <3>5, <3>6
    <3> QED
      BY <3>4, <3>7
  <2>4. built(n)
    <3> DEFINE bad == {k \in 0..n : ~built(k)}
               id == [k \in bad |-> k]
    <3>1. IsFiniteSet(bad) /\ bad \in SUBSET Int
      <4>1. 0 \in Int /\ n \in Int
        BY <1>1
      <4>2. IsFiniteSet(0..n)
        BY <4>1, FS_Interval
      <4>3. bad \in SUBSET (0..n)
        OBVIOUS
      <4> HIDE DEF bad
      <4>4. IsFiniteSet(bad)
        BY <4>2, <4>3, FS_Subset
      <4> QED
        BY <4>3, <4>4
    <3>2. \A k : k \in bad <=> k \in 0..n /\ ~built(k)
      OBVIOUS
    <3> HIDE DEF bad, built
    <3> SUFFICES ASSUME bad # {} PROVE FALSE
      BY <1>1, <3>2
    <3>3. \A k \in bad : id[k] = k /\ id[k] \in Int
      BY <3>1
    <3> HIDE DEF id
    <3>4. PICK k \in bad : \A m \in bad : id[k] <= id[m]
      BY <3>1, <3>3, EndsAre
    <3>5. k \in 0..n /\ ~built(k) /\ k # 0
      BY <2>2, <3>2
    <3>6. k - 1 \in 0..n /\ k - 1 \in Nat /\ k - 1 < n /\ (k - 1) + 1 = k /\ ~(k <= k - 1)
      BY <1>1, <3>5
    <3>7. k - 1 \notin bad
      BY <3>3, <3>4, <3>6
    <3>8. built(k - 1)
      BY <3>2, <3>6, <3>7
    <3> QED
      BY <2>3, <3>5, <3>6, <3>8
  <2>5. PICK f : /\ f = [i \in 1..n |-> f[i]]
                 /\ \A i \in 1..n : f[i] = step(f, i) /\ IsList(f[i]) /\ ToSet(f[i]) = Every(i)
    BY <2>4
  <2> HIDE DEF Every
  <2>6. whole(f)
    <3> HIDE DEF step
    <3> QED
      BY <2>5
  <2> DEFINE F == CHOOSE h : whole(h)
  <2>7. whole(F)
    BY <2>6
  <2> HIDE DEF F
  <2>8. ASSUME NEW k \in Nat, k < n, k # 0 => F[k] = f[k] PROVE F[k + 1] = f[k + 1]
    <3>1. k + 1 \in 1..n /\ (k # 0 => k + 1 # 1 /\ (k + 1) - 1 = k)
      BY <1>1, <2>8
    <3>2. F[k + 1] = step(F, k + 1)
      <4> HIDE DEF step
      <4> QED
        BY <2>7, <3>1
    <3>3. f[k + 1] = step(f, k + 1)
      BY <2>5, <3>1
    <3>4. step(F, k + 1) = step(f, k + 1)
      BY <2>8, <3>1
    <3> QED
      BY <3>2, <3>3, <3>4
  <2>9. F[n] = f[n]
    <3> DEFINE bad == {k \in 1..n : F[k] # f[k]}
               id == [k \in bad |-> k]
    <3>1. IsFiniteSet(bad) /\ bad \in SUBSET Int
      <4>1. 1 \in Int /\ n \in Int
        BY <1>1
      <4>2. IsFiniteSet(1..n)
        BY <4>1, FS_Interval
      <4>3. bad \in SUBSET (1..n)
        OBVIOUS
      <4> HIDE DEF bad
      <4>4. IsFiniteSet(bad)
        BY <4>2, <4>3, FS_Subset
      <4> QED
        BY <4>3, <4>4
    <3> SUFFICES ASSUME bad # {} PROVE FALSE
      BY <1>1, <1>3
    <3>2. \A k : k \in bad <=> k \in 1..n /\ F[k] # f[k]
      OBVIOUS
    <3> HIDE DEF bad
    <3>3. \A k \in bad : id[k] = k /\ id[k] \in Int
      BY <3>1
    <3> HIDE DEF id
    <3>4. PICK k \in bad : \A m \in bad : id[k] <= id[m]
      BY <3>1, <3>3, EndsAre
    <3>5. k \in 1..n /\ F[k] # f[k]
      BY <3>2
    <3>6. k - 1 \in Nat /\ k - 1 < n /\ (k - 1) + 1 = k /\ ~(k <= k - 1) /\ (k - 1 # 0 => k - 1 \in 1..n)
      BY <1>1, <3>5
    <3>7. k - 1 \notin bad
      BY <3>3, <3>4, <3>6
    <3> QED
      BY <2>8, <3>2, <3>5, <3>6, <3>7
  <2>10. n \in 1..n
    BY <1>1, <1>3
  <2>11. IsList(f[n]) /\ ToSet(f[n]) = Every(n)
    BY <2>5, <2>10
  <2> QED
    BY <2>1, <2>9, <2>11 DEF F, Every
<1> QED
  BY <1>2, <1>3

-----------------------------------------------------------------------------
(* The tree of a tab: every row under one head, nothing nested.            *)

Held(a) == UNION {ToSet(a.items[h]) : h \in Groups(a)}

\* Empty, or with the system group beside those in order.
SeenOK(a, t) ==
  /\ a = [order |-> a.order, items |-> a.items, under |-> a.under]
  /\ a.items = [h \in Groups(a) |-> a.items[h]]
  /\ IsList(a.order) /\ Distinct(a.order) /\ ToSet(a.order) \subseteq Heads(t)
  /\ Groups(a) = {} \/ Groups(a) = ToSet(a.order) \cup {Uncat}
  /\ \A h \in Groups(a) : IsList(a.items[h]) /\ Distinct(a.items[h]) /\ ToSet(a.items[h]) \subseteq Members(t)
  /\ \A g, h \in Groups(a) : g = h \/ ToSet(a.items[g]) \cap ToSet(a.items[h]) = {}
  /\ a.under = [x \in Held(a) |-> <<>>]

LEMMA HeldAre ==
  ASSUME NEW a, NEW x
  PROVE  x \in Held(a) <=> \E h \in Groups(a) : x \in ToSet(a.items[h])
BY DEF Held

LEMMA SeenItems ==
  ASSUME NEW a, NEW t, SeenOK(a, t)
  PROVE  /\ ItemsOf(a) = Held(a) /\ DOMAIN a.under = Held(a)
         /\ \A x \in Held(a) : a.under[x] = <<>> /\ ToSet(a.under[x]) = {}
<1>1. a.under = [x \in Held(a) |-> <<>>]
  BY DEF SeenOK
<1>2. DOMAIN a.under = Held(a) /\ \A x \in Held(a) : a.under[x] = <<>>
  BY <1>1
<1>3. ToSet(<<>>) = {}
  <2>1. ToSet(<<>>) = {<<>>[i] : i \in 1..0}
    BY EmptyList, ListDomain
  <2>2. 1..0 = {}
    OBVIOUS
  <2> QED
    BY <2>1, <2>2
<1>4. ItemsOf(a) = DOMAIN a.under \cup Held(a)
  BY DEF ItemsOf, Held
<1> QED
  BY <1>2, <1>3, <1>4

\* What is picked of them comes out by itself.
LEMMA FlatTops ==
  ASSUME NEW a, NEW t, SeenOK(a, t), NEW ids
  PROVE  Tops(a, ids) = ToSet(ids) \cap Held(a)
<1> DEFINE moved == ToSet(ids) \cap ItemsOf(a)
<1>1. /\ ItemsOf(a) = Held(a) /\ DOMAIN a.under = Held(a)
      /\ \A x \in Held(a) : ToSet(a.under[x]) = {}
  BY SeenItems
<1>2. ASSUME NEW x \in Held(a) PROVE Nested(a, {x}) \subseteq {x}
  <2>1. {x} \in SUBSET ItemsOf(a) /\ {x} \cap ItemsOf(a) \subseteq {x}
    BY <1>1
  <2>2. \A y \in {x} \cap DOMAIN a.under : ToSet(a.under[y]) \subseteq {x}
    BY <1>1
  <2> QED
    BY <2>1, <2>2, NestedIsIn
<1>3. Tops(a, ids) = {m \in moved : \A x \in moved \ {m} : m \notin Nested(a, {x})}
  BY DEF Tops
<1>4. \A m \in moved : \A x \in moved \ {m} : m \notin Nested(a, {x})
  BY <1>1, <1>2
<1> QED
  BY <1>1, <1>3, <1>4

LEMMA NothingKept ==
  ASSUME NEW S
  PROVE  Without(<<>>, S) = <<>>
<1>1. IsList(<<>>) /\ Len(<<>>) = 0
  BY EmptyList
<1>2. \A i \in 1..0 : FALSE
  OBVIOUS
<1>3. \A i \in 1..Len(<<>>) : <<>>[i] \notin S
  BY <1>1, <1>2
<1> QED
  BY <1>1, <1>3, NothingTaken

LEMMA MoveKeepsSeen ==
  ASSUME NEW a, NEW t, SeenOK(a, t), NEW ids, IsList(ids), Distinct(ids), NEW g, NEW at \in Nat
  PROVE  SeenOK(MoveItems(a, ids, g, at), t)
<1> DEFINE tops == Tops(a, ids)
           D == Held(a)
           G == Groups(a)
           new == Only(ids, tops)
           b == MoveItems(a, ids, g, at)
           left == [h \in G |-> Without(a.items[h], tops)]
<1>1. CASE g \notin G
  BY <1>1 DEF MoveItems
<1>2. CASE g \in G
  <2>1. tops = ToSet(ids) \cap D
    BY FlatTops
  <2>2. IsList(new) /\ ToSet(new) = tops /\ Distinct(new)
    BY <2>1, OnlyHolds, FilterDistinct
  <2>3. b = [a EXCEPT !.items = [left EXCEPT ![g] = SpliceIn(@, at, new)],
                      !.under = [x \in DOMAIN a.under |-> Without(a.under[x], tops)]]
    BY <1>2 DEF MoveItems
  <2>4. \A h \in G : /\ IsList(left[h]) /\ ToSet(left[h]) = ToSet(a.items[h]) \ tops
                     /\ Distinct(left[h])
    BY WithoutHolds, FilterDistinct DEF SeenOK
  <2>5. [x \in DOMAIN a.under |-> Without(a.under[x], tops)] = [x \in D |-> <<>>]
    <3>1. DOMAIN a.under = D /\ \A x \in D : a.under[x] = <<>>
      BY SeenItems
    <3> HIDE DEF D, tops
    <3>2. \A x \in D : Without(a.under[x], tops) = <<>>
      BY <3>1, NothingKept
    <3> QED
      BY <3>1, <3>2
  <2>6. /\ IsList(SpliceIn(left[g], at, new)) /\ Distinct(SpliceIn(left[g], at, new))
        /\ ToSet(SpliceIn(left[g], at, new)) = (ToSet(a.items[g]) \ tops) \cup tops
    <3>1. IsList(left[g]) /\ ToSet(left[g]) = ToSet(a.items[g]) \ tops /\ Distinct(left[g])
      BY <1>2, <2>4
    <3>2. ToSet(left[g]) \cap ToSet(new) = {}
      BY <2>2, <3>1
    <3>3. /\ IsList(SpliceIn(left[g], at, new)) /\ Distinct(SpliceIn(left[g], at, new))
          /\ ToSet(SpliceIn(left[g], at, new)) = ToSet(left[g]) \cup ToSet(new)
      <4> HIDE DEF left, new
      <4> QED
        BY <2>2, <3>1, <3>2, SpliceHolds, SpliceDistinct
    <3> QED
      BY <2>2, <3>1, <3>3
  <2>7. /\ b = [order |-> b.order, items |-> b.items, under |-> b.under] /\ b.order = a.order
        /\ b.items = [left EXCEPT ![g] = SpliceIn(left[g], at, new)]
        /\ b.under = [x \in D |-> <<>>]
    <3>1. a = [order |-> a.order, items |-> a.items, under |-> a.under]
      BY DEF SeenOK
    <3>2. g \in DOMAIN left
      BY <1>2
    <3> HIDE DEF left, tops, new, b, D
    <3>3. [left EXCEPT ![g] = SpliceIn(@, at, new)] = [left EXCEPT ![g] = SpliceIn(left[g], at, new)]
      BY <3>2
    <3> QED
      BY <2>3, <2>5, <3>1, <3>3
  <2>8. Groups(b) = G /\ b.items = [h \in G |-> b.items[h]]
    <3> HIDE DEF b, new, tops
    <3> QED
      BY <2>7 DEF Groups
  <2>9. /\ \A h \in G \ {g} : b.items[h] = left[h]
        /\ b.items[g] = SpliceIn(left[g], at, new)
    <3> HIDE DEF b, new, tops
    <3> QED
      BY <1>2, <2>7
  <2> HIDE DEF b, new, left, tops, D, G
  <2>10. \A h \in G :
           /\ IsList(b.items[h]) /\ Distinct(b.items[h])
           /\ ToSet(b.items[h]) = (ToSet(a.items[h]) \ tops) \cup (IF h = g THEN tops ELSE {})
    BY <2>4, <2>6, <2>9
  <2>11. Held(b) = D
    <3>1. tops \subseteq D
      BY <2>1
    <3>2. ASSUME NEW x \in Held(b) PROVE x \in D
      <4>1. PICK h \in G : x \in ToSet(b.items[h])
        BY <2>8, HeldAre
      <4>2. x \in ToSet(a.items[h]) \/ x \in tops
        BY <2>10, <4>1
      <4> QED
        BY <3>1, <4>2, HeldAre DEF D, G
    <3>3. ASSUME NEW x \in D PROVE x \in Held(b)
      <4>1. PICK h \in G : x \in ToSet(a.items[h])
        BY HeldAre DEF D, G
      <4>2. x \in ToSet(b.items[h]) \/ x \in ToSet(b.items[g])
        BY <1>2, <2>10, <4>1
      <4> QED
        BY <1>2, <2>8, <4>2, HeldAre
    <3> QED
      BY <3>2, <3>3
  <2>12. \A h \in G : ToSet(b.items[h]) \subseteq Members(t)
    <3>1. tops \subseteq Members(t)
      <4>1. \A x \in D : x \in Members(t)
        BY HeldAre DEF D, G, SeenOK
      <4> QED
        BY <2>1, <4>1
    <3> QED
      BY <2>10, <3>1 DEF SeenOK, G
  <2>13. \A f, h \in G : f = h \/ ToSet(b.items[f]) \cap ToSet(b.items[h]) = {}
    <3> SUFFICES ASSUME NEW f \in G, NEW h \in G, f # h PROVE ToSet(b.items[f]) \cap ToSet(b.items[h]) = {}
      OBVIOUS
    <3>1. ToSet(a.items[f]) \cap ToSet(a.items[h]) = {}
      BY DEF SeenOK, G
    <3> QED
      BY <2>10, <3>1
  <2>14. /\ IsList(b.order) /\ Distinct(b.order) /\ ToSet(b.order) \subseteq Heads(t)
         /\ G = {} \/ G = ToSet(b.order) \cup {Uncat}
    BY <2>7 DEF SeenOK, G
  <2>15. SeenOK(b, t)
    BY <2>7, <2>8, <2>10, <2>11, <2>12, <2>13, <2>14 DEF SeenOK
  <2> QED
    BY <2>15 DEF b
<1> QED
  BY <1>1, <1>2

LEMMA GroupKeepsSeen ==
  ASSUME NEW a, NEW t, SeenOK(a, t), NEW from, NEW to
  PROVE  SeenOK(MoveGroup(a, from, to), t)
<1> DEFINE n == Len(a.order)
           order == SpliceIn(RemoveAt(a.order, from + 1), to, <<a.order[from + 1]>>)
           b == MoveGroup(a, from, to)
<1>1. CASE from = to \/ from \notin 0..(n - 1) \/ to \notin 0..(n - 1)
  BY <1>1 DEF MoveGroup
<1>2. CASE from # to /\ from \in 0..(n - 1) /\ to \in 0..(n - 1)
  <2>1. IsList(a.order) /\ n \in Nat /\ Distinct(a.order)
    BY DEF SeenOK, IsList
  <2>2. from \in 0..(n - 1) /\ to \in Nat
    BY <1>2, <2>1
  <2>3. b = [a EXCEPT !.order = order]
    BY <1>2 DEF MoveGroup
  <2>4. IsList(order) /\ ToSet(order) = ToSet(a.order) /\ Distinct(order)
    <3> DEFINE s == a.order
    <3>1. IsList(s) /\ from \in 0..(Len(s) - 1) /\ to \in Nat /\ Distinct(s)
      BY <2>1, <2>2
    <3>2. order = SpliceIn(RemoveAt(s, from + 1), to, <<s[from + 1]>>)
      OBVIOUS
    <3> HIDE DEF order, s
    <3>3. IsList(order) /\ ToSet(order) = ToSet(s) /\ Distinct(order)
      BY <3>1, <3>2, OneMoved
    <3> QED
      BY <3>3 DEF s
  <2> HIDE DEF order, b
  <2>5. /\ b = [order |-> b.order, items |-> b.items, under |-> b.under]
        /\ b.order = order /\ b.items = a.items /\ b.under = a.under
    <3>1. a = [order |-> a.order, items |-> a.items, under |-> a.under]
      BY DEF SeenOK
    <3> QED
      BY <2>3, <3>1
  <2>6. Groups(b) = Groups(a) /\ Held(b) = Held(a)
    BY <2>5 DEF Groups, Held
  <2>7. SeenOK(b, t)
    BY <2>4, <2>5, <2>6 DEF SeenOK
  <2> QED
    BY <2>7 DEF b
<1> QED
  BY <1>1, <1>2

LEMMA EmptySeen ==
  ASSUME NEW t
  PROVE  SeenOK(Empty, t)
<1>1. IsList(<<>>) /\ Len(<<>>) = 0
  BY EmptyList
<1>2. 1..0 = {}
  OBVIOUS
<1>3. DOMAIN <<>> = {} /\ ToSet(<<>>) = {} /\ Distinct(<<>>)
  <2>1. DOMAIN <<>> = 1..0 /\ ToSet(<<>>) = {<<>>[i] : i \in 1..0}
    BY <1>1, ListDomain
  <2> QED
    BY <1>1, <1>2, <2>1 DEF Distinct
<1>4. Empty.order = <<>> /\ Empty.items = <<>> /\ Empty.under = <<>>
  BY DEF Empty
<1>5. Groups(Empty) = {} /\ Held(Empty) = {}
  BY <1>3, <1>4 DEF Groups, Held
<1>6. Empty.under = [x \in {} |-> <<>>]
  <2>1. <<>> = [i \in 1..Len(<<>>) |-> <<>>[i]]
    BY <1>1 DEF IsList
  <2> QED
    BY <1>1, <1>2, <1>4, <2>1
<1>7. Empty.items = [h \in {} |-> Empty.items[h]]
  <2>1. <<>> = [i \in 1..Len(<<>>) |-> <<>>[i]]
    BY <1>1 DEF IsList
  <2> QED
    BY <1>1, <1>2, <1>4, <2>1
<1>8. Empty = [order |-> Empty.order, items |-> Empty.items, under |-> Empty.under]
  BY DEF Empty
<1> QED
  BY <1>1, <1>3, <1>4, <1>5, <1>6, <1>7, <1>8 DEF SeenOK

-----------------------------------------------------------------------------
(* The tree of a year, from where the nodes are.                           *)

UnderIn(t, heads, p) == IF t = "office" /\ p.up \notin heads THEN Uncat ELSE p.up

TreeFrom(t, heads, here, P) ==
  LET pos == [n \in heads \cup here |-> P[n].order]
  IN [order |-> Sorted(heads, pos),
      items |-> [h \in heads \cup {Uncat} |-> Sorted({n \in here : UnderIn(t, heads, P[n]) = h}, pos)],
      under |-> [n \in {m \in here : UnderIn(t, heads, P[m]) \in heads \cup {Uncat}} |-> <<>>]]

LEMMA SomeRows ==
  ASSUME NEW S, S \subseteq OrgRows
  PROVE  IsFiniteSet(S) /\ S \in SUBSET Int
<1>1. IsFiniteSet(OrgRows) /\ OrgRows \in SUBSET Nat
  BY OrgScreensAssumption
<1>2. S \in SUBSET OrgRows /\ S \in SUBSET Int
  BY <1>1
<1>3. IsFiniteSet(S)
  BY <1>1, <1>2, FS_Subset
<1> QED
  BY <1>2, <1>3

LEMMA RowsOfTabs ==
  ASSUME NEW t
  PROVE  /\ Heads(t) \subseteq OrgRows /\ Members(t) \subseteq OrgRows /\ Heads(t) \cap Members(t) = {}
         /\ Uncat \notin OrgRows
<1>1. Uncat \notin Int /\ OrgRows \in SUBSET Nat /\ (Series \cup OfficeGroups) \cap (Departments \cup Offices) = {}
  BY OrgScreensAssumption
<1>2. Uncat \notin OrgRows
  <2>1. \A n \in OrgRows : n \in Int
    BY <1>1
  <2> QED
    BY <1>1, <2>1
<1>3. \/ Heads(t) = Series /\ Members(t) = Departments
      \/ Heads(t) = OfficeGroups /\ Members(t) = Offices
  BY DEF Heads, Members
<1>4. Series \cup OfficeGroups \subseteq OrgRows /\ Departments \cup Offices \subseteq OrgRows
  BY DEF OrgRows
<1> QED
  BY <1>1, <1>2, <1>3, <1>4

Arranged(a, t, heads, here, P) ==
  /\ SeenOK(a, t) /\ ToSet(a.order) = heads /\ Groups(a) = heads \cup {Uncat}
  /\ \A h \in heads \cup {Uncat} : ToSet(a.items[h]) = {n \in here : UnderIn(t, heads, P[n]) = h}
  /\ Held(a) = {m \in here : UnderIn(t, heads, P[m]) \in heads \cup {Uncat}}

LEMMA TreeFromSeen ==
  ASSUME NEW t, NEW heads \in SUBSET Heads(t), NEW here \in SUBSET Members(t),
         NEW P, \A n \in heads \cup here : P[n] \in Place, NEW a, a = TreeFrom(t, heads, here, P)
  PROVE  Arranged(a, t, heads, here, P)
<1> DEFINE pos == [n \in heads \cup here |-> P[n].order]
           In(h) == {n \in here : UnderIn(t, heads, P[n]) = h}
           Every == {m \in here : UnderIn(t, heads, P[m]) \in heads \cup {Uncat}}
<1>1. /\ a = [order |-> a.order, items |-> a.items, under |-> a.under]
      /\ a.order = Sorted(heads, pos)
      /\ a.items = [h \in heads \cup {Uncat} |-> Sorted(In(h), pos)]
      /\ a.under = [n \in Every |-> <<>>]
  BY DEF TreeFrom
<1>2. \A n \in heads \cup here : pos[n] \in Int
  BY DEF Place
<1>3. ASSUME NEW S \in SUBSET (heads \cup here)
      PROVE  IsList(Sorted(S, pos)) /\ ToSet(Sorted(S, pos)) = S /\ Distinct(Sorted(S, pos))
  <2>1. IsFiniteSet(S) /\ S \in SUBSET Int
    BY RowsOfTabs, SomeRows
  <2>2. \A x \in S : pos[x] \in Int
    BY <1>2
  <2> HIDE DEF pos
  <2> QED
    BY <2>1, <2>2, SortedHolds, SortedDistinct
<1>4. heads \in SUBSET (heads \cup here) /\ \A h : In(h) \in SUBSET (heads \cup here)
  OBVIOUS
<1> HIDE DEF pos
<1>5. IsList(a.order) /\ Distinct(a.order) /\ ToSet(a.order) = heads
  BY <1>1, <1>3, <1>4
<1>6. Groups(a) = heads \cup {Uncat}
  BY <1>1 DEF Groups
<1>7. \A h \in heads \cup {Uncat} : a.items[h] = Sorted(In(h), pos)
  <2> HIDE DEF In
  <2> QED
    BY <1>1
<1>8. \A h \in heads \cup {Uncat} : IsList(a.items[h]) /\ Distinct(a.items[h]) /\ ToSet(a.items[h]) = In(h)
  <2> HIDE DEF In
  <2> QED
    BY <1>3, <1>4, <1>7
<1>9. Held(a) = Every
  <2>1. ASSUME NEW x \in Held(a) PROVE x \in Every
    <3>1. PICK h \in Groups(a) : x \in ToSet(a.items[h])
      BY HeldAre
    <3> QED
      BY <1>6, <1>8, <3>1
  <2>2. ASSUME NEW x \in Every PROVE x \in Held(a)
    <3> DEFINE h == UnderIn(t, heads, P[x])
    <3>1. h \in Groups(a) /\ x \in ToSet(a.items[h])
      BY <1>6, <1>8
    <3> QED
      BY <3>1, HeldAre
  <2> QED
    BY <2>1, <2>2
<1>10. \A g, h \in Groups(a) : g = h \/ ToSet(a.items[g]) \cap ToSet(a.items[h]) = {}
  BY <1>6, <1>8
<1>11. \A h \in Groups(a) : IsList(a.items[h]) /\ Distinct(a.items[h]) /\ ToSet(a.items[h]) \subseteq Members(t)
  BY <1>6, <1>8
<1>12. a.under = [x \in Held(a) |-> <<>>]
  BY <1>1, <1>9
<1>13. a.items = [h \in Groups(a) |-> a.items[h]]
  <2> HIDE DEF In
  <2> QED
    BY <1>1, <1>6
<1>14. SeenOK(a, t)
  <2> HIDE DEF In, Every
  <2> QED
    BY <1>1, <1>5, <1>6, <1>10, <1>11, <1>12, <1>13 DEF SeenOK
<1> QED
  BY <1>5, <1>6, <1>8, <1>9, <1>14 DEF Arranged

\* The nodes are where the tree shows them.
PlacedAs(seen, P, first) ==
  /\ \A i \in 1..Len(seen.order) : P[seen.order[i]].order = first + i - 1
  /\ \A h \in Groups(seen) : \A i \in 1..Len(seen.items[h]) :
       P[seen.items[h][i]].up = h /\ P[seen.items[h][i]].order = i - 1

\* Then they make that tree.
MadeOf(a, seen, t, heads, here, P, first) ==
  /\ heads \in SUBSET Heads(t) /\ here \in SUBSET Members(t) /\ (\A n \in heads \cup here : P[n] \in Place)
  /\ SeenOK(seen, t) /\ first \in Int /\ PlacedAs(seen, P, first)
  /\ a = TreeFrom(t, heads, here, P) /\ Groups(seen) = Groups(a) /\ Held(seen) = Held(a)

LEMMA TreeIsSeen ==
  ASSUME NEW t, NEW heads, NEW here, NEW P, NEW seen, NEW first, NEW a, MadeOf(a, seen, t, heads, here, P, first)
  PROVE  a = seen
<1> SUFFICES ASSUME heads \in SUBSET Heads(t), here \in SUBSET Members(t), \A n \in heads \cup here : P[n] \in Place,
                    SeenOK(seen, t), first \in Int, a = TreeFrom(t, heads, here, P),
                    Groups(seen) = Groups(a), Held(seen) = Held(a),
                    \A i \in 1..Len(seen.order) : P[seen.order[i]].order = first + i - 1,
                    \A h \in Groups(seen) : \A i \in 1..Len(seen.items[h]) :
                      P[seen.items[h][i]].up = h /\ P[seen.items[h][i]].order = i - 1
             PROVE  a = seen
  BY DEF MadeOf, PlacedAs
<1> DEFINE pos == [n \in heads \cup here |-> P[n].order]
           In(h) == {n \in here : UnderIn(t, heads, P[n]) = h}
<1>0. /\ \A h : In(h) \in SUBSET here
      /\ \A n \in heads \cup here : pos[n] = P[n].order
  OBVIOUS
<1>1. /\ SeenOK(a, t) /\ ToSet(a.order) = heads /\ Groups(a) = heads \cup {Uncat}
      /\ \A h \in heads \cup {Uncat} : ToSet(a.items[h]) = {n \in here : UnderIn(t, heads, P[n]) = h}
      /\ Held(a) = {m \in here : UnderIn(t, heads, P[m]) \in heads \cup {Uncat}}
  <2>1. Arranged(a, t, heads, here, P)
    BY TreeFromSeen
  <2> QED
    BY <2>1 DEF Arranged
<1>2. /\ a = [order |-> a.order, items |-> a.items, under |-> a.under]
      /\ a.order = Sorted(heads, pos)
      /\ a.items = [h \in heads \cup {Uncat} |-> Sorted(In(h), pos)]
  BY DEF TreeFrom
<1> HIDE DEF pos
<1>3. Uncat \notin heads /\ heads \subseteq OrgRows /\ here \subseteq OrgRows
  BY RowsOfTabs
<1>4. \A n \in heads \cup here : pos[n] \in Int
  BY <1>0 DEF Place
<1>5. ToSet(seen.order) = heads
  <2>1. Uncat \notin ToSet(seen.order)
    BY RowsOfTabs DEF SeenOK
  <2>2. Groups(seen) = ToSet(seen.order) \cup {Uncat}
    <3>1. Groups(seen) # {}
      BY <1>1
    <3> QED
      BY <3>1 DEF SeenOK
  <2>3. Groups(seen) = heads \cup {Uncat}
    BY <1>1
  <2> DEFINE S == ToSet(seen.order)
  <2>4. Uncat \notin S /\ Uncat \notin heads /\ S \cup {Uncat} = heads \cup {Uncat}
    BY <1>3, <2>1, <2>2, <2>3
  <2> HIDE DEF S
  <2>5. \A e : e \in S <=> e \in heads
    <3> SUFFICES ASSUME NEW e PROVE e \in S <=> e \in heads
      OBVIOUS
    <3>1. e \in S \cup {Uncat} <=> e \in heads \cup {Uncat}
      BY <2>4
    <3> QED
      BY <2>4, <3>1
  <2>6. S = heads
    BY <2>5
  <2> QED
    BY <2>6 DEF S
<1>6. a.order = seen.order
  <2> DEFINE s == seen.order
  <2>1. IsList(s) /\ Distinct(s) /\ ToSet(s) = heads /\ Len(s) \in Nat
    BY <1>5 DEF SeenOK, IsList
  <2>2. heads \in SUBSET Int
    BY <1>3, SomeRows
  <2>3. ASSUME NEW i \in 1..Len(s) PROVE s[i] \in heads /\ pos[s[i]] = first + i - 1
    <3>1. s[i] \in ToSet(s)
      BY <2>1, ListDomain
    <3> QED
      BY <1>0, <2>1, <3>1
  <2> HIDE DEF s
  <2>4. ASSUME NEW i \in 1..Len(s), NEW j \in 1..Len(s), i < j PROVE pos[s[i]] < pos[s[j]]
    BY <2>1, <2>3, <2>4
  <2>5. Sorted(ToSet(s), pos) = s
    BY <1>4, <2>1, <2>2, <2>4, AscendingIsSorted
  <2> QED
    BY <1>2, <2>1, <2>5 DEF s
<1>7. ASSUME NEW h \in heads \cup {Uncat} PROVE a.items[h] = seen.items[h]
  <2> DEFINE s == seen.items[h]
  <2>1. h \in Groups(seen) /\ IsList(s) /\ Distinct(s) /\ Len(s) \in Nat
    BY <1>1 DEF SeenOK, IsList
  <2>2. ASSUME NEW i \in 1..Len(s) PROVE s[i] \in ToSet(s) /\ P[s[i]].up = h /\ P[s[i]].order = i - 1
    BY <2>1, ListDomain
  <2>3. ASSUME NEW g \in Groups(seen), NEW x \in ToSet(seen.items[g]) PROVE x \in In(g)
    <3>1. IsList(seen.items[g]) /\ g \in heads \cup {Uncat} /\ x \in Held(a)
      BY <1>1, HeldAre DEF SeenOK
    <3>2. PICK i \in 1..Len(seen.items[g]) : x = seen.items[g][i]
      BY <3>1, ListDomain
    <3>3. P[x].up = g /\ x \in here
      BY <1>1, <3>1, <3>2
    <3>4. UnderIn(t, heads, P[x]) = g
      BY <1>3, <3>1, <3>3 DEF UnderIn
    <3> QED
      BY <3>3, <3>4
  <2>4. ToSet(s) = In(h)
    <3>1. ASSUME NEW x \in In(h) PROVE x \in ToSet(s)
      <4>1. x \in Held(seen) /\ UnderIn(t, heads, P[x]) = h
        BY <1>1
      <4>2. PICK g \in Groups(seen) : x \in ToSet(seen.items[g])
        BY <4>1, HeldAre
      <4>3. UnderIn(t, heads, P[x]) = g
        BY <2>3, <4>2
      <4> QED
        BY <4>1, <4>2, <4>3
    <3> QED
      BY <2>1, <2>3, <3>1
  <2>5. ToSet(s) \in SUBSET Int /\ \A x \in ToSet(s) : pos[x] \in Int
    <3>1. In(h) \in SUBSET Int
      BY <1>0, <1>3, SomeRows
    <3> HIDE DEF s, In
    <3> QED
      BY <1>0, <1>4, <2>4, <3>1
  <2>6. ASSUME NEW i \in 1..Len(s) PROVE pos[s[i]] = i - 1
    <3>1. s[i] \in here
      BY <2>2, <2>4
    <3> HIDE DEF s
    <3> QED
      BY <1>0, <2>2, <3>1
  <2>7. a.items[h] = Sorted(In(h), pos)
    <3> HIDE DEF In
    <3> QED
      BY <1>2
  <2> HIDE DEF s, In
  <2>8. ASSUME NEW i \in 1..Len(s), NEW j \in 1..Len(s), i < j PROVE pos[s[i]] < pos[s[j]]
    BY <2>1, <2>6, <2>8
  <2>9. Sorted(ToSet(s), pos) = s
    BY <2>1, <2>5, <2>8, AscendingIsSorted
  <2> QED
    BY <2>4, <2>7, <2>9 DEF s
<1> HIDE DEF In
<1>8. a.items = seen.items
  <2>1. DOMAIN a.items = heads \cup {Uncat} /\ DOMAIN seen.items = heads \cup {Uncat}
    BY <1>1 DEF Groups
  <2>2. a.items = [h \in heads \cup {Uncat} |-> a.items[h]]
    BY <1>2
  <2>3. seen.items = [h \in heads \cup {Uncat} |-> seen.items[h]]
    BY <2>1 DEF SeenOK
  <2> QED
    BY <1>7, <2>2, <2>3
<1>9. a.under = seen.under
  BY <1>1 DEF SeenOK
<1>10. seen = [order |-> seen.order, items |-> seen.items, under |-> seen.under]
  BY DEF SeenOK
<1> QED
  BY <1>2, <1>6, <1>8, <1>9, <1>10

-----------------------------------------------------------------------------
(* The nodes of the organisation: live rows and version rows.              *)

\* A live row and its versions: the open one, if there is one, is the live row.
LineageOK(r, vs) ==
  /\ r \in Place \cup {NULL} /\ vs \in SUBSET Version(Place)
  /\ \A v \in vs : IsOpen(v) => v.payload = r
  /\ \A v, w \in OpenRows(vs) : v = w

NothingLater(vs, m) == \A v \in vs : IF IsOpen(v) THEN v.from <= m ELSE v.to < m

NodesOK ==
  /\ writes \in Nat /\ latest \in Years /\ forward \in BOOLEAN
  /\ \A n \in OrgRows : LineageOK(liveRow[n], orgVersions[n])
  /\ forward => \A n \in OrgRows : NothingLater(orgVersions[n], latest)

\* What a year shows of a node is a place; in the last year written, the live one.
LEMMA OverlayIs ==
  ASSUME NEW r, r # NULL, NEW vs, LineageOK(r, vs), NEW y \in Years,
         NEW overlay, overlay = OverlayPayload(vs, y),
         NEW q, q = CHOOSE p \in IF overlay = {} THEN {r} ELSE overlay : TRUE
  PROVE  q \in Place /\ (NothingLater(vs, y) => q = r)
<1>1. r \in Place /\ vs \in SUBSET Version(Place)
  BY DEF LineageOK
<1>2. overlay \subseteq Place
  BY <1>1 DEF OverlayPayload, First, Version
<1>3. overlay = {} => q = r
  OBVIOUS
<1>4. overlay # {} => q \in overlay
  OBVIOUS
<1>5. ASSUME NothingLater(vs, y) PROVE overlay \subseteq {r}
  <2>1. /\ \A v \in vs : IF IsOpen(v) THEN v.from <= y ELSE v.to < y
        /\ \A v, w \in OpenRows(vs) : v = w
    BY <1>5 DEF NothingLater, LineageOK
  <2>2. overlay = {v.payload : v \in OpenRows(vs)}
    BY <1>1, <2>1, OpenRowsShow
  <2>3. \A v \in OpenRows(vs) : v.payload = r
    BY DEF OpenRows, LineageOK
  <2> QED
    BY <2>2, <2>3
<1> QED
  BY <1>1, <1>2, <1>3, <1>4, <1>5

LEMMA NodeIs ==
  NodesOK => \A n \in Kept, y \in Years :
    Resolved(n, y) \in Place /\ (forward /\ y = latest => Resolved(n, y) = liveRow[n])
<1> SUFFICES ASSUME NodesOK, NEW n \in Kept, NEW y \in Years
             PROVE  Resolved(n, y) \in Place /\ (forward /\ y = latest => Resolved(n, y) = liveRow[n])
  OBVIOUS
<1> DEFINE overlay == OverlayPayload(orgVersions[n], y)
<1>1. n \in OrgRows /\ liveRow[n] # NULL /\ LineageOK(liveRow[n], orgVersions[n])
  BY DEF Kept, NodesOK
<1>2. Resolved(n, y) = CHOOSE p \in IF overlay = {} THEN {liveRow[n]} ELSE overlay : TRUE
  BY DEF Resolved
<1>3. Resolved(n, y) \in Place /\ (NothingLater(orgVersions[n], y) => Resolved(n, y) = liveRow[n])
  <2> DEFINE q == Resolved(n, y)
             o == overlay
             r == liveRow[n]
             vs == orgVersions[n]
  <2>1. r # NULL /\ LineageOK(r, vs) /\ o = OverlayPayload(vs, y) /\ q = CHOOSE p \in IF o = {} THEN {r} ELSE o : TRUE
    BY <1>1, <1>2
  <2> HIDE DEF q, o, r, vs
  <2>2. q \in Place /\ (NothingLater(vs, y) => q = r)
    BY <2>1, OverlayIs
  <2> QED
    BY <2>2 DEF q, r, vs
<1> QED
  BY <1>1, <1>3 DEF NodesOK

LEMMA NodeThenIs ==
  (NodesOK => \A n \in Kept, y \in Years :
    Resolved(n, y) \in Place /\ (forward /\ y = latest => Resolved(n, y) = liveRow[n]))'
BY NodeIs, PTL

TreeNow(t, y) ==
  TreeFrom(t, {h \in Heads(t) : Exists(h, y)}, {n \in Members(t) : Exists(n, y)}, [n \in OrgRows |-> Resolved(n, y)])

LEMMA TreeIs == \A t, y : TreeAt(t, y) = TreeNow(t, y)
<1> SUFFICES ASSUME NEW t, NEW y PROVE TreeAt(t, y) = TreeNow(t, y)
  OBVIOUS
<1> DEFINE heads == {h \in Heads(t) : Exists(h, y)}
           here == {n \in Members(t) : Exists(n, y)}
           P == [n \in OrgRows |-> Resolved(n, y)]
           pos == [n \in heads \cup here |-> Resolved(n, y).order]
           Of(n) == IF t = "office" /\ Resolved(n, y).up \notin heads THEN Uncat ELSE Resolved(n, y).up
<1>1. TreeAt(t, y) = [order |-> Sorted(heads, pos),
                      items |-> [h \in heads \cup {Uncat} |-> Sorted({n \in here : Of(n) = h}, pos)],
                      under |-> [n \in {m \in here : Of(m) \in heads \cup {Uncat}} |-> <<>>]]
  BY DEF TreeAt
<1>2. heads \cup here \subseteq OrgRows
  BY RowsOfTabs
<1> HIDE DEF heads, here
<1>3. \A n \in heads \cup here : P[n] = Resolved(n, y)
  BY <1>2
<1> HIDE DEF P
<1>4. pos = [n \in heads \cup here |-> P[n].order]
  BY <1>3
<1>5. \A n \in here : Of(n) = UnderIn(t, heads, P[n])
  BY <1>3 DEF UnderIn
<1> HIDE DEF pos, Of
<1>6. /\ \A h : {n \in here : Of(n) = h} = {n \in here : UnderIn(t, heads, P[n]) = h}
      /\ {m \in here : Of(m) \in heads \cup {Uncat}} = {m \in here : UnderIn(t, heads, P[m]) \in heads \cup {Uncat}}
  BY <1>5
<1>7. TreeFrom(t, heads, here, P) =
        [order |-> Sorted(heads, pos),
         items |-> [h \in heads \cup {Uncat} |-> Sorted({n \in here : UnderIn(t, heads, P[n]) = h}, pos)],
         under |-> [n \in {m \in here : UnderIn(t, heads, P[m]) \in heads \cup {Uncat}} |-> <<>>]]
  BY <1>4 DEF TreeFrom
<1>8. TreeAt(t, y) = TreeFrom(t, heads, here, P)
  BY <1>1, <1>6, <1>7
<1> QED
  BY <1>8 DEF TreeNow, heads, here, P

LEMMA TreeThenIs == (\A t, y : TreeAt(t, y) = TreeNow(t, y))'
BY TreeIs, PTL

\* The tree of a tab in a year.
LEMMA TreeSeen ==
  ASSUME NodesOK, NEW t, NEW y \in Years
  PROVE  Arranged(TreeAt(t, y), t, {h \in Heads(t) : Exists(h, y)}, {n \in Members(t) : Exists(n, y)},
                  [n \in OrgRows |-> Resolved(n, y)])
<1> DEFINE heads == {h \in Heads(t) : Exists(h, y)}
           here == {n \in Members(t) : Exists(n, y)}
           P == [n \in OrgRows |-> Resolved(n, y)]
           a == TreeAt(t, y)
<1>1. a = TreeFrom(t, heads, here, P)
  BY TreeIs DEF TreeNow
<1>2. heads \in SUBSET Heads(t) /\ here \in SUBSET Members(t)
  OBVIOUS
<1>3. ASSUME NEW n \in heads \cup here PROVE P[n] \in Place
  <2>1. n \in OrgRows /\ n \in Kept
    BY RowsOfTabs DEF Exists, Span
  <2> QED
    BY <2>1, NodeIs
<1> HIDE DEF heads, here, P, a
<1>4. Arranged(a, t, heads, here, P)
  BY <1>1, <1>2, <1>3, TreeFromSeen
<1> QED
  BY <1>4 DEF heads, here, P, a

-----------------------------------------------------------------------------
(* What the services write.                                                *)

LEMMA WrittenLineage ==
  ASSUME NEW r, NEW vs, LineageOK(r, vs), NEW id \in Nat, NEW y \in Years, NEW type \in ChangeTypes,
         NEW p \in Place, NEW previous \in Place, NEW new, new = WriteVersion(vs, id, y, type, p, previous)
  PROVE  /\ LineageOK(p, new)
         /\ \A m \in Years : NothingLater(vs, m) /\ m <= y => NothingLater(new, y)
<1>1. vs \in SUBSET Version(Place) /\ \A v, w \in OpenRows(vs) : v = w
  BY DEF LineageOK
<1>2. new \in SUBSET Version(Place)
  BY <1>1, WriteVersionType
<1>3. OpenRows(new) = OpenFrom(id, y, type, p)
  BY <1>1, WriteVersionOpen
<1>4. ASSUME NEW v \in OpenFrom(id, y, type, p) PROVE v.payload = p /\ v.from = y
  BY DEF OpenFrom
<1>5. \A v, w \in OpenFrom(id, y, type, p) : v = w
  BY DEF OpenFrom
<1>6. LineageOK(p, new)
  BY <1>2, <1>3, <1>4, <1>5 DEF LineageOK, OpenRows
<1>7. ASSUME NEW m \in Years, NothingLater(vs, m), m <= y PROVE NothingLater(new, y)
  <2> SUFFICES ASSUME NEW v \in new PROVE IF IsOpen(v) THEN v.from <= y ELSE v.to < y
    BY DEF NothingLater
  <2>1. y \in Int /\ m \in Int
    BY DEF Years
  <2>2. CASE IsOpen(v)
    <3>1. v.from = y
      BY <1>3, <1>4, <2>2 DEF OpenRows
    <3> QED
      BY <2>1, <2>2, <3>1
  <2>3. CASE ~IsOpen(v)
    <3>1. v \in vs \/ v.to = y - 1
      BY <1>1, <2>3, WriteVersionBounds
    <3>2. CASE v \in vs
      <4>1. v.to < m /\ v.to \in Int
        BY <1>1, <1>7, <2>3, <3>2 DEF NothingLater, Version, YearOrNull, Years, IsOpen
      <4> QED
        BY <1>7, <2>1, <2>3, <4>1
    <3> QED
      BY <2>1, <2>3, <3>1, <3>2
  <2> QED
    BY <2>2, <2>3
<1> QED
  BY <1>6, <1>7

LEMMA WriteKeepsNodes ==
  ASSUME NodesOK, NEW y \in Years, NEW type, NEW new, Write(new, y, type),
         \A n \in DOMAIN new : new[n] \in Place /\ type[n] \in ChangeTypes
  PROVE  NodesOK'
<1> DEFINE previous(n) == IF n \in Kept THEN Resolved(n, y) ELSE new[n]
<1>1. /\ liveRow' = [n \in OrgRows |-> IF n \in DOMAIN new THEN new[n] ELSE liveRow[n]]
      /\ orgVersions' = [n \in OrgRows |->
           IF n \in DOMAIN new THEN WriteVersion(orgVersions[n], writes + 1, y, type[n], new[n], previous(n))
           ELSE orgVersions[n]]
      /\ writes' = writes + 1 /\ forward' = (forward /\ y >= latest) /\ latest' = y
  BY DEF Write
<1>2. \A n \in DOMAIN new : previous(n) \in Place
  BY NodeIs
<1> HIDE DEF previous
<1>3. writes + 1 \in Nat /\ latest \in Years /\ \A n \in OrgRows : LineageOK(liveRow[n], orgVersions[n])
  BY DEF NodesOK
<1>4. ASSUME NEW n \in OrgRows
      PROVE  /\ LineageOK(liveRow'[n], orgVersions'[n])
             /\ NothingLater(orgVersions[n], latest) /\ latest <= y => NothingLater(orgVersions'[n], y)
  <2> DEFINE w == WriteVersion(orgVersions[n], writes + 1, y, type[n], new[n], previous(n))
  <2>1. CASE n \in DOMAIN new
    <3>1. liveRow'[n] = new[n] /\ orgVersions'[n] = w
      BY <1>1, <2>1
    <3>2. new[n] \in Place /\ type[n] \in ChangeTypes /\ previous(n) \in Place
      BY <1>2, <2>1
    <3> DEFINE vs == orgVersions[n]
               r == liveRow[n]
               p == new[n]
               k == type[n]
               q == previous(n)
               id == writes + 1
    <3>3. /\ LineageOK(r, vs) /\ id \in Nat /\ k \in ChangeTypes /\ p \in Place /\ q \in Place
          /\ w = WriteVersion(vs, id, y, k, p, q)
      BY <1>3, <3>2
    <3> HIDE DEF vs, r, p, k, q, id, w
    <3>4. LineageOK(p, w) /\ \A m \in Years : NothingLater(vs, m) /\ m <= y => NothingLater(w, y)
      BY <3>3, WrittenLineage
    <3>5. LineageOK(p, w) /\ (NothingLater(vs, latest) /\ latest <= y => NothingLater(w, y))
      BY <1>3, <3>4
    <3> QED
      BY <3>1, <3>5 DEF vs, p
  <2>2. CASE n \notin DOMAIN new
    <3>1. liveRow'[n] = liveRow[n] /\ orgVersions'[n] = orgVersions[n]
      BY <1>1, <2>2
    <3>2. LineageOK(liveRow'[n], orgVersions'[n])
      BY <1>3, <3>1
    <3>3. ASSUME NothingLater(orgVersions[n], latest), latest <= y
          PROVE  NothingLater(orgVersions[n], y)
      <4>1. ASSUME NEW v \in orgVersions[n]
            PROVE  /\ v.from \in Int /\ (IsOpen(v) \/ v.to \in Int) /\ latest \in Int /\ y \in Int
                   /\ IF IsOpen(v) THEN v.from <= latest ELSE v.to < latest
        <5>1. v \in Version(Place)
          BY <1>3 DEF LineageOK
        <5> QED
          BY <1>3, <3>3, <5>1 DEF NothingLater, Version, YearOrNull, Years, IsOpen
      <4>2. \A v \in orgVersions[n] : IF IsOpen(v) THEN v.from <= y ELSE v.to < y
        BY <3>3, <4>1
      <4> QED
        BY <4>2 DEF NothingLater
    <3> QED
      BY <3>1, <3>2, <3>3
  <2> QED
    BY <2>1, <2>2
<1>5. writes' \in Nat /\ latest' \in Years /\ forward' \in BOOLEAN /\ latest' = y
  BY <1>1, <1>3
<1>6. forward' => \A n \in OrgRows : NothingLater(orgVersions[n], latest) /\ latest <= y
  <2>1. y \in Int /\ latest \in Int
    BY <1>3 DEF Years
  <2> QED
    BY <1>1, <2>1 DEF NodesOK
<1>7. forward' => \A n \in OrgRows : NothingLater(orgVersions'[n], latest')
  BY <1>4, <1>5, <1>6
<1>8. \A n \in OrgRows : LineageOK(liveRow'[n], orgVersions'[n])
  BY <1>4
<1> QED
  BY <1>5, <1>7, <1>8 DEF NodesOK

LEMMA SameNodes ==
  ASSUME NodesOK, UNCHANGED database
  PROVE  NodesOK'
BY DEF NodesOK, database

\* One after the last has a number.
LEMMA NextOrderIsNumber ==
  ASSUME NodesOK, NEW y \in Years, NEW list, IsList(list), \A n \in ToSet(list) : Exists(n, y), NEW least \in Int
  PROVE  NextOrder(list, y, least) \in Int
<1> DEFINE S == ToSet(list)
           pos == [n \in S |-> Resolved(n, y).order]
           V == {Resolved(n, y).order : n \in S}
           last == CHOOSE k \in V : \A n \in S : Resolved(n, y).order <= k
<1>1. NextOrder(list, y, least) = IF list = <<>> THEN least ELSE 1 + last
  BY DEF NextOrder
<1>2. CASE list # <<>>
  <2>1. S # {}
    <3>1. Len(list) # 0
      <4> SUFFICES ASSUME Len(list) = 0 PROVE FALSE
        OBVIOUS
      <4>1. IsList(<<>>) /\ Len(<<>>) = 0 /\ \A i \in 1..0 : list[i] = <<>>[i]
        <5>1. \A i \in 1..0 : FALSE
          OBVIOUS
        <5> QED
          BY <5>1, EmptyList
      <4>2. list = <<>>
        BY <4>1, SameList
      <4> QED
        BY <1>2, <4>2
    <3>2. 1 \in 1..Len(list)
      BY <3>1 DEF IsList
    <3>3. list[1] \in S
      BY <3>2, ListDomain
    <3> QED
      BY <3>3
  <2>2. \A n \in S : n \in Kept /\ n \in OrgRows
    BY DEF Exists, Span, Kept
  <2>3. IsFiniteSet(S) /\ S \in SUBSET Int
    <3>1. S \subseteq OrgRows
      BY <2>2
    <3> HIDE DEF S
    <3> QED
      BY <3>1, SomeRows
  <2>4. \A n \in S : pos[n] = Resolved(n, y).order /\ pos[n] \in Int
    BY <2>2, NodeIs DEF Place
  <2> HIDE DEF pos, S
  <2>5. \E x \in S : \A n \in S : pos[n] <= pos[x]
    BY <2>1, <2>3, <2>4, EndsAre
  <2>6. \E k \in V : \A n \in S : Resolved(n, y).order <= k
    BY <2>4, <2>5
  <2>7. last \in V
    BY <2>6
  <2>8. V \subseteq Int
    BY <2>4
  <2> HIDE DEF last, V
  <2> QED
    BY <1>1, <1>2, <2>7, <2>8
<1> QED
  BY <1>1, <1>2

LEMMA CreateHeadKeeps ==
  ASSUME NodesOK, NEW t, NEW y \in Years, CreateHead(t, y)
  PROVE  NodesOK'
<1> DEFINE least == IF t = "academic" THEN 1 ELSE 0
           list == TreeAt(t, y).order
           row == [up |-> NULL, order |-> NextOrder(list, y, least), from |-> y, abolished |-> NULL]
<1>1. PICK n \in Heads(t) \ Kept : Write([m \in {n} |-> row], y, [m \in {n} |-> "create"])
  BY DEF CreateHead
<1>2. NextOrder(list, y, least) \in Int
  <2>1. IsList(list) /\ ToSet(list) = {h \in Heads(t) : Exists(h, y)}
    <3> DEFINE a == TreeAt(t, y)
               heads == {h \in Heads(t) : Exists(h, y)}
               here == {m \in Members(t) : Exists(m, y)}
               P == [m \in OrgRows |-> Resolved(m, y)]
    <3>1. Arranged(a, t, heads, here, P)
      BY TreeSeen
    <3> HIDE DEF a, here, P
    <3>2. SeenOK(a, t) /\ ToSet(a.order) = heads
      BY <3>1 DEF Arranged
    <3> QED
      BY <3>2 DEF a, SeenOK
  <2>2. least \in Int /\ \A h \in ToSet(list) : Exists(h, y)
    BY <2>1
  <2> HIDE DEF list, least
  <2> QED
    BY <2>1, <2>2, NextOrderIsNumber
<1>3. row \in Place
  BY <1>2 DEF Place, YearOrNull
<1> HIDE DEF row
<1> DEFINE new == [m \in {n} |-> row]
           type == [m \in {n} |-> "create"]
<1>4. Write(new, y, type) /\ \A m \in DOMAIN new : new[m] \in Place /\ type[m] \in ChangeTypes
  BY <1>1, <1>3 DEF ChangeTypes
<1> HIDE DEF new, type
<1> QED
  BY <1>4, WriteKeepsNodes

LEMMA CreateMemberKeeps ==
  ASSUME NodesOK, NEW t, NEW h \in Heads(t) \cup {Uncat}, NEW y \in Years, CreateMember(t, h, y)
  PROVE  NodesOK'
<1> DEFINE list == TreeAt(t, y).items[h]
           row == [up |-> h, order |-> NextOrder(list, y, 0), from |-> y, abolished |-> NULL]
<1>1. PICK n \in Members(t) \ Kept : /\ h = Uncat \/ Exists(h, y)
                                     /\ Write([m \in {n} |-> row], y, [m \in {n} |-> "create"])
  BY DEF CreateMember
<1>2. NextOrder(list, y, 0) \in Int
  <2>1. h \in {g \in Heads(t) : Exists(g, y)} \cup {Uncat}
    BY <1>1
  <2>2. IsList(list) /\ \A m \in ToSet(list) : Exists(m, y)
    <3> DEFINE a == TreeAt(t, y)
               heads == {g \in Heads(t) : Exists(g, y)}
               here == {m \in Members(t) : Exists(m, y)}
               P == [m \in OrgRows |-> Resolved(m, y)]
    <3>1. Arranged(a, t, heads, here, P)
      BY TreeSeen
    <3>2. \A m \in here : Exists(m, y)
      OBVIOUS
    <3> HIDE DEF a, heads, here, P
    <3>3. h \in Groups(a) /\ SeenOK(a, t) /\ ToSet(a.items[h]) \subseteq here
      BY <2>1, <3>1 DEF Arranged, heads
    <3> QED
      BY <3>2, <3>3 DEF a, SeenOK
  <2> HIDE DEF list
  <2> QED
    BY <2>2, NextOrderIsNumber
<1>3. row \in Place
  <2>1. h \in OrgRows \cup {Uncat}
    BY RowsOfTabs
  <2> QED
    BY <1>2, <2>1 DEF Place, YearOrNull
<1> HIDE DEF row
<1> DEFINE new == [m \in {n} |-> row]
           type == [m \in {n} |-> "create"]
<1>4. Write(new, y, type) /\ \A m \in DOMAIN new : new[m] \in Place /\ type[m] \in ChangeTypes
  BY <1>1, <1>3 DEF ChangeTypes
<1> HIDE DEF new, type
<1> QED
  BY <1>4, WriteKeepsNodes

LEMMA KeptAreRows ==
  ASSUME NodesOK
  PROVE  \A n : n \in Kept => n \in OrgRows /\ liveRow[n] \in Place
BY DEF NodesOK, LineageOK, Kept

LEMMA RenameKeeps ==
  ASSUME NodesOK, NEW n, NEW y \in Years, RenameRow(n, y)
  PROVE  NodesOK'
<1> DEFINE new == [m \in {n} |-> liveRow[n]]
           type == [m \in {n} |-> "update"]
<1>1. Write(new, y, type) /\ n \in Kept
  BY DEF RenameRow, Exists, Span
<1>2. \A m \in DOMAIN new : new[m] \in Place /\ type[m] \in ChangeTypes
  BY <1>1, KeptAreRows DEF ChangeTypes
<1> HIDE DEF new, type
<1> QED
  BY <1>1, <1>2, WriteKeepsNodes

LEMMA PlaceChanges ==
  ASSUME NEW p \in Place
  PROVE  /\ \A y \in Years : [p EXCEPT !.abolished = y] \in Place
         /\ \A u \in OrgRows \cup {Uncat, NULL} : [p EXCEPT !.up = u] \in Place
         /\ \A u \in OrgRows \cup {Uncat, NULL}, o \in Int : [p EXCEPT !.up = u, !.order = o] \in Place
BY DEF Place, YearOrNull

LEMMA AbolishKeeps ==
  ASSUME NodesOK, NEW t, NEW n, NEW y \in Years, AbolishRow(t, n, y)
  PROVE  NodesOK'
<1> DEFINE moved == IF n \in Series THEN {d \in Departments : Exists(d, y) /\ Resolved(d, y).up = n} ELSE {}
           new == [m \in moved \cup {n} |-> IF m = n THEN [liveRow[n] EXCEPT !.abolished = y]
                                                      ELSE [liveRow[m] EXCEPT !.up = Uncat]]
           type == [m \in moved \cup {n} |-> IF m = n THEN "abolish" ELSE "update"]
<1>1. Write(new, y, type) /\ n \in Kept
  BY DEF AbolishRow, Exists, Span
<1>2. \A m \in moved : m \in Kept
  BY DEF Exists, Span
<1> HIDE DEF moved
<1>3. \A m \in DOMAIN new : new[m] \in Place /\ type[m] \in ChangeTypes
  <2> SUFFICES ASSUME NEW m \in moved \cup {n} PROVE new[m] \in Place /\ type[m] \in ChangeTypes
    OBVIOUS
  <2>1. liveRow[m] \in Place
    BY <1>1, <1>2, KeptAreRows
  <2>2. [liveRow[m] EXCEPT !.abolished = y] \in Place /\ [liveRow[m] EXCEPT !.up = Uncat] \in Place
    BY <2>1, PlaceChanges
  <2>3. new[m] = IF m = n THEN [liveRow[m] EXCEPT !.abolished = y] ELSE [liveRow[m] EXCEPT !.up = Uncat]
    OBVIOUS
  <2>4. type[m] \in ChangeTypes
    BY DEF ChangeTypes
  <2> HIDE DEF new, type
  <2> QED
    BY <2>2, <2>3, <2>4
<1> HIDE DEF new, type
<1> QED
  BY <1>1, <1>3, WriteKeepsNodes

-----------------------------------------------------------------------------
(* The rows of a save tell the tree, each node once.                       *)

HeadRow(a, first, i) == [node |-> a.order[i], up |-> NULL, order |-> first + i - 1]
ItemRow(a, h, i) == [node |-> a.items[h][i], up |-> h, order |-> i - 1]

IsHeadRow(r, a, first) == \E i \in 1..Len(a.order) : r = HeadRow(a, first, i)
IsItemRow(r, a, h) == h \in Groups(a) /\ \E i \in 1..Len(a.items[h]) : r = ItemRow(a, h, i)

RowsTell(rows, a, first) ==
  /\ IsList(rows) /\ first \in Nat
  /\ \A r : r \in ToSet(rows) <=> IsHeadRow(r, a, first) \/ \E h \in Groups(a) : IsItemRow(r, a, h)

LEMMA RowsInAre ==
  ASSUME NEW t, SeenOK(shown, t), NEW h
  PROVE  IsList(RowsIn(h)) /\ \A r : r \in ToSet(RowsIn(h)) <=> IsItemRow(r, shown, h)
<1> DEFINE l == RowsIn(h)
           n == Len(shown.items[h])
<1>1. CASE h \notin Groups(shown)
  <2>1. l = <<>>
    BY <1>1 DEF RowsIn
  <2>2. IsList(<<>>) /\ Len(<<>>) = 0 /\ 1..0 = {}
    BY EmptyList
  <2>3. ToSet(<<>>) = {}
    BY <2>2, ListDomain
  <2> QED
    BY <1>1, <2>1, <2>2, <2>3 DEF IsItemRow
<1>2. CASE h \in Groups(shown)
  <2>1. n \in Nat
    BY <1>2 DEF SeenOK, IsList
  <2>2. l = [i \in 1..n |-> ItemRow(shown, h, i)]
    BY <1>2 DEF RowsIn, ItemRow
  <2> HIDE DEF l
  <2>3. l = [i \in 1..n |-> l[i]] /\ \A i \in 1..n : l[i] = ItemRow(shown, h, i)
    BY <2>2
  <2>4. IsList(l) /\ Len(l) = n
    BY <2>1, <2>3, FunctionIsList
  <2>5. ToSet(l) = {l[i] : i \in 1..n}
    BY <2>4, ListDomain
  <2>6. \A r : r \in ToSet(l) <=> \E i \in 1..n : r = ItemRow(shown, h, i)
    BY <2>3, <2>5
  <2> QED
    BY <1>2, <2>4, <2>6 DEF IsItemRow, l
<1> QED
  BY <1>1, <1>2

LEMMA HeadRowsAre ==
  ASSUME NEW t, SeenOK(shown, t), NEW first
  PROVE  IsList(HeadRows(first)) /\ \A r : r \in ToSet(HeadRows(first)) <=> IsHeadRow(r, shown, first)
<1> DEFINE l == HeadRows(first)
           n == Len(shown.order)
<1>1. n \in Nat
  BY DEF SeenOK, IsList
<1>2. l = [i \in 1..n |-> HeadRow(shown, first, i)]
  BY DEF HeadRows, HeadRow
<1> HIDE DEF l
<1>3. l = [i \in 1..n |-> l[i]] /\ \A i \in 1..n : l[i] = HeadRow(shown, first, i)
  BY <1>2
<1>4. IsList(l) /\ Len(l) = n
  BY <1>1, <1>3, FunctionIsList
<1>5. ToSet(l) = {l[i] : i \in 1..n}
  BY <1>4, ListDomain
<1>6. \A r : r \in ToSet(l) <=> \E i \in 1..n : r = HeadRow(shown, first, i)
  BY <1>3, <1>5
<1> QED
  BY <1>4, <1>6 DEF IsHeadRow, l

\* All rows under the heads in order.
UnderHeads == FlattenSeq([i \in 1..Len(shown.order) |-> RowsIn(shown.order[i])])

LEMMA UnderHeadsAre ==
  ASSUME NEW t, SeenOK(shown, t)
  PROVE  /\ IsList(UnderHeads)
         /\ \A r : r \in ToSet(UnderHeads) <=> \E h \in ToSet(shown.order) : IsItemRow(r, shown, h)
<1> DEFINE n == Len(shown.order)
           ss == [i \in 1..n |-> RowsIn(shown.order[i])]
<1>1. n \in Nat /\ ToSet(shown.order) = {shown.order[i] : i \in 1..n}
  BY ListDomain DEF SeenOK
<1>2. UnderHeads = FlattenSeq(ss)
  BY DEF UnderHeads
<1>3. ss = [i \in 1..n |-> ss[i]] /\ \A i \in 1..n : ss[i] = RowsIn(shown.order[i])
  OBVIOUS
<1> HIDE DEF ss
<1>4. IsList(ss) /\ Len(ss) = n
  BY <1>1, <1>3, FunctionIsList
<1>5. \A i \in 1..Len(ss) : IsList(ss[i])
  BY <1>3, <1>4, RowsInAre
<1>6. IsList(FlattenSeq(ss)) /\ ToSet(FlattenSeq(ss)) = UNION {ToSet(ss[i]) : i \in 1..Len(ss)}
  BY <1>4, <1>5, FlatHolds
<1>7. \A r : r \in UNION {ToSet(ss[i]) : i \in 1..Len(ss)} <=> \E i \in 1..n : r \in ToSet(ss[i])
  BY <1>4
<1>8. \A i \in 1..n : \A r : r \in ToSet(ss[i]) <=> IsItemRow(r, shown, shown.order[i])
  BY <1>3, RowsInAre
<1>9. \A r : r \in ToSet(FlattenSeq(ss)) <=> \E i \in 1..n : IsItemRow(r, shown, shown.order[i])
  BY <1>6, <1>7, <1>8
<1> QED
  BY <1>1, <1>2, <1>6, <1>9

LEMMA SavesTell ==
  ASSUME NEW t, SeenOK(shown, t)
  PROVE  /\ RowsTell(HeadRows(1) \o RowsIn(Uncat) \o UnderHeads, shown, 1)
         /\ RowsTell(HeadRows(0) \o UnderHeads \o RowsIn(Uncat), shown, 0)
<1> DEFINE p == HeadRows(1)
           q == HeadRows(0)
           u == UnderHeads
           s == RowsIn(Uncat)
<1>1. /\ IsList(p) /\ IsList(q) /\ IsList(u) /\ IsList(s)
      /\ \A r : r \in ToSet(p) <=> IsHeadRow(r, shown, 1)
      /\ \A r : r \in ToSet(q) <=> IsHeadRow(r, shown, 0)
      /\ \A r : r \in ToSet(u) <=> \E h \in ToSet(shown.order) : IsItemRow(r, shown, h)
      /\ \A r : r \in ToSet(s) <=> IsItemRow(r, shown, Uncat)
  BY HeadRowsAre, RowsInAre, UnderHeadsAre
<1>2. \A r : (\E h \in Groups(shown) : IsItemRow(r, shown, h))
              <=> IsItemRow(r, shown, Uncat) \/ \E h \in ToSet(shown.order) : IsItemRow(r, shown, h)
  BY DEF SeenOK, IsItemRow
<1> HIDE DEF p, q, u, s
<1>3. /\ IsList(p \o s) /\ ToSet(p \o s) = ToSet(p) \cup ToSet(s)
      /\ IsList(q \o u) /\ ToSet(q \o u) = ToSet(q) \cup ToSet(u)
  BY <1>1, ConcatHolds
<1>4. /\ IsList(p \o s \o u) /\ ToSet(p \o s \o u) = ToSet(p \o s) \cup ToSet(u)
      /\ IsList(q \o u \o s) /\ ToSet(q \o u \o s) = ToSet(q \o u) \cup ToSet(s)
  BY <1>1, <1>3, ConcatHolds
<1>5. RowsTell(p \o s \o u, shown, 1) /\ RowsTell(q \o u \o s, shown, 0)
  BY <1>1, <1>2, <1>3, <1>4 DEF RowsTell
<1> QED
  BY <1>5 DEF p, q, u, s

\* A row puts a node somewhere, and each node has one row.
LEMMA RowsAre ==
  ASSUME NEW t, NEW a, SeenOK(a, t), NEW rows, NEW first, RowsTell(rows, a, first)
  PROVE  /\ \A r \in ToSet(rows) : r.up \in OrgRows \cup {Uncat, NULL} /\ r.order \in Int
         /\ \A r, s \in ToSet(rows) : r.node = s.node => r = s
<1>1. ASSUME NEW r, IsHeadRow(r, a, first)
      PROVE  r.up = NULL /\ r.order \in Int /\ r.node \in Heads(t)
  <2>1. PICK i \in 1..Len(a.order) : r = HeadRow(a, first, i)
    BY <1>1 DEF IsHeadRow
  <2>2. a.order[i] \in ToSet(a.order) /\ i \in Int /\ first \in Int
    BY ListDomain DEF SeenOK, RowsTell
  <2> QED
    BY <2>1, <2>2 DEF HeadRow, SeenOK
<1>2. ASSUME NEW r, NEW h \in Groups(a), IsItemRow(r, a, h)
      PROVE  r.up = h /\ r.order \in Int /\ r.node \in ToSet(a.items[h]) /\ r.node \in Members(t)
  <2>1. PICK i \in 1..Len(a.items[h]) : r = ItemRow(a, h, i)
    BY <1>2 DEF IsItemRow
  <2>2. a.items[h][i] \in ToSet(a.items[h]) /\ i \in Int
    BY ListDomain DEF SeenOK
  <2> QED
    BY <2>1, <2>2 DEF ItemRow, SeenOK
<1>3. \A h \in Groups(a) : h \in OrgRows \cup {Uncat}
  <2>1. \A h \in Groups(a) : h \in Heads(t) \cup {Uncat}
    BY DEF SeenOK
  <2> QED
    BY <2>1, RowsOfTabs
<1>4. ASSUME NEW r \in ToSet(rows)
      PROVE  IsHeadRow(r, a, first) \/ \E h \in Groups(a) : IsItemRow(r, a, h)
  BY DEF RowsTell
<1>5. \A r \in ToSet(rows) : r.up \in OrgRows \cup {Uncat, NULL} /\ r.order \in Int
  BY <1>1, <1>2, <1>3, <1>4
<1>6. ASSUME NEW r \in ToSet(rows), NEW s \in ToSet(rows), r.node = s.node
      PROVE  r = s
  <2>1. CASE IsHeadRow(r, a, first) /\ IsHeadRow(s, a, first)
    <3>1. PICK i \in 1..Len(a.order) : r = HeadRow(a, first, i)
      BY <2>1 DEF IsHeadRow
    <3>2. PICK j \in 1..Len(a.order) : s = HeadRow(a, first, j)
      BY <2>1 DEF IsHeadRow
    <3>3. a.order[i] = a.order[j]
      BY <1>6, <3>1, <3>2 DEF HeadRow
    <3>4. i = j
      BY <3>3 DEF SeenOK, Distinct
    <3> QED
      BY <3>1, <3>2, <3>4
  <2>2. ASSUME NEW g \in Groups(a), IsItemRow(r, a, g), NEW h \in Groups(a), IsItemRow(s, a, h)
        PROVE  r = s
    <3>1. g = h
      BY <1>2, <1>6, <2>2 DEF SeenOK
    <3>2. PICK i \in 1..Len(a.items[h]) : r = ItemRow(a, h, i)
      BY <2>2, <3>1 DEF IsItemRow
    <3>3. PICK j \in 1..Len(a.items[h]) : s = ItemRow(a, h, j)
      BY <2>2 DEF IsItemRow
    <3>4. a.items[h][i] = a.items[h][j]
      BY <1>6, <3>2, <3>3 DEF ItemRow
    <3>5. i = j
      BY <3>4 DEF SeenOK, Distinct
    <3> QED
      BY <3>2, <3>3, <3>5
  <2>3. ASSUME NEW q, NEW w, IsHeadRow(q, a, first), NEW h \in Groups(a), IsItemRow(w, a, h), q.node = w.node
        PROVE  FALSE
    BY <1>1, <1>2, <2>3, RowsOfTabs
  <2> QED
    BY <1>4, <1>6, <2>1, <2>2, <2>3
<1> QED
  BY <1>5, <1>6

-----------------------------------------------------------------------------
(* A reorder.                                                              *)

Moved(p, r) == [p EXCEPT !.up = r.up, !.order = r.order]

LEMMA Reordered ==
  ASSUME NodesOK, NEW t, NEW a, SeenOK(a, t), NEW rows, NEW first, RowsTell(rows, a, first),
         NEW y \in Years, ReorderRows(rows, y)
  PROVE  /\ NodesOK' /\ latest' = y
         /\ \A n \in OrgRows : \/ liveRow'[n] = liveRow[n]
                               \/ n \in Kept /\ liveRow'[n] \in Place /\ \E r \in ToSet(rows) : liveRow'[n] = Moved(liveRow[n], r)
         /\ (\A r \in ToSet(rows) : Exists(r.node, y) /\ ~RefusedRow(r, y)) =>
              \A r \in ToSet(rows) : liveRow'[r.node].up = r.up /\ liveRow'[r.node].order = r.order
<1> DEFINE done == {i \in 1..Len(rows) : \A j \in 1..i : ~RefusedRow(rows[j], y)}
           told == {rows[i] : i \in {j \in done : Written(rows[j], y)}}
           Of(n) == CHOOSE r \in told : r.node = n
           nodes == {r.node : r \in told}
           new == [n \in nodes |-> [liveRow[n] EXCEPT !.up = Of(n).up, !.order = Of(n).order]]
           type == [n \in nodes |-> "update"]
<1>1. Write(new, y, type)
  BY DEF ReorderRows
<1>2. ToSet(rows) = {rows[i] : i \in 1..Len(rows)} /\ Len(rows) \in Nat
  BY ListDomain DEF RowsTell
<1>3. \A r \in told : r \in ToSet(rows) /\ Written(r, y)
  BY <1>2
<1>4. ASSUME \A r \in ToSet(rows) : ~RefusedRow(r, y), NEW r \in ToSet(rows), Written(r, y)
      PROVE  r \in told
  <2>1. PICK i \in 1..Len(rows) : r = rows[i]
    BY <1>2
  <2>2. \A j \in 1..i : j \in 1..Len(rows)
    BY <1>2, <2>1
  <2>3. \A j \in 1..i : ~RefusedRow(rows[j], y)
    BY <1>2, <1>4, <2>2
  <2> QED
    BY <1>4, <2>1, <2>3
<1> HIDE DEF done, told
<1>5. ASSUME NEW n \in nodes PROVE Of(n) \in told /\ Of(n).node = n /\ n \in Kept
  <2>1. \E r \in told : r.node = n
    OBVIOUS
  <2>2. Of(n) \in told /\ Of(n).node = n
    BY <2>1
  <2>3. Written(Of(n), y)
    BY <1>3, <2>2
  <2> HIDE DEF Of
  <2> QED
    BY <2>2, <2>3 DEF Written, Exists, Span
<1>6. \A n \in nodes : new[n] = Moved(liveRow[n], Of(n)) /\ type[n] = "update"
  BY DEF Moved
<1>7. DOMAIN new = nodes /\ \A r \in told : r.node \in nodes
  OBVIOUS
<1> HIDE DEF new, type, nodes, Of
<1>8. \A n \in nodes : new[n] \in Place /\ type[n] \in ChangeTypes
  <2> SUFFICES ASSUME NEW n \in nodes PROVE new[n] \in Place /\ type[n] \in ChangeTypes
    OBVIOUS
  <2>1. liveRow[n] \in Place
    BY <1>5, KeptAreRows
  <2>2. Of(n).up \in OrgRows \cup {Uncat, NULL} /\ Of(n).order \in Int
    BY <1>3, <1>5, RowsAre
  <2>3. Moved(liveRow[n], Of(n)) \in Place
    BY <2>1, <2>2, PlaceChanges DEF Moved
  <2> QED
    BY <1>6, <2>3 DEF ChangeTypes
<1>9. NodesOK'
  BY <1>1, <1>7, <1>8, WriteKeepsNodes
<1>10. /\ liveRow' = [n \in OrgRows |-> IF n \in nodes THEN new[n] ELSE liveRow[n]]
       /\ latest' = y
  BY <1>1, <1>7 DEF Write
<1>11. \A n \in OrgRows : \/ liveRow'[n] = liveRow[n]
                          \/ n \in Kept /\ liveRow'[n] \in Place /\ \E r \in ToSet(rows) : liveRow'[n] = Moved(liveRow[n], r)
  BY <1>3, <1>5, <1>6, <1>8, <1>10
<1>12. ASSUME \A r \in ToSet(rows) : Exists(r.node, y) /\ ~RefusedRow(r, y), NEW r \in ToSet(rows)
       PROVE  liveRow'[r.node].up = r.up /\ liveRow'[r.node].order = r.order
  <2> DEFINE n == r.node
  <2>1. n \in Kept /\ n \in OrgRows /\ liveRow[n] \in Place /\ Exists(n, y)
    <3>1. Exists(n, y)
      BY <1>12
    <3> QED
      BY <3>1, KeptAreRows DEF Exists, Span
  <2>2. CASE n \in nodes
    <3>1. Of(n) = r
      BY <1>3, <1>5, <2>2, RowsAre
    <3>2. liveRow'[n] = Moved(liveRow[n], r)
      BY <1>6, <1>10, <2>1, <2>2, <3>1
    <3>3. Moved(liveRow[n], r).up = r.up /\ Moved(liveRow[n], r).order = r.order
      BY <2>1 DEF Moved, Place
    <3> QED
      BY <3>2, <3>3
  <2>3. CASE n \notin nodes
    <3>1. r \notin told
      BY <1>7, <2>3
    <3>2. ~Written(r, y)
      BY <1>4, <1>12, <3>1
    <3>3. ~Differs(r)
      BY <2>1, <3>2 DEF Written
    <3>4. liveRow'[n] = liveRow[n]
      BY <1>10, <2>1, <2>3
    <3> QED
      BY <3>3, <3>4 DEF Differs
  <2> QED
    BY <2>2, <2>3
<1> QED
  BY <1>9, <1>10, <1>11, <1>12

\* A node exists in a year after a reorder if it did before.
LEMMA ReorderKeepsYears ==
  ASSUME NodesOK, NodesOK', NEW rows,
         \A n \in OrgRows : \/ liveRow'[n] = liveRow[n]
                            \/ n \in Kept /\ liveRow'[n] \in Place /\ \E r \in ToSet(rows) : liveRow'[n] = Moved(liveRow[n], r)
  PROVE  \A n, y : Exists(n, y)' <=> Exists(n, y)
<1>1. ASSUME NEW n \in OrgRows
      PROVE  /\ liveRow'[n] # NULL <=> liveRow[n] # NULL
             /\ liveRow[n] # NULL => liveRow'[n].from = liveRow[n].from /\ liveRow'[n].abolished = liveRow[n].abolished
  <2>1. CASE liveRow'[n] = liveRow[n]
    BY <2>1
  <2>2. ASSUME n \in Kept, liveRow'[n] \in Place, NEW r, liveRow'[n] = Moved(liveRow[n], r)
        PROVE  /\ liveRow'[n] # NULL /\ liveRow[n] # NULL
               /\ liveRow'[n].from = liveRow[n].from /\ liveRow'[n].abolished = liveRow[n].abolished
    <3>1. liveRow[n] \in Place
      BY <2>2, KeptAreRows
    <3>2. Moved(liveRow[n], r).from = liveRow[n].from /\ Moved(liveRow[n], r).abolished = liveRow[n].abolished
      BY <3>1 DEF Moved, Place
    <3>3. liveRow[n] # NULL /\ liveRow'[n] # NULL
      BY <2>2, <3>1, PlaceAssumption
    <3> QED
        BY <2>2, <3>2, <3>3
  <2> QED
    BY <2>1, <2>2
<1>2. \A n : n \in Kept' <=> n \in Kept
  BY <1>1 DEF Kept
<1> SUFFICES ASSUME NEW n, NEW y PROVE Exists(n, y)' <=> Exists(n, y)
  OBVIOUS
<1>3. Exists(n, y)' <=> y \in Years /\ n \in Kept' /\ ActiveAt(liveRow'[n].from, liveRow'[n].abolished, y)
  BY DEF Exists, Span
<1>4. Exists(n, y) <=> y \in Years /\ n \in Kept /\ ActiveAt(liveRow[n].from, liveRow[n].abolished, y)
  BY DEF Exists, Span
<1> QED
  BY <1>1, <1>2, <1>3, <1>4 DEF Kept

\* After a reorder the year shows the tree that its rows tell, unless a node has come or gone.
LEMMA ReorderShows ==
  ASSUME NodesOK, NEW t, NEW seen, SeenOK(seen, t), NEW rows, NEW first, RowsTell(rows, seen, first),
         NEW y \in Years, ReorderRows(rows, y), forward'
  PROVE  StoresSeen(t, y, seen)'
<1> DEFINE heads == {h \in Heads(t) : Exists(h, y)'}
           here == {n \in Members(t) : Exists(n, y)'}
           P == [n \in OrgRows |-> Resolved(n, y)']
           stored == TreeAt(t, y)'
<1>1. stored = TreeFrom(t, heads, here, P)
  BY TreeThenIs DEF TreeNow
<1>2. /\ NodesOK' /\ latest' = y
      /\ \A n \in OrgRows : \/ liveRow'[n] = liveRow[n]
                            \/ n \in Kept /\ liveRow'[n] \in Place /\ \E r \in ToSet(rows) : liveRow'[n] = Moved(liveRow[n], r)
      /\ (\A r \in ToSet(rows) : Exists(r.node, y) /\ ~RefusedRow(r, y)) =>
           \A r \in ToSet(rows) : liveRow'[r.node].up = r.up /\ liveRow'[r.node].order = r.order
  BY Reordered
<1>3. \A n : Exists(n, y)' <=> Exists(n, y)
  BY <1>2, ReorderKeepsYears
<1>4. heads \in SUBSET Heads(t) /\ here \in SUBSET Members(t)
  OBVIOUS
<1>5. ASSUME NEW n \in heads \cup here PROVE P[n] = liveRow'[n] /\ P[n] \in Place
  <2>1. n \in Kept' /\ n \in OrgRows
    BY RowsOfTabs DEF Exists, Span
  <2>2. Resolved(n, y)' \in Place /\ Resolved(n, y)' = liveRow'[n]
    BY <1>2, <2>1, NodeThenIs
  <2> QED
    BY <2>1, <2>2
<1>6. \A h \in heads : Exists(h, y)
  BY <1>3
<1>7. \A n \in here : Exists(n, y)
  BY <1>3
<1> HIDE DEF heads, here, P, stored
<1>8. Arranged(stored, t, heads, here, P)
  BY <1>1, <1>4, <1>5, TreeFromSeen
<1> SUFFICES ASSUME ItemsOf(stored) = ItemsOf(seen), Groups(stored) = Groups(seen) PROVE stored = seen
  BY DEF StoresSeen, stored
<1>9. Held(stored) = Held(seen) /\ Groups(seen) = heads \cup {Uncat} /\ Held(seen) \subseteq here
  <2>1. SeenOK(stored, t) /\ Groups(stored) = heads \cup {Uncat} /\ Held(stored) \subseteq here
    BY <1>8 DEF Arranged
  <2>2. ItemsOf(stored) = Held(stored) /\ ItemsOf(seen) = Held(seen)
    BY <2>1, SeenItems
  <2> QED
    BY <2>1, <2>2
<1>10. ASSUME NEW i \in 1..Len(seen.order) PROVE seen.order[i] \in heads
  <2>1. seen.order[i] \in ToSet(seen.order) /\ seen.order[i] \in Heads(t)
    BY ListDomain DEF SeenOK
  <2>2. Groups(seen) = ToSet(seen.order) \cup {Uncat}
    <3>1. Groups(seen) # {}
      BY <1>9
    <3> QED
      BY <3>1 DEF SeenOK
  <2> QED
    BY <1>9, <2>1, <2>2, RowsOfTabs
<1>11. ASSUME NEW h \in Groups(seen), NEW i \in 1..Len(seen.items[h]) PROVE seen.items[h][i] \in here
  <2>1. seen.items[h][i] \in ToSet(seen.items[h])
    BY ListDomain DEF SeenOK
  <2> QED
    BY <1>9, <2>1, HeldAre
<1>12. ASSUME NEW r \in ToSet(rows) PROVE Exists(r.node, y) /\ ~RefusedRow(r, y)
  <2>1. CASE IsHeadRow(r, seen, first)
    <3>1. PICK i \in 1..Len(seen.order) : r = HeadRow(seen, first, i)
      BY <2>1 DEF IsHeadRow
    <3>2. r.node \in heads /\ r.up = NULL
      BY <1>10, <3>1 DEF HeadRow
    <3> QED
      BY <1>6, <3>2 DEF RefusedRow
  <2>2. ASSUME NEW h \in Groups(seen), IsItemRow(r, seen, h) PROVE Exists(r.node, y) /\ ~RefusedRow(r, y)
    <3>1. PICK i \in 1..Len(seen.items[h]) : r = ItemRow(seen, h, i)
      BY <2>2 DEF IsItemRow
    <3>2. r.node \in here /\ r.up = h
      BY <1>11, <3>1 DEF ItemRow
    <3>3. h = Uncat \/ Exists(h, y)
      BY <1>6, <1>9
    <3> QED
      BY <1>7, <3>2, <3>3 DEF RefusedRow
  <2> QED
    BY <2>1, <2>2 DEF RowsTell
<1>13. \A r \in ToSet(rows) : liveRow'[r.node].up = r.up /\ liveRow'[r.node].order = r.order
  BY <1>2, <1>12
<1>14. ASSUME NEW i \in 1..Len(seen.order) PROVE P[seen.order[i]].order = first + i - 1
  <2> DEFINE r == HeadRow(seen, first, i)
  <2>1. r.node = seen.order[i] /\ r.order = first + i - 1
    BY DEF HeadRow
  <2>2. r \in ToSet(rows)
    BY DEF RowsTell, IsHeadRow
  <2> HIDE DEF r
  <2> QED
    BY <1>5, <1>10, <1>13, <2>1, <2>2
<1>15. ASSUME NEW h \in Groups(seen), NEW i \in 1..Len(seen.items[h])
       PROVE  P[seen.items[h][i]].up = h /\ P[seen.items[h][i]].order = i - 1
  <2> DEFINE r == ItemRow(seen, h, i)
  <2>1. r.node = seen.items[h][i] /\ r.up = h /\ r.order = i - 1
    BY DEF ItemRow
  <2>2. r \in ToSet(rows)
    BY DEF RowsTell, IsItemRow
  <2> HIDE DEF r
  <2> QED
    BY <1>5, <1>11, <1>13, <2>1, <2>2
<1>16. first \in Int
  BY DEF RowsTell
<1>17. Groups(seen) = Groups(stored) /\ Held(seen) = Held(stored)
  BY <1>9
<1>18. \A n \in heads \cup here : P[n] \in Place
  BY <1>5
<1>19. PlacedAs(seen, P, first)
  BY <1>14, <1>15 DEF PlacedAs
<1>20. MadeOf(stored, seen, t, heads, here, P, first)
  BY <1>1, <1>4, <1>16, <1>17, <1>18, <1>19 DEF MadeOf
<1> QED
  BY <1>20, TreeIsSeen

-----------------------------------------------------------------------------
(* The organisation page keeps what a save rests on: the trees it shows    *)
(* and sends, and the rows of the nodes.                                   *)

OrderCall(c, t) ==
  /\ DOMAIN c = CallFields /\ c.mounted \in BOOLEAN /\ c.year \in Years /\ (c.mounted => c.tab = t)
  /\ c.op = "createMember" => c.x \in Heads(c.tab) \cup {Uncat}
  /\ c.op = "save" => SeenOK(c.seen, c.tab) /\ \E first : RowsTell(c.rows, c.seen, first)

OrderCalls(cs, t) == IsList(cs) /\ \A i \in 1..Len(cs) : OrderCall(cs[i], t)

Screen == SeenOK(shown, tab) /\ IsList(ticked) /\ Distinct(ticked)

OrderInv == NodesOK /\ year \in Years /\ Screen /\ OrderCalls(calls, tab)

LEMMA OrderLonger ==
  ASSUME NEW cs, NEW t, OrderCalls(cs, t), NEW c, OrderCall(c, t)
  PROVE  OrderCalls(Append(cs, c), t)
<1> DEFINE new == Append(cs, c)
<1>1. IsList(cs) /\ Len(cs) \in Nat
  BY DEF OrderCalls, IsList
<1>2. /\ IsList(new) /\ Len(new) = Len(cs) + 1
      /\ (\A i \in 1..Len(cs) : new[i] = cs[i]) /\ new[Len(cs) + 1] = c
  BY <1>1, LongerList
<1> HIDE DEF new
<1>3. ASSUME NEW i \in 1..Len(new) PROVE OrderCall(new[i], t)
  <2>1. i \in 1..Len(cs) \/ i = Len(cs) + 1
    BY <1>1, <1>2
  <2> QED
    BY <1>2, <2>1 DEF OrderCalls
<1> QED
  BY <1>2, <1>3 DEF OrderCalls, new

LEMMA OrderRest ==
  ASSUME NEW cs, NEW t, OrderCalls(cs, t), cs # <<>>
  PROVE  OrderCalls(Tail(cs), t) /\ OrderCall(cs[1], t)
<1> DEFINE n == Len(cs)
           new == Tail(cs)
<1>1. /\ n \in Nat \ {0} /\ IsList(new) /\ Len(new) = n - 1
      /\ \A i \in 1..(n - 1) : new[i] = cs[i + 1]
  BY TailList DEF OrderCalls
<1> HIDE DEF new
<1>2. 1 \in 1..n /\ \A i \in 1..(n - 1) : i + 1 \in 1..n
  BY <1>1
<1> QED
  BY <1>1, <1>2 DEF OrderCalls, new

LEMMA PlainCalls ==
  /\ \A t : \A y \in Years : OrderCall(Load(t, y), t)
  /\ \A t, u : \A y \in Years, b \in BOOLEAN : (b => t = u) => OrderCall([Load(t, y) EXCEPT !.mounted = b], u)
BY DEF Load, OrderCall, CallFields

LEMMA OrderLeft ==
  ASSUME NEW cs, NEW t, OrderCalls(cs, t), NEW u
  PROVE  OrderCalls([i \in 1..Len(cs) |-> [cs[i] EXCEPT !.mounted = FALSE]], u)
<1> DEFINE n == Len(cs)
           l == [i \in 1..n |-> [cs[i] EXCEPT !.mounted = FALSE]]
<1>1. n \in Nat /\ \A i \in 1..n : OrderCall(cs[i], t)
  BY DEF OrderCalls, IsList
<1>2. l = [i \in 1..n |-> l[i]] /\ \A i \in 1..n : l[i] = [cs[i] EXCEPT !.mounted = FALSE]
  OBVIOUS
<1> HIDE DEF l
<1>3. IsList(l) /\ Len(l) = n
  BY <1>1, <1>2, FunctionIsList
<1>4. ASSUME NEW c, OrderCall(c, t) PROVE OrderCall([c EXCEPT !.mounted = FALSE], u)
  <2> DEFINE d == [c EXCEPT !.mounted = FALSE]
  <2>1. DOMAIN c = CallFields
    BY <1>4 DEF OrderCall
  <2>2. /\ DOMAIN d = CallFields /\ d.mounted = FALSE /\ d.op = c.op /\ d.tab = c.tab /\ d.year = c.year
        /\ d.x = c.x /\ d.rows = c.rows /\ d.seen = c.seen
    BY <2>1 DEF CallFields
  <2> HIDE DEF d
  <2>3. OrderCall(d, u)
    BY <1>4, <2>2 DEF OrderCall
  <2> QED
    BY <2>3 DEF d
<1>5. \A i \in 1..n : OrderCall(l[i], u)
  BY <1>1, <1>2, <1>4
<1>6. OrderCalls(l, u)
  BY <1>3, <1>5 DEF OrderCalls
<1> QED
  BY <1>6 DEF l

\* What one of the page asks for.
LEMMA OrderAsks ==
  ASSUME OrderInv, NEW op, NEW x, NEW rows, Emit(Call(op, x, rows)),
         UNCHANGED <<database, tab, year, shown, ticked>>,
         op = "createMember" => x \in Heads(tab) \cup {Uncat},
         op = "save" => \E first : RowsTell(rows, shown, first)
  PROVE  OrderInv'
<1> DEFINE c == Call(op, x, rows)
<1>1. /\ DOMAIN c = CallFields /\ c.mounted = TRUE /\ c.year = year /\ c.tab = tab /\ c.op = op /\ c.x = x
      /\ c.rows = rows /\ c.seen = shown
  BY DEF Call, CallFields
<1>2. calls' = Append(calls, c)
  BY DEF Emit
<1> HIDE DEF c
<1>3. OrderCall(c, tab)
  BY <1>1 DEF OrderCall, OrderInv, Screen
<1>4. OrderCalls(calls', tab)
  BY <1>2, <1>3, OrderLonger DEF OrderInv
<1>5. OrderCalls(calls, tab)' /\ Screen' /\ year' \in Years
  BY <1>4 DEF OrderInv, Screen
<1>6. NodesOK'
  BY SameNodes DEF OrderInv
<1> QED
  BY <1>5, <1>6 DEF OrderInv

\* The screen is changed, and nothing else.
LEMMA OrderMoves ==
  ASSUME OrderInv, UNCHANGED <<database, tab, year, calls>>, SeenOK(shown', tab), IsList(ticked'), Distinct(ticked')
  PROVE  OrderInv'
<1>1. NodesOK'
  BY SameNodes DEF OrderInv
<1> QED
  BY <1>1 DEF OrderInv, Screen

LEMMA OrderTicks ==
  ASSUME OrderInv, NEW rows, IsList(rows), Distinct(rows), Tick(rows)
  PROVE  OrderInv'
<1>1. IsList(ticked) /\ Distinct(ticked) /\ SeenOK(shown, tab)
  BY DEF OrderInv, Screen
<1>2. IsList(Toggled(ticked, rows)) /\ Distinct(Toggled(ticked, rows))
  <2>1. IsList(Toggled(ticked, rows))
    BY <1>1, ToggledList
  <2>2. CASE ToSet(rows) \subseteq ToSet(ticked)
    BY <1>1, <2>1, <2>2, FilterDistinct DEF Toggled
  <2>3. CASE ~(ToSet(rows) \subseteq ToSet(ticked))
    <3> DEFINE more == Without(rows, ToSet(ticked))
    <3>1. IsList(more) /\ Distinct(more) /\ ToSet(more) = ToSet(rows) \ ToSet(ticked)
      BY WithoutHolds, FilterDistinct
    <3>2. Toggled(ticked, rows) = ticked \o more
      BY <2>3 DEF Toggled
    <3> HIDE DEF more
    <3>3. ToSet(ticked) \cap ToSet(more) = {}
      BY <3>1
    <3> QED
      BY <1>1, <2>1, <3>1, <3>2, <3>3, JoinDistinct
  <2> QED
    BY <2>1, <2>2, <2>3
<1>3. ticked' = Toggled(ticked, rows) /\ UNCHANGED <<database, tab, year, calls, shown>>
  BY DEF Tick
<1> QED
  BY <1>1, <1>2, <1>3, OrderMoves

LEMMA NothingTicked == IsList(<<>>) /\ Distinct(<<>>)
BY EmptySeen DEF SeenOK, Empty

LEMMA OrderMoveItems ==
  ASSUME OrderInv, NEW ids, IsList(ids), Distinct(ids), NEW h, NEW at \in Nat, MoveTicked(MoveItems(shown, ids, h, at))
  PROVE  OrderInv'
<1>1. SeenOK(MoveItems(shown, ids, h, at), tab)
  BY MoveKeepsSeen DEF OrderInv, Screen
<1>2. shown' = MoveItems(shown, ids, h, at) /\ ticked' = <<>> /\ UNCHANGED <<database, tab, year, calls>>
  BY DEF MoveTicked
<1> QED
  BY <1>1, <1>2, NothingTicked, OrderMoves

LEMMA OrderMoveHeads ==
  ASSUME OrderInv, NEW from, NEW to, DragHead(MoveGroup(shown, from, to))
  PROVE  OrderInv'
<1>1. SeenOK(MoveGroup(shown, from, to), tab)
  BY GroupKeepsSeen DEF OrderInv, Screen
<1>2. shown' = MoveGroup(shown, from, to) /\ ticked' = ticked /\ UNCHANGED <<database, tab, year, calls>>
  BY DEF DragHead
<1> QED
  BY <1>1, <1>2, OrderMoves DEF OrderInv, Screen

LEMMA OrderDrags ==
  ASSUME OrderInv, NEW n, NEW from, NEW h \in Groups(shown), NEW at, DragDept(n, from, h, at) \/ DragOffice(n, from, h, at)
  PROVE  OrderInv'
<1> DEFINE ids == Dragged(ticked, n)
           to == DropIndex(shown, ids, from, h, at)
<1>1. IsList(ids) /\ Distinct(ids)
  BY OneInList DEF Dragged, OrderInv, Screen
<1>2. MayDrop(n, from, h, at) /\ MoveTicked(MoveItems(shown, ids, h, to))
  BY DEF DragDept, DragOffice, MoveDepts, MoveOffices
<1>3. at \in Nat
  <2> DEFINE l == DropRows(shown, n, h)
  <2>1. IsList(shown.items[h])
    BY DEF OrderInv, Screen, SeenOK
  <2>2. IsList(l)
    BY <2>1, WithoutHolds DEF DropRows
  <2>3. Len(l) \in Nat /\ at \in 0..Len(l)
    BY <1>2, <2>2 DEF MayDrop, IsList
  <2> QED
    BY <2>3
<1>4. to \in Nat
  <2> DEFINE T == {i \in 1..at : i <= Len(shown.items[h]) /\ shown.items[h][i] \in ToSet(ids)}
  <2>1. at \in Int /\ 1 \in Int
    BY <1>3
  <2>2. IsFiniteSet(1..at) /\ Cardinality(1..at) = at
    BY <1>3, <2>1, FS_Interval
  <2>3. T \in SUBSET (1..at)
    OBVIOUS
  <2>4. to = at \/ to = at - Cardinality(T)
    BY DEF DropIndex
  <2> HIDE DEF T, to
  <2>5. Cardinality(T) \in Nat /\ Cardinality(T) <= at
    BY <2>2, <2>3, FS_Subset, FS_CardinalityType
  <2> QED
    BY <1>3, <2>4, <2>5
<1> HIDE DEF ids, to
<1> QED
  BY <1>1, <1>2, <1>4, OrderMoveItems

LEMMA UserKeepsOrder ==
  ASSUME OrderInv
  PROVE  /\ \A d \in ItemsOf(shown) : TickDepartment(d) \/ RenameDept(d) \/ DeleteDept(d)
                                      \/ TickOffice(d) \/ Rename(d) \/ Abolish(d) => OrderInv'
         /\ \A h \in Groups(shown) : TickSeries(h) \/ BulkMoveDepts(h) \/ AddDept(h) \/ RenameSeries(h) \/ DeleteSeries(h)
              \/ TickGroup(h) \/ BulkMoveOffices(h) \/ AddOffice(h) \/ Rename(h) \/ Abolish(h) => OrderInv'
         /\ \A n, from, at : \A h \in Groups(shown) : DragDept(n, from, h, at) \/ DragOffice(n, from, h, at) => OrderInv'
         /\ \A from, to : ReorderSeries(from, to) \/ ReorderCategories(from, to) => OrderInv'
         /\ ClearTicks \/ SaveSeries \/ SaveOffices \/ AddSeries \/ AddOfficeGroup => OrderInv'
<1>0. SeenOK(shown, tab) /\ IsList(ticked) /\ Distinct(ticked)
  BY DEF OrderInv, Screen
<1>1. ASSUME NEW op, NEW x, op # "save", op = "createMember" => x \in Heads(tab) \cup {Uncat}, Ask(op, x)
      PROVE  OrderInv'
  <2>1. Emit(Call(op, x, <<>>)) /\ UNCHANGED <<database, tab, year, shown, ticked>>
    BY <1>1 DEF Ask
  <2> QED
    BY <1>1, <2>1, OrderAsks
<1>2. \A h \in Groups(shown) : /\ h \in Heads(tab) \cup {Uncat} /\ Len(shown.items[h]) \in Nat
                               /\ IsList(shown.items[h]) /\ Distinct(shown.items[h])
  BY <1>0 DEF SeenOK, IsList
<1>3. ASSUME NEW d, TickDepartment(d) \/ TickOffice(d) PROVE OrderInv'
  <2>1. Tick(<<d>>)
    BY <1>3 DEF TickDepartment, TickOffice
  <2> QED
    BY <2>1, OneInList, OrderTicks
<1>4. ASSUME NEW d, RenameDept(d) \/ DeleteDept(d) \/ RenameSeries(d) \/ DeleteSeries(d) \/ Rename(d) \/ Abolish(d)
      PROVE  OrderInv'
  <2>1. Ask("rename", d) \/ Ask("abolish", d)
    BY <1>4 DEF RenameDept, DeleteDept, RenameSeries, DeleteSeries, Rename, Abolish
  <2> QED
    BY <1>1, <2>1
<1>5. ASSUME NEW h \in Groups(shown), TickSeries(h) \/ TickGroup(h) PROVE OrderInv'
  <2>1. Tick(shown.items[h])
    BY <1>5 DEF TickSeries, TickGroup
  <2> QED
    BY <1>2, <2>1, OrderTicks
<1>6. ASSUME NEW h \in Groups(shown), BulkMoveDepts(h) \/ BulkMoveOffices(h) PROVE OrderInv'
  <2>1. MoveTicked(MoveItems(shown, ticked, h, Len(shown.items[h])))
    BY <1>6 DEF BulkMoveDepts, BulkMoveOffices, MoveDepts, MoveOffices
  <2> QED
    BY <1>0, <1>2, <2>1, OrderMoveItems
<1>7. ASSUME NEW h \in Groups(shown), AddDept(h) \/ AddOffice(h) PROVE OrderInv'
  <2>1. Ask("createMember", h)
    BY <1>7 DEF AddDept, AddOffice
  <2> QED
    BY <1>1, <1>2, <2>1
<1>8. ASSUME NEW from, NEW to, ReorderSeries(from, to) \/ ReorderCategories(from, to) PROVE OrderInv'
  <2>1. DragHead(MoveGroup(shown, from, to))
    BY <1>8 DEF ReorderSeries, ReorderCategories
  <2> QED
    BY <2>1, OrderMoveHeads
<1>9. ClearTicks => OrderInv'
  <2> SUFFICES ASSUME ClearTicks PROVE OrderInv'
    OBVIOUS
  <2>1. ticked' = <<>> /\ UNCHANGED <<database, tab, year, calls, shown>>
    BY DEF ClearTicks
  <2> QED
    BY <1>0, <2>1, NothingTicked, OrderMoves
<1>10. AddSeries \/ AddOfficeGroup => OrderInv'
  <2>1. AddSeries \/ AddOfficeGroup => Ask("createHead", NULL)
    BY DEF AddSeries, AddOfficeGroup
  <2> QED
    BY <1>1, <2>1
<1>11. SaveSeries \/ SaveOffices => OrderInv'
  <2> SUFFICES ASSUME SaveSeries \/ SaveOffices PROVE OrderInv'
    OBVIOUS
  <2>1. PICK rows : /\ Emit(Call("save", NULL, rows)) /\ UNCHANGED <<database, tab, year, shown, ticked>>
                    /\ \/ rows = HeadRows(1) \o RowsIn(Uncat) \o UnderHeads
                       \/ rows = HeadRows(0) \o UnderHeads \o RowsIn(Uncat)
    BY DEF SaveSeries, SaveOffices, UnderHeads
  <2>2. \E first : RowsTell(rows, shown, first)
    BY <1>0, <2>1, SavesTell
  <2> QED
    BY <2>1, <2>2, OrderAsks
<1>12. \A d \in ItemsOf(shown) : TickDepartment(d) \/ RenameDept(d) \/ DeleteDept(d)
                                 \/ TickOffice(d) \/ Rename(d) \/ Abolish(d) => OrderInv'
  BY <1>3, <1>4
<1>13. \A h \in Groups(shown) : TickSeries(h) \/ BulkMoveDepts(h) \/ AddDept(h) \/ RenameSeries(h) \/ DeleteSeries(h)
         \/ TickGroup(h) \/ BulkMoveOffices(h) \/ AddOffice(h) \/ Rename(h) \/ Abolish(h) => OrderInv'
  BY <1>4, <1>5, <1>6, <1>7
<1>14. \A n, from, at : \A h \in Groups(shown) : DragDept(n, from, h, at) \/ DragOffice(n, from, h, at) => OrderInv'
  BY OrderDrags
<1> QED
  BY <1>8, <1>9, <1>10, <1>11, <1>12, <1>13, <1>14

LEMMA EditsKeepNodes ==
  ASSUME NodesOK, NEW c, NEW u, OrderCall(c, u),
         \/ c.op = "createHead" /\ CreateHead(c.tab, c.year)
         \/ c.op = "createMember" /\ CreateMember(c.tab, c.x, c.year)
         \/ c.op = "rename" /\ RenameRow(c.x, c.year)
         \/ c.op = "abolish" /\ AbolishRow(c.tab, c.x, c.year)
  PROVE  NodesOK'
<1>1. c.year \in Years /\ (c.op = "createMember" => c.x \in Heads(c.tab) \cup {Uncat})
  BY DEF OrderCall
<1>2. CASE CreateHead(c.tab, c.year)
  BY <1>1, <1>2, CreateHeadKeeps
<1>3. CASE c.op = "createMember" /\ CreateMember(c.tab, c.x, c.year)
  BY <1>1, <1>3, CreateMemberKeeps
<1>4. CASE RenameRow(c.x, c.year)
  BY <1>1, <1>4, RenameKeeps
<1>5. CASE AbolishRow(c.tab, c.x, c.year)
  BY <1>1, <1>5, AbolishKeeps
<1> QED
  BY <1>2, <1>3, <1>4, <1>5

LEMMA AnswerKeepsOrder ==
  ASSUME OrderInv, TreeArrives \/ SaveAnswered \/ EditAnswered \/ CallFails
  PROVE  OrderInv'
<1>0. NodesOK /\ year \in Years /\ SeenOK(shown, tab) /\ IsList(ticked) /\ Distinct(ticked) /\ OrderCalls(calls, tab)
  BY DEF OrderInv, Screen
<1>1. calls # <<>> /\ tab' = tab /\ year' = year
  BY DEF TreeArrives, SaveAnswered, EditAnswered, CallFails, Answered
<1>2. OrderCalls(Rest, tab) /\ OrderCall(Call1, tab)
  BY <1>0, <1>1, OrderRest DEF Rest, Call1
<1>3. ASSUME Reload PROVE OrderCalls(calls', tab)
  <2> DEFINE c == [Load(Call1.tab, Call1.year) EXCEPT !.mounted = Call1.mounted]
  <2>1. Call1.year \in Years /\ Call1.mounted \in BOOLEAN /\ (Call1.mounted => Call1.tab = tab)
    BY <1>2 DEF OrderCall
  <2>2. OrderCall(c, tab)
    BY <2>1, PlainCalls
  <2>3. calls' = Append(Rest, c)
    BY <1>3 DEF Reload
  <2> HIDE DEF c
  <2> QED
    BY <1>2, <2>2, <2>3, OrderLonger
<1>4. ASSUME NodesOK', SeenOK(shown', tab), IsList(ticked'), Distinct(ticked'), OrderCalls(calls', tab)
      PROVE  OrderInv'
  BY <1>0, <1>1, <1>4 DEF OrderInv, Screen
<1>5. CASE TreeArrives
  <2>1. calls' = Rest /\ UNCHANGED database
    BY <1>5 DEF TreeArrives
  <2>2. NodesOK'
    BY <1>0, <2>1, SameNodes
  <2>3. SeenOK(shown', tab) /\ IsList(ticked') /\ Distinct(ticked')
    <3>1. CASE Call1.mounted
      <4>1. shown' = TreeAt(tab, Call1.year) /\ ticked' = <<>>
        BY <1>2, <1>5, <3>1 DEF TreeArrives, OrderCall
      <4> DEFINE y == Call1.year
      <4>2. y \in Years
        BY <1>2 DEF OrderCall
      <4> HIDE DEF y
      <4>3. SeenOK(TreeAt(tab, y), tab)
        BY <1>0, <4>2, TreeSeen DEF Arranged
      <4> QED
        BY <4>1, <4>3, NothingTicked DEF y
    <3>2. CASE ~Call1.mounted
      BY <1>0, <1>5, <3>2 DEF TreeArrives
    <3> QED
      BY <3>1, <3>2
  <2> QED
    BY <1>2, <1>4, <2>1, <2>2, <2>3
<1>6. CASE SaveAnswered
  <2>1. Reload /\ shown' = shown /\ ticked' = ticked
    BY <1>6 DEF SaveAnswered
  <2>2. PICK c : c = Call1
    OBVIOUS
  <2>3. c.op = "save" /\ OrderCall(c, tab) /\ ReorderRows(c.rows, c.year)
    BY <1>2, <1>6, <2>2 DEF SaveAnswered, Answered
  <2>4. PICK first : RowsTell(c.rows, c.seen, first)
    BY <2>3 DEF OrderCall
  <2>5. SeenOK(c.seen, c.tab) /\ c.year \in Years
    BY <2>3 DEF OrderCall
  <2>6. NodesOK'
    BY <1>0, <2>3, <2>4, <2>5, Reordered
  <2> QED
    BY <1>0, <1>3, <1>4, <2>1, <2>6
<1>7. CASE EditAnswered
  <2>1. Reload /\ shown' = shown /\ ticked' = ticked
    BY <1>7 DEF EditAnswered
  <2>2. PICK c : c = Call1
    OBVIOUS
  <2>3. /\ OrderCall(c, tab)
        /\ \/ c.op = "createHead" /\ CreateHead(c.tab, c.year)
           \/ c.op = "createMember" /\ CreateMember(c.tab, c.x, c.year)
           \/ c.op = "rename" /\ RenameRow(c.x, c.year)
           \/ c.op = "abolish" /\ AbolishRow(c.tab, c.x, c.year)
    BY <1>2, <1>7, <2>2 DEF EditAnswered, Answered
  <2>4. NodesOK'
    BY <1>0, <2>3, EditsKeepNodes
  <2> QED
    BY <1>0, <1>3, <1>4, <2>1, <2>4
<1>8. CASE CallFails
  <2>1. calls' = Rest /\ UNCHANGED <<database, ticked>> /\ shown' \in {shown, Empty}
    BY <1>8 DEF CallFails
  <2>2. NodesOK' /\ SeenOK(shown', tab)
    BY <1>0, <2>1, SameNodes, EmptySeen
  <2> QED
    BY <1>0, <1>2, <1>4, <2>1, <2>2
<1> QED
  BY <1>5, <1>6, <1>7, <1>8

LEMMA NextOrderInv ==
  ASSUME OrderInv, [OrgScreensNext]_osvars
  PROVE  OrderInv'
<1>0. NodesOK /\ year \in Years /\ SeenOK(shown, tab) /\ IsList(ticked) /\ Distinct(ticked) /\ OrderCalls(calls, tab)
  BY DEF OrderInv, Screen
<1>1. ASSUME NEW y \in Years, ChangeYear(y) PROVE OrderInv'
  <2>1. year' = y /\ calls' = Append(calls, Load(tab, y)) /\ UNCHANGED <<database, tab, shown, ticked>>
    BY <1>1 DEF ChangeYear, Emit
  <2>2. OrderCalls(calls', tab)
    BY <1>0, <2>1, PlainCalls, OrderLonger
  <2>3. NodesOK'
    BY <1>0, <2>1, SameNodes
  <2> QED
    BY <1>0, <2>1, <2>2, <2>3 DEF OrderInv, Screen
<1>2. ASSUME NEW t \in Tabs, ChangeTab(t) PROVE OrderInv'
  <2> DEFINE left == [i \in 1..Len(calls) |-> [calls[i] EXCEPT !.mounted = FALSE]]
  <2>1. tab' = t /\ shown' = Empty /\ ticked' = <<>> /\ calls' = Append(left, Load(t, year)) /\ UNCHANGED <<database, year>>
    BY <1>2 DEF ChangeTab
  <2>2. OrderCalls(left, t)
    BY <1>0, OrderLeft
  <2> HIDE DEF left
  <2>3. OrderCalls(calls', t)
    BY <1>0, <2>1, <2>2, PlainCalls, OrderLonger
  <2>4. NodesOK' /\ SeenOK(shown', t) /\ IsList(ticked') /\ Distinct(ticked')
    BY <1>0, <2>1, SameNodes, EmptySeen, NothingTicked
  <2> QED
    BY <1>0, <2>1, <2>3, <2>4 DEF OrderInv, Screen
<1>3. CASE UNCHANGED osvars
  <2>1. UNCHANGED <<database, tab, year, calls, shown, ticked>>
    BY <1>3 DEF osvars, database
  <2> QED
    BY <1>0, <2>1, OrderMoves
<1> QED
  BY <1>1, <1>2, <1>3, UserKeepsOrder, AnswerKeepsOrder DEF OrgScreensNext

LEMMA FirstIs ==
  ASSUME NEW S, S \subseteq OrgRows, S # {}
  PROVE  FirstOf(S) \in OrgRows
<1> DEFINE id == [x \in S |-> x]
<1>1. IsFiniteSet(S) /\ S \in SUBSET Int
  BY SomeRows
<1>2. \A x \in S : id[x] = x /\ id[x] \in Int
  BY <1>1
<1> HIDE DEF id
<1>3. \E x \in S : \A y \in S : id[x] <= id[y]
  BY <1>1, <1>2, EndsAre
<1>4. \E x \in S : \A y \in S : x <= y
  BY <1>2, <1>3
<1> QED
  BY <1>4 DEF FirstOf

LEMMA InitOrder == OrgScreensInit => OrderInv
<1> SUFFICES ASSUME OrgScreensInit PROVE OrderInv
  OBVIOUS
<1> DEFINE s == FirstOf(Series)
           g == FirstOf(OfficeGroups)
<1>1. s \in OrgRows /\ g \in OrgRows
  <2>1. Series \subseteq OrgRows /\ OfficeGroups \subseteq OrgRows /\ Series # {} /\ OfficeGroups # {}
    BY OrgScreensAssumption DEF OrgRows
  <2> QED
    BY <2>1, FirstIs
<1> HIDE DEF s, g
<1>2. MinYear \in Years
  BY YearsAssumption DEF Years
<1>3. SeedRow(NULL, 1) \in Place /\ SeedRow(s, 0) \in Place /\ SeedRow(g, 0) \in Place
  BY <1>1, <1>2 DEF SeedRow, Place, YearOrNull
<1>4. ASSUME NEW n \in OrgRows PROVE liveRow[n] \in Place \cup {NULL} /\ orgVersions[n] = {}
  BY <1>3 DEF OrgScreensInit, s, g
<1>5. ASSUME NEW r \in Place \cup {NULL}, NEW m PROVE LineageOK(r, {}) /\ NothingLater({}, m)
  BY DEF LineageOK, NothingLater, OpenRows
<1>6. NodesOK
  <2>1. writes = 0 /\ forward = TRUE /\ latest = MinYear
    BY DEF OrgScreensInit
  <2> QED
    BY <1>2, <1>4, <1>5, <2>1 DEF NodesOK
<1>7. year \in Years /\ shown = Empty /\ ticked = <<>> /\ calls = <<Load(tab, year)>>
  BY DEF OrgScreensInit
<1>8. OrderCalls(calls, tab)
  <2>1. IsList(calls) /\ Len(calls) = 1 /\ calls[1] = Load(tab, year)
    BY <1>7, ShortLists
  <2>2. OrderCall(calls[1], tab)
    BY <1>7, <2>1, PlainCalls
  <2>3. 1..Len(calls) = {1}
    BY <2>1
  <2> QED
    BY <2>1, <2>2, <2>3 DEF OrderCalls
<1> QED
  BY <1>6, <1>7, <1>8, EmptySeen, NothingTicked DEF OrderInv, Screen

\* A save of the order stores the tree that was on the screen when the button was
\* pressed, for its year, unless a row has come or gone in between or something has been
\* written for a later year before: no drag, tab or other request in between changes it.
THEOREM SavesShow == MCSpec => SavedShows
<1>1. MCInit => OrderInv
  BY InitOrder DEF MCInit
<1>2. OrderInv /\ [MCNext]_<<tsvars, osvars, open>> => OrderInv'
  <2>1. [MCNext]_<<tsvars, osvars, open>> => [OrgScreensNext]_osvars
    BY DEF MCNext
  <2> QED
    BY <2>1, NextOrderInv
<1>3. OrderInv /\ [MCNext]_<<tsvars, osvars, open>> =>
        [SaveAnswered /\ forward' => \A c \in {Call1} : StoresSeen(c.tab, c.year, c.seen)']_osvars
  <2> SUFFICES ASSUME OrderInv, SaveAnswered, forward', NEW c, c = Call1
               PROVE  StoresSeen(c.tab, c.year, c.seen)'
    OBVIOUS
  <2>1. calls # <<>> /\ c.op = "save" /\ ReorderRows(c.rows, c.year)
    BY DEF SaveAnswered, Answered
  <2>2. OrderCall(c, tab) /\ NodesOK
    BY <2>1, OrderRest DEF OrderInv, Call1
  <2>3. PICK first : RowsTell(c.rows, c.seen, first)
    BY <2>1, <2>2 DEF OrderCall
  <2>4. SeenOK(c.seen, c.tab) /\ c.year \in Years
    BY <2>1, <2>2 DEF OrderCall
  <2> QED
    BY <2>1, <2>2, <2>3, <2>4, ReorderShows
<1> QED
  BY <1>1, <1>2, <1>3, PTL DEF MCSpec, SavedShows

-----------------------------------------------------------------------------
(* The tree-building screen: what is not marked as unsaved is what is      *)
(* stored.                                                                 *)

LoadWaits(rs) == \E i \in 1..Len(rs) : rs[i].op = "load"

\* Every parent that is stored is a row of the same category, and every row hangs at last
\* below one without a parent.
Upright ==
  /\ \A m \in StoredMetrics : \/ metricRow[m].parent = NULL
                              \/ /\ metricRow[m].parent \in StoredMetrics
                                 /\ metricRow[metricRow[m].parent].cat = metricRow[m].cat
  /\ \A T \in SUBSET StoredMetrics :
       (\A m \in StoredMetrics : metricRow[m].parent = NULL \/ metricRow[m].parent \in T => m \in T) => T = StoredMetrics

\* Every metric of a tree hangs at last below one that lies in a category.
Reached(a) ==
  \A T \in SUBSET DOMAIN a.under :
     (\A g \in Groups(a) : ToSet(a.items[g]) \subseteq T) /\ (\A x \in T : ToSet(a.under[x]) \subseteq T)
       => T = DOMAIN a.under

\* A tree that has what is stored under its metrics, and nests nothing that is stored elsewhere.
Fits(a) ==
  /\ \A m \in StoredMetrics : metricRow[m].parent \in DOMAIN a.under => m \in DOMAIN a.under
  /\ \A x \in DOMAIN a.under : \A m \in ToSet(a.under[x]) \cap StoredMetrics : metricRow[m].parent = x
  /\ Groups(a) \subseteq StoredCats /\ Reached(a)

\* The rows of a save: the same of them.
RowsFit(rows) ==
  /\ \A m \in StoredMetrics : metricRow[m].parent \in DOMAIN rows => m \in DOMAIN rows
  /\ \A m \in StoredMetrics \cap DOMAIN rows :
       /\ rows[m].cat \in StoredCats /\ rows[m] # NULL
       /\ rows[m].parent # NULL => /\ rows[m].parent = metricRow[m].parent /\ rows[m].parent \in DOMAIN rows
                                   /\ rows[rows[m].parent].cat = rows[m].cat

LEMMA StoredIds ==
  /\ StoredMetrics \in SUBSET Metrics /\ NULL \notin Metrics /\ NULL \notin StoredMetrics
  /\ \A m \in Metrics : m \in StoredMetrics <=> metricRow[m] # NULL
BY FiniteIds, NullAssumption DEF StoredMetrics

LEMMA SavedFit ==
  ASSUME TreeOK(tree), Fits(tree)
  PROVE  RowsFit(SavedRows(tree))
<1> DEFINE a == tree
           D == DOMAIN a.under
           cat(m) == CHOOSE h \in Groups(a) : m \in Nested(a, ToSet(a.items[h]))
           In(m) == {h \in Groups(a) : m \in Nested(a, ToSet(a.items[h]))}
           up(m) == IF \E x \in D : m \in ToSet(a.under[x]) THEN CHOOSE x \in D : m \in ToSet(a.under[x]) ELSE NULL
           rows == SavedRows(a)
<1>1. DOMAIN rows = D
  BY ItemsAre DEF SavedRows
<1>2. \A m \in D : rows[m].cat = cat(m) /\ rows[m].parent = up(m)
  BY ItemsAre DEF SavedRows
<1>3. \A h \in Groups(a) :
        /\ Nested(a, ToSet(a.items[h])) \in SUBSET D
        /\ ToSet(a.items[h]) \cap D \subseteq Nested(a, ToSet(a.items[h]))
        /\ \A x \in Nested(a, ToSet(a.items[h])) : ToSet(a.under[x]) \subseteq Nested(a, ToSet(a.items[h]))
        /\ \A m \in Nested(a, ToSet(a.items[h])) :
             m \in ToSet(a.items[h]) \/ \E x \in Nested(a, ToSet(a.items[h])) : m \in ToSet(a.under[x])
  BY NestedHolds
<1>4. \A m : cat(m) = CHOOSE h \in In(m) : TRUE
  <2> SUFFICES ASSUME NEW m PROVE cat(m) = CHOOSE h \in In(m) : TRUE
    OBVIOUS
  <2>1. \A h : h \in Groups(a) /\ m \in Nested(a, ToSet(a.items[h])) <=> h \in In(m) /\ TRUE
    OBVIOUS
  <2> QED
    BY <2>1
<1>5. \A m \in D : In(m) # {}
  <2> DEFINE U == {m \in D : In(m) # {}}
  <2>1. U \in SUBSET D
    OBVIOUS
  <2>2. \A g \in Groups(a) : ToSet(a.items[g]) \subseteq U
    <3> SUFFICES ASSUME NEW g \in Groups(a), NEW m \in ToSet(a.items[g]) PROVE m \in U
      OBVIOUS
    <3>1. m \in D
      BY DEF TreeOK
    <3>2. g \in In(m)
      BY <1>3, <3>1
    <3> QED
      BY <3>1, <3>2
  <2>3. \A x \in U : ToSet(a.under[x]) \subseteq U
    <3> SUFFICES ASSUME NEW x \in U, NEW m \in ToSet(a.under[x]) PROVE m \in U
      OBVIOUS
    <3>1. m \in D
      BY DEF TreeOK
    <3>2. PICK g \in Groups(a) : x \in Nested(a, ToSet(a.items[g]))
      OBVIOUS
    <3>3. g \in In(m)
      BY <1>3, <3>2
    <3> QED
      BY <3>1, <3>3
  <2> HIDE DEF U
  <2>4. U = D
    BY <2>1, <2>2, <2>3 DEF Fits, Reached
  <2> QED
    BY <2>4 DEF U
<1>6. \A m \in D : cat(m) \in Groups(a)
  BY <1>5
<1>7. ASSUME NEW x \in D, NEW m \in ToSet(a.under[x]) PROVE In(m) = In(x) /\ up(m) = x
  <2>1. \A y \in D : m \in ToSet(a.under[y]) => y = x
    BY <1>7 DEF TreeOK
  <2>2. \A g \in Groups(a) : m \notin ToSet(a.items[g])
    BY <1>7 DEF TreeOK
  <2>3. \A h \in Groups(a) : m \in Nested(a, ToSet(a.items[h])) <=> x \in Nested(a, ToSet(a.items[h]))
    BY <1>3, <1>7, <2>1, <2>2
  <2> QED
    BY <1>7, <2>1, <2>3
<1>8. \A m \in D : up(m) # NULL => up(m) \in D /\ m \in ToSet(a.under[up(m)])
  OBVIOUS
<1>9. \A m \in D : up(m) # NULL => cat(up(m)) = cat(m)
  <2> SUFFICES ASSUME NEW m \in D, up(m) # NULL PROVE cat(up(m)) = cat(m)
    OBVIOUS
  <2> DEFINE x == up(m)
  <2>1. x \in D /\ m \in ToSet(a.under[x])
    BY <1>8
  <2> HIDE DEF x
  <2>2. In(m) = In(x)
    BY <1>7, <2>1
  <2> HIDE DEF In, cat
  <2>3. cat(m) = cat(x)
    BY <1>4, <2>2
  <2> QED
    BY <2>3 DEF x
<1> HIDE DEF cat, up
<1>0. \A m \in D : rows[m].order \in Int /\ rows[m] = [cat |-> rows[m].cat, order |-> rows[m].order, parent |-> rows[m].parent]
  BY <1>1, SavedAreNumbers, ItemsAre DEF SavedRows
<1> HIDE DEF rows
<1>10. ASSUME NEW m \in StoredMetrics \cap D
       PROVE  /\ rows[m].cat \in StoredCats /\ rows[m] # NULL
              /\ rows[m].parent # NULL => /\ rows[m].parent = metricRow[m].parent /\ rows[m].parent \in D
                                          /\ rows[rows[m].parent].cat = rows[m].cat
  <2>1. rows[m].cat \in StoredCats
    BY <1>2, <1>6 DEF Fits
  <2>2. ASSUME rows[m].parent # NULL
        PROVE  /\ rows[m].parent = metricRow[m].parent /\ rows[m].parent \in D
               /\ rows[rows[m].parent].cat = rows[m].cat
    <3>1. rows[m].parent = up(m) /\ up(m) \in D /\ m \in ToSet(a.under[up(m)])
      BY <1>2, <1>8, <2>2
    <3>2. metricRow[m].parent = up(m)
      BY <3>1 DEF Fits
    <3>3. rows[up(m)].cat = rows[m].cat
      BY <1>2, <1>9, <2>2, <3>1
    <3> QED
      BY <3>1, <3>2, <3>3
  <2>3. rows[m] # NULL
    <3>1. rows[m].cat \in Cats \cup {Uncat} /\ rows[m].parent \in Metrics \cup {NULL}
      BY <1>2, <1>8, <2>1 DEF StoredCats, TreeOK
    <3> DEFINE r == rows[m]
    <3>2. r.order \in Int /\ r = [cat |-> r.cat, order |-> r.order, parent |-> r.parent]
      BY <1>0, <1>10
    <3>3. r.cat \in Cats \cup {Uncat} /\ r.parent \in Metrics \cup {NULL}
      BY <3>1
    <3> HIDE DEF r
    <3>4. r \in RegistryRow
      BY <3>2, <3>3 DEF RegistryRow
    <3>5. r # NULL
      BY <3>4, RegistryRowAssumption
    <3> QED
      BY <3>5 DEF r
  <2> QED
    BY <2>1, <2>2, <2>3
<1>11. RowsFit(rows)
  BY <1>1, <1>10 DEF RowsFit, Fits
<1> QED
  BY <1>11 DEF rows

\* A save of such rows is stored as a whole and leaves the store upright.
LEMMA FitSaves ==
  ASSUME StoreOK, Upright, NEW rows, RowsFit(rows)
  PROVE  /\ \A m \in DOMAIN rows : ~Breaks(rows, m)
         /\ \A cats : Reorder(cats, rows) => Upright'
<1>1. ASSUME NEW m \in DOMAIN rows PROVE ~Breaks(rows, m)
  <2>1. CASE m \notin StoredMetrics
    BY <2>1 DEF Breaks
  <2>2. CASE m \in StoredMetrics
    <3>1. rows[m].cat \in StoredCats /\ (rows[m].parent # NULL => rows[m].parent = metricRow[m].parent)
      BY <1>1, <2>2 DEF RowsFit
    <3>2. rows[m].parent # NULL => rows[m].parent \in StoredMetrics
      BY <2>2, <3>1 DEF Upright
    <3> QED
      BY <3>1, <3>2 DEF Breaks
  <2> QED
    BY <2>1, <2>2
<1>2. ASSUME NEW cats, Reorder(cats, rows) PROVE Upright'
  <2>1. /\ StoredMetrics' = StoredMetrics
        /\ \A m \in StoredMetrics : metricRow'[m] = IF m \in DOMAIN rows THEN rows[m] ELSE metricRow[m]
    <3>1. \A m \in Metrics : metricRow'[m] = IF m \in DOMAIN rows /\ metricRow[m] # NULL THEN rows[m] ELSE metricRow[m]
      BY <1>2 DEF Reorder
    <3>2. \A m \in StoredMetrics : metricRow'[m] = IF m \in DOMAIN rows THEN rows[m] ELSE metricRow[m]
      BY <3>1 DEF StoredMetrics
    <3>3. \A m \in Metrics : metricRow[m] = NULL => metricRow'[m] = NULL
      BY <3>1
    <3>4. \A m \in StoredMetrics \cap DOMAIN rows : rows[m] # NULL
      BY DEF RowsFit
    <3> QED
      BY <3>2, <3>3, <3>4 DEF StoredMetrics
  <2>2. \A m \in StoredMetrics : metricRow'[m].parent = NULL \/ metricRow'[m].parent = metricRow[m].parent
    BY <2>1 DEF RowsFit
  <2>3. ASSUME NEW m \in StoredMetrics, metricRow'[m].parent # NULL
        PROVE  metricRow'[m].parent \in StoredMetrics /\ metricRow'[metricRow'[m].parent].cat = metricRow'[m].cat
    <3> DEFINE p == metricRow[m].parent
    <3>1. metricRow'[m].parent = p /\ p # NULL
      BY <2>2, <2>3
    <3>2. p \in StoredMetrics /\ metricRow[p].cat = metricRow[m].cat
      BY <3>1 DEF Upright
    <3> HIDE DEF p
    <3>3. CASE m \in DOMAIN rows
      <4>1. rows[m].parent = p
        BY <2>1, <3>1, <3>3
      <4>2. p \in DOMAIN rows /\ rows[p].cat = rows[m].cat
        BY <3>1, <3>3, <4>1 DEF RowsFit
      <4> QED
        BY <2>1, <3>1, <3>2, <3>3, <4>2
    <3>4. CASE m \notin DOMAIN rows
      <4>1. p \notin DOMAIN rows
        BY <3>4 DEF RowsFit, p
      <4> QED
        BY <2>1, <3>1, <3>2, <3>4, <4>1
    <3> QED
      BY <3>3, <3>4
  <2>4. ASSUME NEW T \in SUBSET StoredMetrics,
               \A m \in StoredMetrics : metricRow'[m].parent = NULL \/ metricRow'[m].parent \in T => m \in T
        PROVE  T = StoredMetrics
    <3>1. \A m \in StoredMetrics : metricRow[m].parent = NULL \/ metricRow[m].parent \in T => m \in T
      BY <2>2, <2>4
    <3> QED
      BY <3>1 DEF Upright
  <2> QED
    BY <2>1, <2>3, <2>4 DEF Upright
<1> QED
  BY <1>1, <1>2

LEMMA InsertUpright ==
  ASSUME StoreOK, Upright, NEW m \in Metrics \ StoredMetrics, NEW c \in StoredCats, NEW p,
         p # NULL => p \in StoredMetrics /\ metricRow[p].cat = c, InsertMetric(m, c, p)
  PROVE  Upright'
<1> DEFINE siblings == {x \in StoredMetrics : metricRow[x].cat = c /\ metricRow[x].parent = p}
           pos == [x \in siblings |-> metricRow[x].order]
           new == [cat |-> c, order |-> NextPlace(siblings, pos), parent |-> p]
<1>1. metricRow' = [metricRow EXCEPT ![m] = new]
  BY DEF InsertMetric
<1>2. NextPlace(siblings, pos) \in Int
  <2>1. siblings \in SUBSET Metrics /\ \A x \in siblings : pos[x] \in Int
    BY DEF StoredMetrics, StoreOK
  <2>2. siblings \in SUBSET Int /\ IsFiniteSet(siblings)
    BY <2>1, FiniteIds, FS_Subset
  <2> HIDE DEF siblings, pos
  <2> QED
    BY <2>1, <2>2, NextPlaceIsNumber
<1>3. new # NULL /\ new.cat = c /\ new.parent = p
  <2>1. c \in Cats \cup {Uncat} /\ p \in Metrics \cup {NULL}
    BY DEF StoredCats, StoredMetrics
  <2> HIDE DEF pos, siblings
  <2>2. new \in RegistryRow
    BY <1>2, <2>1 DEF RegistryRow
  <2> QED
    BY <2>2, RegistryRowAssumption
<1> HIDE DEF new
<1>4. metricRow'[m] = new /\ \A x \in Metrics \ {m} : metricRow'[x] = metricRow[x]
  BY <1>1 DEF StoreOK
<1>5. StoredMetrics' = StoredMetrics \cup {m} /\ m \notin StoredMetrics /\ StoredMetrics \subseteq Metrics
  BY <1>3, <1>4 DEF StoredMetrics
<1>6. \A x \in StoredMetrics : metricRow'[x] = metricRow[x]
  BY <1>4, <1>5
<1>7. ASSUME NEW x \in StoredMetrics', metricRow'[x].parent # NULL
      PROVE  metricRow'[x].parent \in StoredMetrics' /\ metricRow'[metricRow'[x].parent].cat = metricRow'[x].cat
  <2>1. CASE x = m
    BY <1>3, <1>4, <1>5, <1>6, <1>7, <2>1
  <2>2. CASE x \in StoredMetrics
    <3>1. metricRow[x].parent \in StoredMetrics /\ metricRow[metricRow[x].parent].cat = metricRow[x].cat
      BY <1>6, <1>7, <2>2 DEF Upright
    <3> QED
      BY <1>5, <1>6, <2>2, <3>1
  <2> QED
    BY <1>5, <2>1, <2>2
<1>8. ASSUME NEW T \in SUBSET StoredMetrics',
             \A x \in StoredMetrics' : metricRow'[x].parent = NULL \/ metricRow'[x].parent \in T => x \in T
      PROVE  T = StoredMetrics'
  <2> DEFINE U == T \cap StoredMetrics
  <2>1. \A x \in StoredMetrics : metricRow[x].parent = NULL \/ metricRow[x].parent \in U => x \in U
    BY <1>5, <1>6, <1>8
  <2>2. U \in SUBSET StoredMetrics
    OBVIOUS
  <2> HIDE DEF U
  <2>3. U = StoredMetrics
    BY <2>1, <2>2 DEF Upright
  <2>4. m \in T
    BY <1>3, <1>4, <1>5, <1>8, <2>3 DEF U
  <2> QED
    BY <1>5, <2>3, <2>4 DEF U
<1> QED
  BY <1>7, <1>8 DEF Upright

LEMMA RowsUnderAre ==
  ASSUME NEW S \in SUBSET StoredMetrics
  PROVE  /\ RowsUnder(S) \in SUBSET StoredMetrics /\ S \subseteq RowsUnder(S)
         /\ \A x \in StoredMetrics : metricRow[x].parent \in RowsUnder(S) => x \in RowsUnder(S)
         /\ \A x \in RowsUnder(S) : x \in S \/ metricRow[x].parent \in RowsUnder(S)
         /\ \A T \in SUBSET StoredMetrics :
              S \subseteq T /\ (\A x \in StoredMetrics : metricRow[x].parent \in T => x \in T) => RowsUnder(S) \subseteq T
<1> DEFINE R == RowsUnder(S)
           D == StoredMetrics
           Closed(T) == S \subseteq T /\ \A x \in D : metricRow[x].parent \in T => x \in T
<1>1. R = {m \in D : \A T \in SUBSET D : Closed(T) => m \in T}
  BY DEF RowsUnder
<1>2. R \subseteq D /\ (\A T \in SUBSET D : Closed(T) => R \subseteq T) /\ S \subseteq R
  BY <1>1
<1>3. ASSUME NEW x \in D, metricRow[x].parent \in R PROVE x \in R
  <2>1. ASSUME NEW T \in SUBSET D, Closed(T) PROVE x \in T
    BY <1>2, <1>3, <2>1
  <2> QED
    BY <1>1, <2>1
<1>4. ASSUME NEW m \in R, m \notin S, metricRow[m].parent \notin R PROVE FALSE
  <2> DEFINE T == R \ {m}
  <2>1. T \in SUBSET D
    BY <1>2
  <2>2. Closed(T)
    BY <1>2, <1>3, <1>4
  <2> QED
    BY <1>2, <2>1, <2>2
<1>5. \A T \in SUBSET D : S \subseteq T /\ (\A x \in D : metricRow[x].parent \in T => x \in T) => R \subseteq T
  BY <1>2
<1> HIDE DEF R
<1>6. /\ R \in SUBSET D /\ S \subseteq R /\ (\A x \in D : metricRow[x].parent \in R => x \in R)
      /\ \A x \in R : x \in S \/ metricRow[x].parent \in R
  BY <1>2, <1>3, <1>4
<1> QED
  BY <1>5, <1>6 DEF R

LEMMA DroppedAre ==
  ASSUME NEW S \in SUBSET StoredMetrics, DropMetrics(S)
  PROVE  /\ StoredMetrics' = StoredMetrics \ RowsUnder(S)
         /\ \A m \in StoredMetrics \ RowsUnder(S) : metricRow'[m] = metricRow[m]
<1>1. \A m \in Metrics : metricRow'[m] = IF m \in RowsUnder(S) THEN NULL ELSE metricRow[m]
  BY DEF DropMetrics
<1>2. \A m \in StoredMetrics \ RowsUnder(S) : metricRow'[m] = metricRow[m]
  BY <1>1 DEF StoredMetrics
<1>3. \A m \in Metrics : metricRow'[m] # NULL <=> metricRow[m] # NULL /\ m \notin RowsUnder(S)
  BY <1>1
<1> QED
  BY <1>2, <1>3 DEF StoredMetrics

LEMMA DropUpright ==
  ASSUME Upright, NEW S \in SUBSET StoredMetrics, DropMetrics(S)
  PROVE  Upright'
<1> DEFINE R == RowsUnder(S)
<1>1. R \in SUBSET StoredMetrics /\ \A x \in StoredMetrics : metricRow[x].parent \in R => x \in R
  BY RowsUnderAre
<1>2. StoredMetrics' = StoredMetrics \ R /\ \A m \in StoredMetrics \ R : metricRow'[m] = metricRow[m]
  BY DroppedAre
<1> HIDE DEF R
<1>3. ASSUME NEW x \in StoredMetrics', metricRow'[x].parent # NULL
      PROVE  metricRow'[x].parent \in StoredMetrics' /\ metricRow'[metricRow'[x].parent].cat = metricRow'[x].cat
  <2>1. x \in StoredMetrics /\ x \notin R /\ metricRow'[x] = metricRow[x]
    BY <1>2
  <2>2. metricRow[x].parent \in StoredMetrics /\ metricRow[metricRow[x].parent].cat = metricRow[x].cat
    BY <1>3, <2>1 DEF Upright
  <2>3. metricRow[x].parent \notin R
    BY <1>1, <2>1
  <2> QED
    BY <1>2, <2>1, <2>2, <2>3
<1>4. ASSUME NEW T \in SUBSET StoredMetrics',
             \A x \in StoredMetrics' : metricRow'[x].parent = NULL \/ metricRow'[x].parent \in T => x \in T
      PROVE  T = StoredMetrics'
  <2> DEFINE U == T \cup R
  <2>1. U \in SUBSET StoredMetrics
    BY <1>1, <1>2
  <2>2. \A x \in StoredMetrics : metricRow[x].parent = NULL \/ metricRow[x].parent \in U => x \in U
    BY <1>1, <1>2, <1>4
  <2> HIDE DEF U
  <2>3. U = StoredMetrics
    BY <2>1, <2>2 DEF Upright
  <2> QED
    BY <1>2, <2>3 DEF U
<1> QED
  BY <1>3, <1>4 DEF Upright

-----------------------------------------------------------------------------
(* Trees that fit what is stored.                                          *)

LEMMA FitsMoved ==
  ASSUME NEW a, TreeOK(a), Fits(a), NEW ids, IsList(ids), NEW g, NEW at \in Nat
  PROVE  Fits(MoveItems(a, ids, g, at))
<1> DEFINE tops == Tops(a, ids)
           D == DOMAIN a.under
           b == MoveItems(a, ids, g, at)
<1>1. CASE g \notin Groups(a)
  BY <1>1 DEF MoveItems
<1>2. CASE g \in Groups(a)
  <2>0. MovedTo(b, a, tops, g)
    BY <1>2, MovedHolds
  <2> HIDE DEF b, tops
  <2>1. /\ Groups(b) = Groups(a) /\ DOMAIN b.under = D
        /\ \A h \in Groups(a) : ToSet(a.items[h]) \ tops \subseteq ToSet(b.items[h])
        /\ tops \subseteq ToSet(b.items[g])
        /\ \A x \in D : ToSet(b.under[x]) = ToSet(a.under[x]) \ tops
    BY <1>2, <2>0 DEF MovedTo
  <2>2. Reached(b)
    <3> SUFFICES ASSUME NEW T \in SUBSET D, \A h \in Groups(a) : ToSet(b.items[h]) \subseteq T,
                        \A x \in T : ToSet(b.under[x]) \subseteq T
                 PROVE  T = D
      BY <2>1 DEF Reached
    <3>1. \A h \in Groups(a) : ToSet(a.items[h]) \subseteq T
      BY <1>2, <2>1
    <3>2. \A x \in T : ToSet(a.under[x]) \subseteq T
      BY <1>2, <2>1
    <3> QED
      BY <3>1, <3>2 DEF Fits, Reached
  <2>3. Fits(b)
    BY <2>1, <2>2 DEF Fits
  <2> QED
    BY <2>3 DEF b
<1> QED
  BY <1>1, <1>2

LEMMA FitsReordered ==
  ASSUME NEW a, TreeOK(a), Fits(a), NEW from, NEW to
  PROVE  Fits(MoveGroup(a, from, to))
<1> DEFINE b == MoveGroup(a, from, to)
<1>1. b = a \/ \E l : b = [a EXCEPT !.order = l]
  BY DEF MoveGroup
<1>2. a = [order |-> a.order, items |-> a.items, under |-> a.under]
  BY DEF TreeOK
<1> HIDE DEF b
<1>3. b.items = a.items /\ b.under = a.under
  BY <1>1, <1>2
<1>4. Fits(b)
  BY <1>3 DEF Fits, Reached, Groups
<1> QED
  BY <1>4 DEF b

\* What is nested in a metric is dropped with it.
LEMMA NestedDropped ==
  ASSUME TreeOK(tree), Fits(tree), Upright, NEW m \in StoredMetrics
  PROVE  Nested(tree, {m}) \cap StoredMetrics \subseteq RowsUnder({m})
<1> DEFINE a == tree
           D == DOMAIN a.under
           N == Nested(a, {m})
           R == RowsUnder({m})
<1>3. /\ R \in SUBSET StoredMetrics /\ m \in R
      /\ \A x \in StoredMetrics : metricRow[x].parent \in R => x \in R
  BY RowsUnderAre
<1>6. \A x \in D : ToSet(a.under[x]) \subseteq D
  BY DEF TreeOK
<1>7. \A x \in D : \A y \in ToSet(a.under[x]) \cap StoredMetrics : metricRow[y].parent = x
  BY DEF Fits
<1>8. \A x \in StoredMetrics : metricRow[x].parent # NULL => metricRow[x].parent \in StoredMetrics
  BY DEF Upright
<1>5. NULL \notin D
  BY StoredIds DEF TreeOK
<1> DEFINE T == (D \ StoredMetrics) \cup (D \cap R)
<1>1. T \in SUBSET ItemsOf(a) /\ {m} \cap ItemsOf(a) \subseteq T
  BY <1>3, ItemsAre
<1>2. ASSUME NEW x \in T \cap D, NEW y \in ToSet(a.under[x]) PROVE y \in T
  <2>1. y \in D
    BY <1>6, <1>2
  <2>2. CASE y \notin StoredMetrics
    BY <2>1, <2>2
  <2>3. CASE y \in StoredMetrics
    <3>1. metricRow[y].parent = x /\ x # NULL
      BY <1>7, <1>5, <1>2, <2>3
    <3>2. x \in R
      BY <1>8, <1>2, <2>3, <3>1
    <3> QED
      BY <1>3, <2>1, <2>3, <3>1, <3>2
  <2> QED
    BY <2>2, <2>3
<1>4. N \subseteq T
  <2> HIDE DEF T
  <2> QED
    BY <1>1, <1>2, NestedIsIn
<1> QED
  BY <1>4

\* A metric is taken out of the tree and of the store.
LEMMA FitsRemoved ==
  ASSUME TreeOK(tree), Fits(tree), Upright, NEW m \in StoredMetrics, DropMetrics({m}), catOrder' = catOrder,
         tree' = Removed({m})
  PROVE  Fits(tree)'
<1> DEFINE a == tree
           b == Removed({m})
           D == DOMAIN a.under
           N == Nested(a, {m})
           R == RowsUnder({m})
<1>0. TakenFrom(b, a, m)
  BY RemovedHolds
<1> HIDE DEF b
<1>1. /\ Groups(b) = Groups(a) /\ DOMAIN b.under = D \ N
      /\ \A g \in Groups(a) : ToSet(b.items[g]) = ToSet(a.items[g]) \ {m}
      /\ \A x \in D \ N : ToSet(b.under[x]) = ToSet(a.under[x]) \ {m}
  BY <1>0 DEF TakenFrom
<1>2. /\ N \in SUBSET D /\ {m} \cap D \subseteq N
      /\ \A x \in N : ToSet(a.under[x]) \subseteq N
  BY NestedHolds
<1>3. /\ R \in SUBSET StoredMetrics /\ m \in R
      /\ \A x \in StoredMetrics : metricRow[x].parent \in R => x \in R
  BY RowsUnderAre
<1>4. StoredMetrics' = StoredMetrics \ R /\ \A x \in StoredMetrics \ R : metricRow'[x] = metricRow[x]
  BY DroppedAre
<1>5. StoredCats' = StoredCats
  BY DEF StoredCats
<1>6. \A x \in D : ToSet(a.under[x]) \subseteq D
  BY DEF TreeOK
<1>7. \A x \in D : \A y \in ToSet(a.under[x]) \cap StoredMetrics : metricRow[y].parent = x
  BY DEF Fits
<1>9. N \cap StoredMetrics \subseteq R
  BY NestedDropped
<1> HIDE DEF N, R
<1>10. ASSUME NEW x \in StoredMetrics', metricRow'[x].parent \in D \ N PROVE x \in D \ N
  <2>1. x \in StoredMetrics /\ x \notin R /\ metricRow[x].parent \in D
    BY <1>4, <1>10
  <2>2. x \in D
    BY <2>1 DEF Fits
  <2> QED
    BY <1>9, <2>1, <2>2
<1>11. ASSUME NEW x \in D \ N, NEW y \in ToSet(b.under[x]) \cap StoredMetrics' PROVE metricRow'[y].parent = x
  <2>1. y \in ToSet(a.under[x]) /\ y \in StoredMetrics /\ metricRow'[y] = metricRow[y]
    BY <1>1, <1>4, <1>11
  <2> QED
    BY <1>7, <2>1
<1>12. Reached(b)
  <2> SUFFICES ASSUME NEW T \in SUBSET (D \ N), \A h \in Groups(a) : ToSet(b.items[h]) \subseteq T,
                      \A x \in T : ToSet(b.under[x]) \subseteq T
               PROVE  T = D \ N
    BY <1>1 DEF Reached
  <2> DEFINE U == T \cup N
  <2>1. U \in SUBSET D
    BY <1>2
  <2>2. \A h \in Groups(a) : ToSet(a.items[h]) \subseteq U
    <3> SUFFICES ASSUME NEW h \in Groups(a), NEW x \in ToSet(a.items[h]) PROVE x \in U
      OBVIOUS
    <3>1. x \in D
      BY DEF TreeOK
    <3> QED
      BY <1>1, <1>2, <3>1
  <2>3. \A x \in U : ToSet(a.under[x]) \subseteq U
    <3> SUFFICES ASSUME NEW x \in U, NEW y \in ToSet(a.under[x]) PROVE y \in U
      OBVIOUS
    <3>1. y \in D /\ x \in D
      BY <1>6, <2>1
    <3>2. CASE x \in N
      BY <1>2, <3>2
    <3>3. CASE x \in T
      BY <1>1, <1>2, <3>1, <3>3
    <3> QED
      BY <3>2, <3>3
  <2> HIDE DEF U
  <2>4. U = D
    BY <2>1, <2>2, <2>3 DEF Fits, Reached
  <2> QED
    BY <2>4 DEF U
<1>13. tree' = b
  BY DEF b
<1>14. Groups(b) \subseteq StoredCats'
  BY <1>1, <1>5 DEF Fits
<1> QED
  BY <1>1, <1>10, <1>11, <1>12, <1>13, <1>14 DEF Fits, Reached

-----------------------------------------------------------------------------
(* The tree the service answers with, of rows that are upright.            *)

Spots == [m \in StoredMetrics |-> metricRow[m].order]
RootsIn(c) == {m \in StoredMetrics : metricRow[m].cat = c /\ metricRow[m].parent = NULL}
NestedIn(p) == {m \in StoredMetrics : metricRow[m].parent = p}

UprightTree ==
  [order |-> Sorted(StoredCats \ {Uncat}, [c \in StoredCats \ {Uncat} |-> catOrder[c]]),
   items |-> [c \in StoredCats |-> Sorted(RootsIn(c), Spots)],
   under |-> [p \in StoredMetrics |-> Sorted(NestedIn(p), Spots)]]

LEMMA UprightIs == Upright => StoredTree = UprightTree
<1> SUFFICES ASSUME Upright PROVE StoredTree = UprightTree
  OBVIOUS
<1> DEFINE It(c) == {m \in StoredMetrics : metricRow[m].cat = c /\ ~ShownUnder(m, metricRow[m].parent)}
           Un(p) == {m \in StoredMetrics : ShownUnder(m, p)}
<1>1. \A m \in StoredMetrics : ShownUnder(m, metricRow[m].parent) <=> metricRow[m].parent # NULL
  BY StoredIds DEF Upright, ShownUnder
<1>2. \A c : It(c) = RootsIn(c)
  BY <1>1 DEF RootsIn
<1>3. \A p \in StoredMetrics : Un(p) = NestedIn(p)
  <2> SUFFICES ASSUME NEW p \in StoredMetrics PROVE Un(p) = NestedIn(p)
    OBVIOUS
  <2>1. p # NULL
    BY StoredIds
  <2>2. \A m \in StoredMetrics : ShownUnder(m, p) <=> metricRow[m].parent = p
    BY <2>1 DEF Upright, ShownUnder
  <2> QED
    BY <2>2 DEF NestedIn
<1>4. StoredTree = [order |-> Sorted(StoredCats \ {Uncat}, [c \in StoredCats \ {Uncat} |-> catOrder[c]]),
                    items |-> [c \in StoredCats |-> Sorted(It(c), Spots)],
                    under |-> [p \in StoredMetrics |-> Sorted(Un(p), Spots)]]
  BY DEF StoredTree, Spots
<1> HIDE DEF It, Un
<1>5. [c \in StoredCats |-> Sorted(It(c), Spots)] = [c \in StoredCats |-> Sorted(RootsIn(c), Spots)]
  BY <1>2
<1>6. [p \in StoredMetrics |-> Sorted(Un(p), Spots)] = [p \in StoredMetrics |-> Sorted(NestedIn(p), Spots)]
  BY <1>3
<1> QED
  BY <1>4, <1>5, <1>6 DEF UprightTree

LEMMA UprightThenIs == (Upright => StoredTree = UprightTree)'
BY UprightIs, PTL

\* Its lists hold what they are made of.
LEMMA ListsHold ==
  ASSUME StoreOK, NEW S \in SUBSET StoredMetrics
  PROVE  /\ S \in SUBSET Int /\ IsFiniteSet(S) /\ \A x \in S : Spots[x] \in Int
         /\ IsList(Sorted(S, Spots)) /\ ToSet(Sorted(S, Spots)) = S
<1>1. StoredMetrics \in SUBSET Metrics /\ \A x \in StoredMetrics : Spots[x] = metricRow[x].order /\ Spots[x] \in Int
  BY DEF Spots, StoredMetrics, StoreOK
<1>2. S \in SUBSET Int /\ IsFiniteSet(S)
  BY <1>1, FiniteIds, FS_Subset
<1>3. \A x \in S : Spots[x] \in Int
  BY <1>1
<1> QED
  BY <1>2, <1>3, SortedHolds

LEMMA StoredFits ==
  ASSUME StoreOK, Upright
  PROVE  Fits(StoredTree)
<1> DEFINE b == UprightTree
<1>1. b.items = [c \in StoredCats |-> Sorted(RootsIn(c), Spots)] /\ b.under = [p \in StoredMetrics |-> Sorted(NestedIn(p), Spots)]
  BY DEF UprightTree
<1>2. \A c \in StoredCats : ToSet(b.items[c]) = RootsIn(c)
  <2>1. \A c : RootsIn(c) \in SUBSET StoredMetrics
    BY DEF RootsIn
  <2> QED
    BY <1>1, <2>1, ListsHold
<1>3. \A p \in StoredMetrics : ToSet(b.under[p]) = NestedIn(p)
  <2>1. \A p : NestedIn(p) \in SUBSET StoredMetrics
    BY DEF NestedIn
  <2> QED
    BY <1>1, <2>1, ListsHold
<1>4. Groups(b) = StoredCats /\ DOMAIN b.under = StoredMetrics
  BY <1>1 DEF Groups
<1> HIDE DEF b
<1>5. Reached(b)
  <2> SUFFICES ASSUME NEW T \in SUBSET StoredMetrics, \A c \in StoredCats : ToSet(b.items[c]) \subseteq T,
                      \A x \in T : ToSet(b.under[x]) \subseteq T
               PROVE  T = StoredMetrics
    BY <1>4 DEF Reached
  <2>1. ASSUME NEW m \in StoredMetrics, metricRow[m].parent = NULL \/ metricRow[m].parent \in T
        PROVE  m \in T
    <3>1. CASE metricRow[m].parent = NULL
      <4>1. m \in RootsIn(metricRow[m].cat) /\ metricRow[m].cat \in StoredCats
        BY <3>1 DEF RootsIn, StoreOK
      <4> QED
        BY <1>2, <4>1
    <3>2. CASE metricRow[m].parent \in T
      <4>1. m \in NestedIn(metricRow[m].parent)
        BY DEF NestedIn
      <4> QED
        BY <1>3, <3>2, <4>1
    <3> QED
      BY <2>1, <3>1, <3>2
  <2> QED
    BY <2>1 DEF Upright
<1>6. \A x \in StoredMetrics : \A m \in ToSet(b.under[x]) \cap StoredMetrics : metricRow[m].parent = x
  BY <1>3 DEF NestedIn
<1>7. Fits(b)
  BY <1>4, <1>5, <1>6 DEF Fits
<1> QED
  BY <1>7, UprightIs DEF b

LEMMA EmptyFits == ASSUME StoreOK, Upright PROVE Fits(Empty)
<1>1. DOMAIN <<>> = {}
  OBVIOUS
<1>2. Groups(Empty) = {} /\ DOMAIN Empty.under = {}
  BY <1>1 DEF Groups, Empty
<1> QED
  BY <1>2 DEF Fits, Reached

\* Nothing is left of a tree that is empty.
LEMMA EmptyRemoved ==
  ASSUME tree = Empty, NEW m
  PROVE  Removed({m}) = Empty
<1>1. IsList(<<>>) /\ Len(<<>>) = 0 /\ DOMAIN <<>> = {}
  BY EmptyList
<1>2. Empty.order = <<>> /\ Empty.items = <<>> /\ Empty.under = <<>>
  BY DEF Empty
<1>3. Groups(tree) = {} /\ DOMAIN tree.under = {}
  BY <1>1, <1>2 DEF Groups
<1>4. [c \in {} |-> Without(tree.items[c], {m})] = <<>> /\ [x \in {} |-> Without(tree.under[x], {m})] = <<>>
  OBVIOUS
<1>5. Removed({m}) = [tree EXCEPT !.items = [c \in {} |-> Without(tree.items[c], {m})],
                                  !.under = [x \in {} |-> Without(tree.under[x], {m})]]
  BY <1>3 DEF Removed
<1> QED
  BY <1>4, <1>5 DEF Empty

-----------------------------------------------------------------------------
(* A sorted list from which one is taken.                                  *)

\* In a sorted list each comes before those behind it.
LEMMA SortedOrdered ==
  ASSUME NEW S \in SUBSET Int, IsFiniteSet(S), NEW pos, \A x \in S : pos[x] \in Int, NEW l, l = Sorted(S, pos)
  PROVE  \A i, j \in 1..Len(l) : i < j => pos[l[i]] < pos[l[j]] \/ (pos[l[i]] = pos[l[j]] /\ l[i] < l[j])
<1> DEFINE B == Ahead(S, pos)
           n == Cardinality(S)
<1>0. B = Ahead(S, pos) /\ n = Cardinality(S)
  OBVIOUS
<1> HIDE DEF B, n
<1>1. n \in Nat /\ Len(l) = n /\ \A i \in 1..n : l[i] \in S /\ Cardinality(B[l[i]]) = i - 1
  BY <1>0, SortedRanks
<1>2. /\ \A x, y \in S : y \in B[x] <=> pos[y] < pos[x] \/ (pos[y] = pos[x] /\ y < x)
      /\ \A x \in S : B[x] \in SUBSET (S \ {x})
  BY <1>0, BeforeRuns
<1>3. ASSUME NEW i \in 1..n, NEW j \in 1..n, i < j PROVE l[i] \in B[l[j]]
  <2> SUFFICES ASSUME l[i] \notin B[l[j]] PROVE FALSE
    OBVIOUS
  <2> DEFINE x == l[i]
             y == l[j]
  <2>1. x \in S /\ y \in S /\ x \in Int /\ y \in Int /\ pos[x] \in Int /\ pos[y] \in Int
    BY <1>1
  <2>2. x \notin B[y]
    OBVIOUS
  <2>3. Cardinality(B[x]) = i - 1 /\ Cardinality(B[y]) = j - 1
    BY <1>1
  <2> HIDE DEF x, y
  <2>4. \A z \in S : z \in Int /\ pos[z] \in Int
    OBVIOUS
  <2>5. B[y] \subseteq B[x]
    <3> SUFFICES ASSUME NEW z \in B[y] PROVE z \in B[x]
      OBVIOUS
    <3>1. z \in S
      BY <1>2, <2>1
    <3>2. pos[y] < pos[x] \/ (pos[y] = pos[x] /\ y <= x)
      BY <1>2, <2>1, <2>2
    <3>3. pos[z] < pos[y] \/ (pos[z] = pos[y] /\ z < y)
      BY <1>2, <2>1, <3>1
    <3>4. pos[z] < pos[x] \/ (pos[z] = pos[x] /\ z < x)
      BY <2>1, <2>4, <3>1, <3>2, <3>3
    <3> QED
      BY <1>2, <2>1, <3>1, <3>4
  <2>6. IsFiniteSet(B[x]) /\ IsFiniteSet(B[y])
    BY <1>2, <2>1, FS_Subset
  <2>7. Cardinality(B[y]) <= Cardinality(B[x])
    BY <2>5, <2>6, FS_Subset
  <2> QED
    BY <1>1, <1>3, <2>3, <2>7
<1> QED
  BY <1>1, <1>2, <1>3

LEMMA SortedWithout ==
  ASSUME NEW S \in SUBSET Int, IsFiniteSet(S), NEW pos, \A x \in S : pos[x] \in Int,
         NEW out, NEW q, \A x \in S \ out : q[x] = pos[x]
  PROVE  Without(Sorted(S, pos), out) = Sorted(S \ out, q)
<1> DEFINE l == Sorted(S, pos)
           t == Without(l, out)
<1>0. l = Sorted(S, pos)
  OBVIOUS
<1> HIDE DEF l
<1>1. IsList(l) /\ ToSet(l) = S /\ Distinct(l)
  BY <1>0, SortedHolds, SortedDistinct
<1>2. \A i, j \in 1..Len(l) : i < j => pos[l[i]] < pos[l[j]] \/ (pos[l[i]] = pos[l[j]] /\ l[i] < l[j])
  BY <1>0, SortedOrdered
<1>3. PICK f : /\ Counts(f, Len(t), KeptAt(l, out)) /\ Len(t) \in Nat
               /\ IsList(t) /\ \A k \in 1..Len(t) : t[k] = l[f[k]]
  BY <1>1, KeptPlaces
<1>4. ToSet(t) = S \ out
  BY <1>0, <1>1, WithoutHolds
<1>5. Distinct(t)
  BY <1>1, FilterDistinct
<1> HIDE DEF t
<1>6. ASSUME NEW i \in 1..Len(t), NEW j \in 1..Len(t), i < j
      PROVE  q[t[i]] < q[t[j]] \/ (q[t[i]] = q[t[j]] /\ t[i] < t[j])
  <2>1. f[i] < f[j] /\ f[i] \in 1..Len(l) /\ f[j] \in 1..Len(l) /\ l[f[i]] \notin out /\ l[f[j]] \notin out
    BY <1>0, <1>3, <1>6 DEF Counts, KeptAt
  <2>2. l[f[i]] \in S /\ l[f[j]] \in S
    BY <1>1, <2>1, ListDomain
  <2>3. q[l[f[i]]] = pos[l[f[i]]] /\ q[l[f[j]]] = pos[l[f[j]]]
    BY <2>1, <2>2
  <2>4. t[i] = l[f[i]] /\ t[j] = l[f[j]]
    BY <1>3
  <2> QED
    BY <1>2, <2>1, <2>3, <2>4
<1>7. ToSet(t) \in SUBSET Int /\ \A x \in ToSet(t) : q[x] \in Int
  BY <1>4
<1>8. Sorted(ToSet(t), q) = t
  BY <1>3, <1>5, <1>6, <1>7, OrderedIsSorted
<1> QED
  BY <1>4, <1>8 DEF t, l

\* A metric is deleted from the tree that is stored, which is then again the tree stored.
LEMMA RemovedIsStored ==
  ASSUME StoreOK, StoreOK', Upright, tree = StoredTree, NEW m \in StoredMetrics, DropMetrics({m}),
         catOrder' = catOrder
  PROVE  Removed({m}) = StoredTree'
<1> DEFINE a == tree
           R == RowsUnder({m})
           N == Nested(a, {m})
<1>0. TreeOK(a) /\ Fits(a) /\ a = UprightTree
  BY StoredTreeOK, StoredFits, UprightIs
<1>1. /\ R \in SUBSET StoredMetrics /\ m \in R
      /\ \A x \in StoredMetrics : metricRow[x].parent \in R => x \in R
      /\ \A x \in R : x = m \/ metricRow[x].parent \in R
      /\ \A T \in SUBSET StoredMetrics :
           m \in T /\ (\A x \in StoredMetrics : metricRow[x].parent \in T => x \in T) => R \subseteq T
  <2>1. {m} \in SUBSET StoredMetrics
    OBVIOUS
  <2> QED
    BY <2>1, RowsUnderAre
<1>2. StoredMetrics' = StoredMetrics \ R /\ \A x \in StoredMetrics \ R : metricRow'[x] = metricRow[x]
  BY DroppedAre
<1>3. StoredCats' = StoredCats
  BY DEF StoredCats
<1>4. /\ a.order = Sorted(StoredCats \ {Uncat}, [c \in StoredCats \ {Uncat} |-> catOrder[c]])
      /\ a.items = [c \in StoredCats |-> Sorted(RootsIn(c), Spots)]
      /\ a.under = [p \in StoredMetrics |-> Sorted(NestedIn(p), Spots)]
      /\ a = [order |-> a.order, items |-> a.items, under |-> a.under]
  BY <1>0 DEF UprightTree
<1>5. Groups(a) = StoredCats /\ DOMAIN a.under = StoredMetrics
  BY <1>4 DEF Groups
<1>6. N = R
  <2>1. N \subseteq R
    <3>1. N \in SUBSET DOMAIN a.under
      BY <1>0, NestedHolds
    <3> QED
      BY <1>0, <1>5, <3>1, NestedDropped
  <2>2. R \subseteq N
    <3>1. /\ N \in SUBSET StoredMetrics /\ m \in N
          /\ \A x \in N : ToSet(a.under[x]) \subseteq N
      BY <1>0, <1>5, NestedHolds
    <3>2. ASSUME NEW x \in StoredMetrics, metricRow[x].parent \in N PROVE x \in N
      <4> DEFINE p == metricRow[x].parent
      <4>1. NestedIn(p) \in SUBSET StoredMetrics /\ x \in NestedIn(p) /\ p \in StoredMetrics
        BY <3>1, <3>2 DEF NestedIn
      <4>2. ToSet(a.under[p]) = NestedIn(p)
        BY <1>4, <4>1, ListsHold
      <4> QED
        BY <3>1, <3>2, <4>1, <4>2
    <3> HIDE DEF N
    <3> QED
      BY <1>1, <3>1, <3>2
  <2> QED
    BY <2>1, <2>2
<1>7. Removed({m}) = [a EXCEPT !.items = [c \in StoredCats |-> Without(a.items[c], {m})],
                               !.under = [p \in StoredMetrics \ R |-> Without(a.under[p], {m})]]
  BY <1>5, <1>6 DEF Removed
<1> HIDE DEF R, N
<1>8. ASSUME NEW S \in SUBSET StoredMetrics, NEW S2, S2 = S \ {m}, S2 \in SUBSET (StoredMetrics \ R)
      PROVE  Without(Sorted(S, Spots), {m}) = Sorted(S2, Spots')
  <2>1. S \in SUBSET Int /\ IsFiniteSet(S) /\ \A x \in S : Spots[x] \in Int
    BY ListsHold
  <2>2. \A x \in S \ {m} : Spots'[x] = Spots[x]
    BY <1>2, <1>8 DEF Spots
  <2> DEFINE pos == Spots
             q == Spots'
             out == {m}
  <2>3. (\A x \in S : pos[x] \in Int) /\ \A x \in S \ out : q[x] = pos[x]
    BY <2>1, <2>2
  <2> HIDE DEF pos, q, out
  <2>4. Without(Sorted(S, pos), out) = Sorted(S \ out, q)
    BY <2>1, <2>3, SortedWithout
  <2> QED
    BY <1>8, <2>4 DEF pos, q, out
<1>9. ASSUME NEW c \in StoredCats PROVE Without(a.items[c], {m}) = Sorted(RootsIn(c)', Spots')
  <2>1. RootsIn(c) \in SUBSET StoredMetrics /\ RootsIn(c)' = RootsIn(c) \ {m} /\ RootsIn(c)' \in SUBSET (StoredMetrics \ R)
    <3>1. NULL \notin R
      BY <1>1, StoredIds
    <3>2. \A x : x \in RootsIn(c)' <=> x \in StoredMetrics \ R /\ metricRow[x].cat = c /\ metricRow[x].parent = NULL
      BY <1>2 DEF RootsIn
    <3>3. \A x : x \in RootsIn(c) <=> x \in StoredMetrics /\ metricRow[x].cat = c /\ metricRow[x].parent = NULL
      BY DEF RootsIn
    <3> QED
      BY <1>1, <3>1, <3>2, <3>3
  <2>2. a.items[c] = Sorted(RootsIn(c), Spots)
    BY <1>4
  <2> QED
    BY <1>8, <2>1, <2>2
<1>10. ASSUME NEW p \in StoredMetrics \ R PROVE Without(a.under[p], {m}) = Sorted(NestedIn(p)', Spots')
  <2>1. NestedIn(p) \in SUBSET StoredMetrics /\ NestedIn(p)' = NestedIn(p) \ {m} /\ NestedIn(p)' \in SUBSET (StoredMetrics \ R)
    <3>1. \A x : x \in NestedIn(p)' <=> x \in StoredMetrics \ R /\ metricRow[x].parent = p
      BY <1>2 DEF NestedIn
    <3>2. \A x : x \in NestedIn(p) <=> x \in StoredMetrics /\ metricRow[x].parent = p
      BY DEF NestedIn
    <3> QED
      BY <1>1, <3>1, <3>2
  <2>2. a.under[p] = Sorted(NestedIn(p), Spots)
    BY <1>4
  <2> QED
    BY <1>8, <2>1, <2>2
<1>11. UprightTree' = [order |-> Sorted(StoredCats \ {Uncat}, [c \in StoredCats \ {Uncat} |-> catOrder[c]]),
                       items |-> [c \in StoredCats |-> Sorted(RootsIn(c)', Spots')],
                       under |-> [p \in StoredMetrics \ R |-> Sorted(NestedIn(p)', Spots')]]
  BY <1>2, <1>3 DEF UprightTree
<1>12. [c \in StoredCats |-> Without(a.items[c], {m})] = [c \in StoredCats |-> Sorted(RootsIn(c)', Spots')]
  BY <1>9
<1>13. [p \in StoredMetrics \ R |-> Without(a.under[p], {m})] = [p \in StoredMetrics \ R |-> Sorted(NestedIn(p)', Spots')]
  BY <1>10
<1>14. Removed({m}) = UprightTree'
  BY <1>4, <1>7, <1>11, <1>12, <1>13
<1>15. Upright'
  <2>1. {m} \in SUBSET StoredMetrics
    OBVIOUS
  <2> QED
    BY <2>1, DropUpright
<1> QED
  BY <1>14, <1>15, UprightThenIs

-----------------------------------------------------------------------------
(* What is under way.                                                      *)

OnlyLoads(rs) == IsList(rs) /\ \A i \in 1..Len(rs) : rs[i].op = "load"

\* A save that is under way belongs to work not saved, or comes before a load, and is the only one.
Saves(rs, d) ==
  /\ \A i \in 1..Len(rs) : rs[i].op = "save" => d \/ \E j \in 1..Len(rs) : i < j /\ rs[j].op = "load"
  /\ \A i, j \in 1..Len(rs) : rs[i].op = "save" /\ rs[j].op = "save" => i = j

\* Requests one at a time; an answer may be followed by loads.
OneByOne ==
  /\ Len(wire) <= 1 \/ OnlyLoads(wire)
  /\ Upright
  /\ ~LoadWaits(wire) => Fits(tree)
  /\ \A i \in 1..Len(wire) : wire[i].op = "save" => RowsFit(wire[i].y)

CleanInv ==
  /\ TreeInv /\ ("delete" \in May[source] => MaxWire[source] = 1)
  /\ Saves(wire, dirty)
  /\ ~dirty /\ ~LoadWaits(wire) => tree \in {StoredTree, Empty}
  /\ \A i \in 1..Len(wire) : wire[i].op = "deleteMetric" => "delete" \in May[source]
  /\ "delete" \in May[source] => OneByOne

\* What is under way once one more is sent, or the oldest is answered.
Longer(new, old, r) ==
  /\ IsList(old) /\ IsList(new) /\ Len(old) \in Nat /\ Len(new) = Len(old) + 1
  /\ \A i \in 1..Len(old) : new[i] = old[i]
  /\ new[Len(old) + 1] = r

Shorter(new, old, rs) ==
  /\ IsList(old) /\ IsList(new) /\ Len(old) \in Nat \ {0} /\ Len(rs) \in Nat /\ Len(new) = Len(old) - 1 + Len(rs)
  /\ \A i \in 1..(Len(old) - 1) : new[i] = old[i + 1]
  /\ \A i \in 1..Len(rs) : new[Len(old) - 1 + i] = rs[i]

LEMMA LongerIs ==
  ASSUME NEW cs, IsList(cs), NEW r
  PROVE  Longer(Append(cs, r), cs, r)
<1> DEFINE new == Append(cs, r)
<1> HIDE DEF new
<1>1. /\ IsList(new) /\ Len(new) = Len(cs) + 1
      /\ \A i \in 1..Len(cs) : new[i] = cs[i]
      /\ new[Len(cs) + 1] = r
  BY LongerList DEF new
<1>2. Longer(new, cs, r)
  BY <1>1 DEF Longer, IsList
<1> QED
  BY <1>2 DEF new

LEMMA SentIs ==
  ASSUME Asked(wire), NEW r, Send(r)
  PROVE  Longer(wire', wire, r)
<1>1. IsList(wire)
  BY DEF Asked
<1>2. Longer(Append(wire, r), wire, r)
  BY <1>1, LongerIs
<1> QED
  BY <1>2 DEF Send

LEMMA TakenIs ==
  ASSUME Asked(wire), wire # <<>>, NEW rs, OnlyLoads(rs), Then(rs)
  PROVE  Shorter(wire', wire, rs) /\ Head1 = wire[1]
<1> DEFINE t == Tail(wire)
           j == t \o rs
<1>1. /\ Len(wire) \in Nat \ {0} /\ IsList(t) /\ Len(t) = Len(wire) - 1
      /\ \A i \in 1..(Len(wire) - 1) : t[i] = wire[i + 1]
  BY TailList DEF Asked
<1>2. IsList(rs) /\ Len(rs) \in Nat
  BY DEF OnlyLoads, IsList
<1> HIDE DEF t
<1>3. /\ IsList(j) /\ Len(j) = Len(t) + Len(rs)
      /\ \A i \in 1..Len(t) : j[i] = t[i]
      /\ \A i \in 1..Len(rs) : j[Len(t) + i] = rs[i]
  <2>1. IsList(t) /\ IsList(rs)
    BY <1>1, <1>2
  <2> QED
    BY <2>1, ConcatList
<1>4. wire' = j
  BY DEF Then, t
<1> HIDE DEF j
<1>5. Shorter(wire', wire, rs)
  BY <1>1, <1>2, <1>3, <1>4 DEF Shorter, Asked
<1> QED
  BY <1>5 DEF Head1

LEMMA LoadsFollow ==
  /\ OnlyLoads(<<>>) /\ Len(<<>>) = 0
  /\ OnlyLoads(<<LoadRequest>>) /\ Len(<<LoadRequest>>) = 1
  /\ \A x, y : OnlyLoads(<<LoadRequest, Request("load", x, y)>>) /\ Len(<<LoadRequest, Request("load", x, y)>>) = 2
<1>0. LoadRequest.op = "load" /\ \A x, y : Request("load", x, y).op = "load"
  BY DEF LoadRequest, Request
<1>1. OnlyLoads(<<>>) /\ Len(<<>>) = 0
  BY EmptyList DEF OnlyLoads
<1>2. ASSUME NEW r, r.op = "load" PROVE OnlyLoads(<<r>>) /\ Len(<<r>>) = 1
  <2> DEFINE l == <<r>>
  <2>1. IsList(l) /\ Len(l) = 1 /\ l[1] = r
    BY ShortLists
  <2> HIDE DEF l
  <2>2. OnlyLoads(l) /\ Len(l) = 1
    BY <1>2, <2>1 DEF OnlyLoads
  <2> QED
    BY <2>2 DEF l
<1>3. ASSUME NEW r, r.op = "load", NEW q, q.op = "load" PROVE OnlyLoads(<<r, q>>) /\ Len(<<r, q>>) = 2
  <2> DEFINE l == <<r, q>>
  <2>1. IsList(l) /\ Len(l) = 2 /\ l[1] = r /\ l[2] = q
    BY ShortLists
  <2>2. \A i \in 1..2 : i = 1 \/ i = 2
    OBVIOUS
  <2> HIDE DEF l
  <2>3. OnlyLoads(l) /\ Len(l) = 2
    BY <1>3, <2>1, <2>2 DEF OnlyLoads
  <2> QED
    BY <2>3 DEF l
<1> QED
  BY <1>0, <1>1, <1>2, <1>3

\* After an answer.
LEMMA AnswerWaits ==
  ASSUME NEW new, NEW old, NEW rs, OnlyLoads(rs), Shorter(new, old, rs)
  PROVE  /\ LoadWaits(old) => LoadWaits(new) \/ old[1].op = "load"
         /\ Len(rs) > 0 => LoadWaits(new)
         /\ \A d : Saves(old, d) => Saves(new, d)
         /\ \A d : Saves(old, d) /\ Len(rs) > 0 => Saves(new, FALSE)
         /\ \A d : Saves(old, d) /\ old[1].op = "save" => d \/ LoadWaits(new)
         /\ Len(old) <= 1 \/ OnlyLoads(old) => OnlyLoads(new)
         /\ \A i \in 1..Len(new) : new[i].op = "load" \/ \E j \in 1..Len(old) : new[i] = old[j]
<1> DEFINE n == Len(old)
           k == Len(rs)
<1>1. /\ n \in Nat \ {0} /\ k \in Nat /\ Len(new) = n - 1 + k /\ IsList(new)
      /\ \A i \in 1..(n - 1) : new[i] = old[i + 1]
      /\ \A i \in 1..k : new[n - 1 + i] = rs[i] /\ rs[i].op = "load"
  BY DEF Shorter, OnlyLoads
<1> HIDE DEF n, k
<1>2. \A i \in 1..(n - 1) : i \in 1..Len(new) /\ i + 1 \in 1..n
  BY <1>1
<1>3. \A j \in 1..n : j > 1 => j - 1 \in 1..Len(new) /\ j - 1 \in 1..(n - 1) /\ new[j - 1] = old[j]
  <2> SUFFICES ASSUME NEW j \in 1..n, j > 1
               PROVE  j - 1 \in 1..Len(new) /\ j - 1 \in 1..(n - 1) /\ new[j - 1] = old[j]
    OBVIOUS
  <2>1. j - 1 \in 1..(n - 1) /\ (j - 1) + 1 = j
    BY <1>1
  <2> QED
    BY <1>1, <1>2, <2>1
<1>4. \A i \in 1..Len(new) : (i \in 1..(n - 1) /\ new[i] = old[i + 1]) \/ new[i].op = "load"
  <2> SUFFICES ASSUME NEW i \in 1..Len(new), i \notin 1..(n - 1) PROVE new[i].op = "load"
    BY <1>1
  <2>1. i - (n - 1) \in 1..k /\ n - 1 + (i - (n - 1)) = i
    BY <1>1
  <2> QED
    BY <1>1, <2>1
<1>5. k > 0 => LoadWaits(new) /\ new[Len(new)].op = "load" /\ Len(new) \in 1..Len(new) /\ Len(new) > n - 1
  <2> SUFFICES ASSUME k > 0 PROVE LoadWaits(new) /\ new[Len(new)].op = "load" /\ Len(new) \in 1..Len(new) /\ Len(new) > n - 1
    OBVIOUS
  <2>1. k \in 1..k /\ n - 1 + k = Len(new) /\ Len(new) \in 1..Len(new) /\ Len(new) > n - 1
    BY <1>1
  <2>2. new[n - 1 + k].op = "load"
    BY <1>1, <2>1
  <2> QED
    BY <2>1, <2>2 DEF LoadWaits
<1>6. 1 \in 1..n /\ \A j \in 1..n : j = 1 \/ j > 1
  BY <1>1
<1>7. LoadWaits(old) => LoadWaits(new) \/ old[1].op = "load"
  BY <1>3, <1>6 DEF LoadWaits, n
<1>8. ASSUME NEW i \in 1..Len(new), new[i].op = "save"
      PROVE  i \in 1..(n - 1) /\ new[i] = old[i + 1] /\ i + 1 \in 1..n
  BY <1>2, <1>4, <1>8
<1>9. ASSUME NEW d, Saves(old, d), NEW i \in 1..Len(new), NEW j \in 1..Len(new), new[i].op = "save", new[j].op = "save"
      PROVE  i = j
  <2>1. i + 1 = j + 1
    BY <1>8, <1>9 DEF Saves, n
  <2> QED
    BY <2>1
<1>10. ASSUME NEW d, Saves(old, d), NEW i \in 1..Len(new), new[i].op = "save"
       PROVE  d \/ \E j \in 1..Len(new) : i < j /\ new[j].op = "load"
  <2>1. i \in 1..(n - 1) /\ new[i] = old[i + 1] /\ i + 1 \in 1..n
    BY <1>8, <1>10
  <2>2. d \/ \E j \in 1..n : i + 1 < j /\ old[j].op = "load"
    BY <1>10, <2>1 DEF Saves, n
  <2>3. ASSUME NEW j \in 1..n, i + 1 < j, old[j].op = "load"
        PROVE  j - 1 \in 1..Len(new) /\ i < j - 1 /\ new[j - 1].op = "load"
    BY <1>1, <1>3, <2>1, <2>3
  <2> QED
    BY <2>2, <2>3
<1>11. \A d : Saves(old, d) => Saves(new, d)
  BY <1>9, <1>10 DEF Saves
<1>12. \A d : Saves(old, d) /\ k > 0 => Saves(new, FALSE)
  <2> SUFFICES ASSUME NEW d, Saves(old, d), k > 0 PROVE Saves(new, FALSE)
    OBVIOUS
  <2>1. \A i \in 1..Len(new) : new[i].op = "save" => i < Len(new)
    BY <1>1, <1>5, <1>8
  <2> QED
    BY <1>5, <1>9, <2>1 DEF Saves
<1>13. \A d : Saves(old, d) /\ old[1].op = "save" => d \/ LoadWaits(new)
  <2> SUFFICES ASSUME NEW d, Saves(old, d), old[1].op = "save", ~d PROVE LoadWaits(new)
    OBVIOUS
  <2>1. PICK j \in 1..n : 1 < j /\ old[j].op = "load"
    BY <1>6 DEF Saves, n
  <2> QED
    BY <1>3, <2>1 DEF LoadWaits
<1>14. n <= 1 \/ OnlyLoads(old) => OnlyLoads(new)
  <2>1. CASE n <= 1
    BY <1>1, <1>4, <2>1 DEF OnlyLoads
  <2>2. CASE OnlyLoads(old)
    BY <1>1, <1>2, <1>4, <2>2 DEF OnlyLoads, n
  <2> QED
    BY <2>1, <2>2
<1>15. \A i \in 1..Len(new) : new[i].op = "load" \/ \E j \in 1..n : new[i] = old[j]
  BY <1>2, <1>4
<1> QED
  BY <1>5, <1>7, <1>11, <1>12, <1>13, <1>14, <1>15 DEF n, k

\* After a request.
LEMMA RequestWaits ==
  ASSUME NEW new, NEW old, NEW r, Longer(new, old, r)
  PROVE  /\ LoadWaits(old) => LoadWaits(new)
         /\ \A d : Saves(old, d) /\ (r.op = "save" => d /\ \A i \in 1..Len(old) : old[i].op # "save") => Saves(new, d)
         /\ \A i \in 1..Len(new) : new[i] = r \/ \E j \in 1..Len(old) : new[i] = old[j]
<1> DEFINE n == Len(old)
<1>1. /\ n \in Nat /\ Len(new) = n + 1
      /\ \A i \in 1..n : new[i] = old[i]
      /\ new[n + 1] = r
  BY DEF Longer
<1> HIDE DEF n
<1>2. (\A i \in 1..(n + 1) : i \in 1..n \/ i = n + 1) /\ \A i \in 1..n : i \in 1..(n + 1)
  BY <1>1
<1>3. LoadWaits(old) => LoadWaits(new)
  BY <1>1, <1>2 DEF LoadWaits, n
<1>4. ASSUME NEW d, Saves(old, d), r.op = "save" => d /\ \A i \in 1..n : old[i].op # "save" PROVE Saves(new, d)
  <2>1. ASSUME NEW i \in 1..Len(new), new[i].op = "save"
        PROVE  d \/ \E j \in 1..Len(new) : i < j /\ new[j].op = "load"
    BY <1>1, <1>2, <1>4, <2>1 DEF Saves, n
  <2>2. ASSUME NEW i \in 1..Len(new), NEW j \in 1..Len(new), new[i].op = "save", new[j].op = "save"
        PROVE  i = j
    BY <1>1, <1>2, <1>4, <2>2 DEF Saves, n
  <2> QED
    BY <2>1, <2>2 DEF Saves
<1>5. \A i \in 1..Len(new) : new[i] = r \/ \E j \in 1..n : new[i] = old[j]
  BY <1>1, <1>2
<1> QED
  BY <1>3, <1>4, <1>5 DEF n

-----------------------------------------------------------------------------
(* The steps of the pane.                                                  *)

\* Something is picked or edited, moved about, or asked for.
Rests == UNCHANGED <<source, service, tree, dirty, wire>>

Moves ==
  /\ UNCHANGED <<source, service, wire>> /\ dirty' = TRUE
  /\ \/ \E ids, g, at : IsList(ids) /\ at \in Nat /\ tree' = MoveItems(tree, ids, g, at)
     \/ \E from, to : tree' = MoveGroup(tree, from, to)

Sends(r) ==
  /\ UNCHANGED <<source, service, tree, dirty>> /\ Send(r)
  /\ r.op = "save" => dirty /\ r.y = SavedRows(tree) /\ \A i \in 1..Len(wire) : wire[i].op # "save"
  /\ r.op = "deleteMetric" => "delete" \in May[source]

StepsOfUser == Rests \/ Moves \/ \E r : Sends(r)

LEMMA UserSteps ==
  ASSUME TreeOK(tree), IsList(picked)
  PROVE  /\ \A m \in DOMAIN tree.under : TogglePick(m) \/ StartRename(m) \/ RenameMetric(m) \/ HideMetric(m)
                                         \/ DeleteMetric(m) \/ OpenFormula(m) => StepsOfUser
         /\ \A c \in Groups(tree) : TogglePickCategory(c) \/ BulkMove(c) \/ RenameCategory(c) \/ HideCategory(c)
                                    \/ DeleteCategory(c) => StepsOfUser
         /\ \A c, p : AddMetric(c, p) => StepsOfUser
         /\ \A m \in DOMAIN tree.under, c, g \in Groups(tree), at \in 0..MaxMetric : DragMetric(m, c, g, at) => StepsOfUser
         /\ \A from, to : DragCategory(from, to) => StepsOfUser
         /\ ClearPicks \/ Save \/ AddCategory \/ CancelRename \/ ToggleSettings => StepsOfUser
         /\ \A saved \in BOOLEAN : CloseFormula(saved) => StepsOfUser
<1>1. ASSUME NEW ids, IsList(ids), NEW c, NEW at \in Nat, ApplyMove(ids, c, at) PROVE Moves
  <2>1. tree' = MoveItems(tree, ids, c, at) /\ dirty' = TRUE /\ UNCHANGED <<source, service, wire>>
    BY <1>1 DEF ApplyMove
  <2> QED
    BY <1>1, <2>1 DEF Moves
<1>2. ASSUME NEW c \in Groups(tree), BulkMove(c) PROVE Moves
  <2>1. Len(tree.items[c]) \in Nat
    BY DEF TreeOK, IsList
  <2>2. ApplyMove(picked, c, Len(tree.items[c]))
    BY <1>2 DEF BulkMove
  <2> QED
    BY <1>1, <2>1, <2>2
<1>3. ASSUME NEW m, NEW c, NEW g, NEW at \in 0..MaxMetric, DragMetric(m, c, g, at) PROVE Moves
  BY <1>1, <1>3, DragIsMove
<1>4. ASSUME NEW from, NEW to, DragCategory(from, to) PROVE Moves
  <2>1. tree' = MoveGroup(tree, from, to) /\ dirty' = TRUE /\ UNCHANGED <<source, service, wire>>
    BY <1>4 DEF DragCategory
  <2> QED
    BY <2>1 DEF Moves
<1>5. ASSUME NEW m, TogglePick(m) \/ StartRename(m) \/ OpenFormula(m) \/ TogglePickCategory(m) PROVE Rests
  BY <1>5 DEF TogglePick, StartRename, OpenFormula, TogglePickCategory, Rests
<1>6. ClearPicks \/ CancelRename \/ ToggleSettings => Rests
  BY DEF ClearPicks, CancelRename, ToggleSettings, Rests
<1>7. ASSUME NEW op, op \notin {"save", "deleteMetric"}, NEW x, NEW y, Send(Request(op, x, y)),
             UNCHANGED <<source, service, screen>>
      PROVE  \E r : Sends(r)
  <2> DEFINE r == Request(op, x, y)
  <2>1. r.op = op
    BY DEF Request
  <2>2. UNCHANGED <<source, service, tree, dirty>> /\ Send(r)
    BY <1>7 DEF screen
  <2> HIDE DEF r
  <2> QED
    BY <1>7, <2>1, <2>2 DEF Sends
<1>8. ASSUME NEW c, NEW p, AddMetric(c, p) PROVE \E r : Sends(r)
  BY <1>7, <1>8 DEF AddMetric
<1>9. ASSUME NEW m, RenameMetric(m) \/ HideMetric(m) \/ RenameCategory(m) \/ HideCategory(m) \/ DeleteCategory(m)
      PROVE  \E r : Sends(r)
  BY <1>7, <1>9 DEF RenameMetric, HideMetric, RenameCategory, HideCategory, DeleteCategory
<1>10. AddCategory => \E r : Sends(r)
  BY <1>7 DEF AddCategory
<1>11. ASSUME NEW saved, CloseFormula(saved) PROVE Rests \/ \E r : Sends(r)
  <2>1. UNCHANGED <<source, service, tree, dirty>> /\ (Send(LoadRequest) \/ wire' = wire)
    BY <1>11 DEF CloseFormula
  <2>2. LoadRequest.op = "load"
    BY DEF LoadRequest, Request
  <2> DEFINE r == LoadRequest
  <2>3. Send(r) => Sends(r)
    <3> HIDE DEF r
    <3>1. r.op = "load"
      BY <2>2 DEF r
    <3> QED
      BY <2>1, <3>1 DEF Sends
  <2> QED
    BY <2>1, <2>3 DEF Rests
<1>12. ASSUME NEW m, DeleteMetric(m) PROVE \E r : Sends(r)
  <2> DEFINE r == Request("deleteMetric", m, Nested(tree, {m}))
  <2>1. r.op = "deleteMetric"
    BY DEF Request
  <2>2. UNCHANGED <<source, service, tree, dirty>> /\ Send(r) /\ "delete" \in May[source]
    BY <1>12 DEF DeleteMetric, screen, Act
  <2> HIDE DEF r
  <2> QED
    BY <2>1, <2>2 DEF Sends
<1>13. Save => \E r : Sends(r)
  <2> SUFFICES ASSUME Save PROVE \E r : Sends(r)
    OBVIOUS
  <2> DEFINE r == Request("save", SavedCats(tree), SavedRows(tree))
  <2>1. r.op = "save" /\ r.y = SavedRows(tree)
    BY DEF Request
  <2>2. UNCHANGED <<source, service, tree, dirty>> /\ Send(r) /\ "save" \in PaneOffers
    BY DEF Save, screen
  <2>3. dirty /\ \A i \in 1..Len(wire) : wire[i].op # "save"
    BY <2>2 DEF PaneOffers, Pick
  <2> HIDE DEF r
  <2> QED
    BY <2>1, <2>2, <2>3 DEF Sends
<1>14. Rests \/ Moves \/ (\E r : Sends(r)) => StepsOfUser
  BY DEF StepsOfUser
<1>a. \A m \in DOMAIN tree.under : TogglePick(m) \/ StartRename(m) \/ RenameMetric(m) \/ HideMetric(m)
                                   \/ DeleteMetric(m) \/ OpenFormula(m) => StepsOfUser
  BY <1>5, <1>9, <1>12, <1>14
<1>b. \A c \in Groups(tree) : TogglePickCategory(c) \/ BulkMove(c) \/ RenameCategory(c) \/ HideCategory(c)
                              \/ DeleteCategory(c) => StepsOfUser
  BY <1>2, <1>5, <1>9, <1>14
<1>c. ClearPicks \/ Save \/ AddCategory \/ CancelRename \/ ToggleSettings => StepsOfUser
  BY <1>6, <1>10, <1>13, <1>14
<1> QED
  BY <1>a, <1>b, <1>c, <1>3, <1>4, <1>8, <1>11, <1>14

LEMMA SameStored ==
  ASSUME UNCHANGED service
  PROVE  /\ StoredTree' = StoredTree /\ (Upright => Upright')
         /\ (tree' = tree => (Fits(tree) => Fits(tree)'))
         /\ \A rows : RowsFit(rows) => RowsFit(rows)'
<1>1. metricRow' = metricRow /\ catOrder' = catOrder
  BY DEF service
<1>2. StoredMetrics' = StoredMetrics /\ StoredCats' = StoredCats
  BY <1>1 DEF StoredMetrics, StoredCats
<1>3. StoredTree' = StoredTree
  BY <1>1, <1>2 DEF StoredTree, ShownUnder
<1>4. Upright => Upright'
  BY <1>1, <1>2 DEF Upright
<1>5. tree' = tree => (Fits(tree) => Fits(tree)')
  BY <1>1, <1>2 DEF Fits
<1>6. \A rows : RowsFit(rows) => RowsFit(rows)'
  BY <1>1, <1>2 DEF RowsFit
<1> QED
  BY <1>3, <1>4, <1>5, <1>6

LEMMA UserKeepsClean ==
  ASSUME CleanInv, TreeInv', StepsOfUser
  PROVE  CleanInv'
<1>1. /\ TreeOK(tree) /\ Asked(wire) /\ StoreOK /\ ("delete" \in May[source] => MaxWire[source] = 1)
      /\ Saves(wire, dirty) /\ (~dirty /\ ~LoadWaits(wire) => tree \in {StoredTree, Empty})
      /\ \A i \in 1..Len(wire) : wire[i].op = "deleteMetric" => "delete" \in May[source]
      /\ "delete" \in May[source] => OneByOne
  BY DEF CleanInv, TreeInv
<1>2. CASE Rests
  <2>1. UNCHANGED <<source, tree, dirty, wire>> /\ UNCHANGED service
    BY <1>2 DEF Rests
  <2>2. OneByOne => OneByOne'
    BY <2>1, SameStored DEF OneByOne
  <2>3. StoredTree' = StoredTree
    BY <2>1, SameStored
  <2> QED
    BY <1>1, <2>1, <2>2, <2>3 DEF CleanInv
<1>3. CASE Moves
  <2>1. UNCHANGED <<source, wire>> /\ UNCHANGED service /\ dirty' = TRUE
    BY <1>3 DEF Moves
  <2>2. Fits(tree) => Fits(tree)'
    <3> SUFFICES ASSUME Fits(tree) PROVE Fits(tree)'
      OBVIOUS
    <3>1. CASE \E ids, g, at : IsList(ids) /\ at \in Nat /\ tree' = MoveItems(tree, ids, g, at)
      <4>1. Fits(tree')
        BY <1>1, <3>1, FitsMoved
      <4> QED
        BY <2>1, <4>1 DEF Fits, service, StoredMetrics, StoredCats
    <3>2. CASE \E from, to : tree' = MoveGroup(tree, from, to)
      <4>1. Fits(tree')
        BY <1>1, <3>2, FitsReordered
      <4> QED
        BY <2>1, <4>1 DEF Fits, service, StoredMetrics, StoredCats
    <3> QED
      BY <1>3, <3>1, <3>2 DEF Moves
  <2>3. OneByOne => OneByOne'
    BY <2>1, <2>2, SameStored DEF OneByOne
  <2>4. Saves(wire', dirty')
    BY <1>1, <2>1 DEF Saves
  <2> QED
    BY <1>1, <2>1, <2>3, <2>4 DEF CleanInv
<1>4. ASSUME NEW r, Sends(r) PROVE CleanInv'
  <2>1. /\ UNCHANGED <<source, tree, dirty>> /\ UNCHANGED service /\ Send(r)
        /\ r.op = "save" => dirty /\ r.y = SavedRows(tree) /\ \A i \in 1..Len(wire) : wire[i].op # "save"
        /\ r.op = "deleteMetric" => "delete" \in May[source]
    BY <1>4 DEF Sends
  <2>2. Longer(wire', wire, r)
    BY <1>1, <2>1, SentIs
  <2>3. /\ LoadWaits(wire) => LoadWaits(wire')
        /\ Saves(wire', dirty)
        /\ \A i \in 1..Len(wire') : wire'[i] = r \/ \E j \in 1..Len(wire) : wire'[i] = wire[j]
    BY <1>1, <2>1, <2>2, RequestWaits
  <2>4. StoredTree' = StoredTree
    BY <2>1, SameStored
  <2>5. ASSUME "delete" \in May[source] PROVE OneByOne'
    <3>1. Len(wire) = 0 /\ Len(wire') = 1 /\ wire'[1] = r
      <4>1. Len(wire) < MaxWire[source] /\ MaxWire[source] = 1
        BY <1>1, <2>1, <2>5 DEF Send
      <4> QED
        BY <2>2, <4>1 DEF Longer
    <3>2. ~LoadWaits(wire)
      BY <3>1 DEF LoadWaits
    <3>3. Upright /\ Fits(tree)
      BY <1>1, <2>5, <3>2 DEF OneByOne
    <3>4. Upright' /\ Fits(tree)'
      BY <2>1, <3>3, SameStored
    <3>5. RowsFit(SavedRows(tree))
      BY <1>1, <3>3, SavedFit
    <3>6. ASSUME NEW i \in 1..Len(wire'), wire'[i].op = "save" PROVE RowsFit(wire[i].y)'
      <4>1. i = 1 /\ wire'[i] = r /\ r.y = SavedRows(tree)
        BY <2>1, <3>1, <3>6
      <4>2. RowsFit(r.y)
        BY <3>5, <4>1
      <4>3. RowsFit(wire'[i].y)
        BY <4>1, <4>2
      <4> QED
        BY <2>1, <4>3 DEF RowsFit, service, StoredMetrics, StoredCats
    <3> QED
      BY <3>1, <3>4, <3>6 DEF OneByOne
  <2> QED
    BY <1>1, <2>1, <2>3, <2>4, <2>5 DEF CleanInv
<1> QED
  BY <1>2, <1>3, <1>4 DEF StepsOfUser

LEMMA ThenClean ==
  ASSUME CleanInv, TreeInv', wire # <<>>, NEW rs, OnlyLoads(rs), Then(rs), source' = source,
         dirty' = dirty \/ Len(rs) > 0,
         LoadWaits(wire') \/ dirty' \/ tree' \in {StoredTree', Empty},
         "delete" \in May[source] => Upright' /\ (LoadWaits(wire') \/ Fits(tree)')
  PROVE  CleanInv'
<1>1. /\ Asked(wire) /\ ("delete" \in May[source] => MaxWire[source] = 1) /\ Saves(wire, dirty)
      /\ \A i \in 1..Len(wire) : wire[i].op = "deleteMetric" => "delete" \in May[source]
      /\ "delete" \in May[source] => OneByOne
  BY DEF CleanInv, TreeInv
<1>2. Shorter(wire', wire, rs)
  BY <1>1, TakenIs
<1>3. Saves(wire', dirty) /\ (Len(rs) > 0 => Saves(wire', FALSE))
  BY <1>1, <1>2, AnswerWaits
<1>4. Saves(wire', FALSE) => Saves(wire', dirty')
  BY DEF Saves
<1>5. Saves(wire', dirty')
  BY <1>3, <1>4
<1>6. \A i \in 1..Len(wire') : wire'[i].op = "deleteMetric" => "delete" \in May[source]
  <2>1. \A i \in 1..Len(wire') : wire'[i].op = "load" \/ \E j \in 1..Len(wire) : wire'[i] = wire[j]
    BY <1>2, AnswerWaits
  <2> QED
    BY <1>1, <2>1
<1>7. "delete" \in May[source] => OneByOne'
  <2> SUFFICES ASSUME "delete" \in May[source] PROVE OneByOne'
    OBVIOUS
  <2>1. OnlyLoads(wire')
    BY <1>1, <1>2, AnswerWaits DEF OneByOne
  <2>2. \A i \in 1..Len(wire') : wire'[i].op = "save" => RowsFit(wire[i].y)'
    BY <2>1 DEF OnlyLoads
  <2>3. OnlyLoads(wire)'
    BY <2>1 DEF OnlyLoads
  <2> QED
    BY <2>2, <2>3 DEF OneByOne
<1> QED
  BY <1>1, <1>5, <1>6, <1>7 DEF CleanInv

LEMMA AnswerKeepsClean ==
  ASSUME CleanInv, TreeInv',
         AnswerLoad \/ AnswerSave \/ SaveBreaks \/ AnswerAddCategory \/ AnswerAddMetric \/ AnswerRenameMetric
         \/ AnswerRenameCategory \/ AnswerHide \/ AnswerDeleteMetric \/ AnswerDeleteCategory \/ Fail
  PROVE  CleanInv'
<1>0. /\ OnlyLoads(<<>>) /\ OnlyLoads(<<LoadRequest>>) /\ Len(<<LoadRequest>>) = 1
      /\ \A x, y : OnlyLoads(<<LoadRequest, Request("load", x, y)>>) /\ Len(<<LoadRequest, Request("load", x, y)>>) = 2
  BY LoadsFollow
<1>1. /\ TreeOK(tree) /\ StoreOK /\ StoreOK' /\ Asked(wire) /\ ("delete" \in May[source] => MaxWire[source] = 1)
      /\ Saves(wire, dirty) /\ (~dirty /\ ~LoadWaits(wire) => tree \in {StoredTree, Empty})
      /\ \A i \in 1..Len(wire) : wire[i].op = "deleteMetric" => "delete" \in May[source]
      /\ "delete" \in May[source] => OneByOne
  BY DEF CleanInv, TreeInv
<1>2. ASSUME NEW rs, OnlyLoads(rs), Then(rs), wire # <<>>
      PROVE  /\ LoadWaits(wire) => LoadWaits(wire') \/ Head1.op = "load"
             /\ Len(rs) > 0 => LoadWaits(wire')
             /\ Head1.op = "save" => dirty \/ LoadWaits(wire')
  <2>1. Shorter(wire', wire, rs) /\ Head1 = wire[1]
    BY <1>1, <1>2, TakenIs
  <2>2. /\ LoadWaits(wire) => LoadWaits(wire') \/ wire[1].op = "load"
        /\ Len(rs) > 0 => LoadWaits(wire')
        /\ \A d : Saves(wire, d) /\ wire[1].op = "save" => d \/ LoadWaits(wire')
    BY <1>2, <2>1, AnswerWaits
  <2> QED
    BY <1>1, <2>1, <2>2
<1>3. 1 \in 1..Len(wire) \/ wire = <<>>
  BY <1>1, TailList DEF Asked
\* What was asked for is done, and the pane loads again.
<1>4. ASSUME NEW rs, OnlyLoads(rs), Then(rs), Len(rs) > 0, wire # <<>>, source' = source,
             "delete" \in May[source] => Upright'
      PROVE  CleanInv'
  BY <1>2, <1>4, ThenClean
\* Nothing changes but the request.
<1>5. ASSUME NEW rs, OnlyLoads(rs), Then(rs), wire # <<>>, Head1.op # "load", UNCHANGED <<source, service, tree, dirty>>
      PROVE  CleanInv'
  <2>0. UNCHANGED service
    BY <1>5
  <2>1. LoadWaits(wire) => LoadWaits(wire')
    BY <1>2, <1>5
  <2>2. LoadWaits(wire') \/ dirty' \/ tree' \in {StoredTree', Empty}
    BY <1>1, <1>5, <2>0, <2>1, SameStored
  <2>3. "delete" \in May[source] => Upright' /\ (LoadWaits(wire') \/ Fits(tree)')
    BY <1>1, <1>5, <2>0, <2>1, SameStored DEF OneByOne
  <2> QED
    BY <1>5, <2>2, <2>3, ThenClean
<1>6. CASE AnswerLoad
  <2>1. wire # <<>> /\ Then(<<>>) /\ tree' = StoredTree /\ UNCHANGED <<source, dirty>> /\ UNCHANGED service
    BY <1>6 DEF AnswerLoad, Taken
  <2>2. tree' = StoredTree'
    BY <2>1, SameStored
  <2>3. ASSUME Upright PROVE Upright' /\ Fits(tree)'
    <3>1. Fits(StoredTree)
      BY <1>1, <2>3, StoredFits
    <3>2. Fits(tree')
      BY <2>1, <3>1
    <3> QED
      BY <2>1, <2>3, <3>2, SameStored DEF Fits, service, StoredMetrics, StoredCats
  <2>4. "delete" \in May[source] => Upright' /\ Fits(tree)'
    BY <1>1, <2>3 DEF OneByOne
  <2> QED
    BY <1>0, <2>1, <2>2, <2>4, ThenClean
<1>7. CASE AnswerSave
  <2>1. /\ wire # <<>> /\ Then(<<LoadRequest>>) /\ source' = source /\ Head1 = wire[1] /\ Head1.op = "save"
        /\ Reorder(Head1.x, Head1.y)
    BY <1>7 DEF AnswerSave, Taken, Head1
  <2>2. "delete" \in May[source] => Upright'
    <3> SUFFICES ASSUME OneByOne PROVE Upright'
      BY <1>1
    <3>1. Upright /\ RowsFit(Head1.y)
      BY <1>3, <2>1 DEF OneByOne
    <3> QED
      BY <1>1, <2>1, <3>1, FitSaves
  <2> QED
    BY <1>0, <1>4, <2>1, <2>2
<1>8. CASE SaveBreaks
  <2>1. /\ wire # <<>> /\ Then(<<>>) /\ UNCHANGED <<source, tree, dirty>> /\ Head1 = wire[1] /\ Head1.op = "save"
        /\ \E m \in DOMAIN Head1.y : Breaks(Head1.y, m)
    BY <1>8 DEF SaveBreaks, Taken, Head1, screen
  <2>2. "delete" \notin May[source]
    <3> SUFFICES ASSUME OneByOne PROVE FALSE
      BY <1>1
    <3>1. Upright /\ RowsFit(Head1.y)
      BY <1>3, <2>1 DEF OneByOne
    <3> QED
      BY <1>1, <2>1, <3>1, FitSaves
  <2>3. LoadWaits(wire') \/ dirty'
    BY <1>0, <1>2, <2>1
  <2> QED
    BY <1>0, <2>1, <2>2, <2>3, ThenClean
<1>9. CASE AnswerAddCategory
  <2>1. /\ wire # <<>> /\ Then(<<LoadRequest>>) /\ source' = source /\ metricRow' = metricRow
    BY <1>9 DEF AnswerAddCategory, Taken
  <2>2. Upright => Upright'
    BY <2>1 DEF Upright, StoredMetrics
  <2> QED
    BY <1>0, <1>1, <1>4, <2>1, <2>2 DEF OneByOne
<1>10. CASE AnswerAddMetric
  <2> DEFINE rs == <<LoadRequest, Request("load", IF Head1.y \in Locked THEN NULL ELSE Head1.y, NULL)>>
  <2>1. /\ wire # <<>> /\ Then(rs) /\ source' = source /\ Head1.x \in StoredCats
        /\ Head1.y # NULL => Head1.y \in StoredMetrics /\ metricRow[Head1.y].cat = Head1.x
    BY <1>10 DEF AnswerAddMetric, Taken
  <2>2. PICK m \in Metrics \ StoredMetrics : InsertMetric(m, Head1.x, Head1.y)
    BY <1>10 DEF AnswerAddMetric
  <2>3. Upright => Upright'
    BY <1>1, <2>1, <2>2, InsertUpright
  <2>4. OnlyLoads(rs) /\ Len(rs) = 2
    BY <1>0
  <2> HIDE DEF rs
  <2> QED
    BY <1>1, <1>4, <2>1, <2>3, <2>4 DEF OneByOne
<1>11. CASE AnswerRenameMetric \/ AnswerHide
  <2>1. wire # <<>> /\ Then(<<>>) /\ Head1.op # "load" /\ UNCHANGED <<source, service, tree, dirty>>
    BY <1>11 DEF AnswerRenameMetric, AnswerHide, Taken, Head1, screen
  <2> QED
    BY <1>0, <1>5, <2>1
<1>12. CASE AnswerRenameCategory
  <2>1. wire # <<>> /\ Then(<<LoadRequest>>) /\ Head1.op # "load" /\ UNCHANGED <<source, service, tree, dirty>>
    BY <1>12 DEF AnswerRenameCategory, Taken, Head1, screen
  <2> QED
    BY <1>0, <1>5, <2>1
<1>13. CASE AnswerDeleteMetric
  <2> DEFINE m == Head1.x
  <2>1. /\ wire # <<>> /\ Then(<<>>) /\ Head1 = wire[1] /\ Head1.op = "deleteMetric" /\ m \in StoredMetrics
        /\ DropMetrics({m}) /\ tree' = Removed({m}) /\ UNCHANGED <<source, catOrder, dirty>>
    BY <1>13 DEF AnswerDeleteMetric, Taken, Head1
  <2> HIDE DEF m
  <2>2. "delete" \in May[source] /\ OneByOne
    BY <1>1, <1>3, <2>1
  <2>3. Upright /\ ~LoadWaits(wire) /\ Fits(tree)
    <3>1. ~OnlyLoads(wire)
      BY <1>3, <2>1 DEF OnlyLoads
    <3>2. Len(wire) <= 1 /\ Len(wire) \in Nat
      BY <1>1, <2>2, <3>1 DEF OneByOne, Asked, IsList
    <3>3. \A i \in 1..Len(wire) : i = 1
      BY <3>2
    <3>4. ~LoadWaits(wire)
      BY <2>1, <3>3 DEF LoadWaits
    <3> QED
      BY <2>2, <3>4 DEF OneByOne
  <2>4. Fits(tree)'
    BY <1>1, <2>1, <2>3, FitsRemoved
  <2>5. Upright'
    <3>1. {m} \in SUBSET StoredMetrics
      BY <2>1
    <3> QED
      BY <2>1, <2>3, <3>1, DropUpright
  <2>6. dirty \/ tree' \in {StoredTree', Empty}
    <3>1. CASE tree = StoredTree
      <4>1. Removed({m}) = StoredTree'
        BY <1>1, <2>1, <2>3, <3>1, RemovedIsStored
      <4> QED
        BY <2>1, <4>1
    <3>2. CASE tree = Empty
      BY <2>1, <3>2, EmptyRemoved
    <3> QED
      BY <1>1, <2>3, <3>1, <3>2
  <2> QED
    BY <1>0, <2>1, <2>4, <2>5, <2>6, ThenClean
<1>14. CASE AnswerDeleteCategory
  <2> DEFINE S == {m \in StoredMetrics : metricRow[m].cat = Head1.x}
  <2>1. wire # <<>> /\ Then(<<LoadRequest>>) /\ source' = source /\ DropMetrics(S) /\ S \in SUBSET StoredMetrics
    BY <1>14 DEF AnswerDeleteCategory, Taken
  <2> HIDE DEF S
  <2>2. Upright => Upright'
    BY <2>1, DropUpright
  <2> QED
    BY <1>0, <1>1, <1>4, <2>1, <2>2 DEF OneByOne
<1>15. CASE Fail
  <2> DEFINE rs == IF Head1.op \in {"hideMetric", "hideCategory", "deleteMetric"} THEN <<LoadRequest>> ELSE <<>>
  <2>1. /\ wire # <<>> /\ Then(rs) /\ tree' = (IF Head1.op = "load" THEN Empty ELSE tree)
        /\ UNCHANGED <<source, dirty>> /\ UNCHANGED service
    BY <1>15 DEF Fail
  <2>2. OnlyLoads(rs)
    BY <1>0
  <2> HIDE DEF rs
  <2>3. CASE Head1.op = "load"
    <3>1. tree' = Empty
      BY <2>1, <2>3
    <3>2. ASSUME Upright PROVE Upright' /\ Fits(tree)'
      <4>1. Fits(Empty)
        BY <1>1, <3>2, EmptyFits
      <4>2. Fits(tree')
        BY <3>1, <4>1
      <4> QED
        BY <2>1, <3>2, <4>2, SameStored DEF Fits, service, StoredMetrics, StoredCats
    <3> QED
      BY <1>1, <2>1, <2>2, <3>1, <3>2, ThenClean DEF OneByOne
  <2>4. CASE Head1.op # "load"
    BY <1>5, <2>1, <2>2, <2>4
  <2> QED
    BY <2>3, <2>4
<1> QED
  BY <1>6, <1>7, <1>8, <1>9, <1>10, <1>11, <1>12, <1>13, <1>14, <1>15

LEMMA InitClean ==
  ASSUME TreeScreenInit, \A s \in SourceTypes : "delete" \in May[s] => MaxWire[s] = 1
  PROVE  CleanInv
<1>1. TreeInv
  BY InitTree
<1>2. source \in SourceTypes /\ tree = Empty /\ dirty = FALSE /\ wire = <<LoadRequest>>
  BY DEF TreeScreenInit
<1>3. Len(wire) = 1 /\ wire[1].op = "load"
  <2>1. LoadRequest.op = "load"
    BY DEF LoadRequest, Request
  <2> QED
    BY <1>2, <2>1, ShortLists
<1>4. \A i \in 1..Len(wire) : i = 1
  BY <1>3
<1>5. LoadWaits(wire) /\ Saves(wire, dirty)
  BY <1>3, <1>4 DEF LoadWaits, Saves
<1>6. /\ \A m \in Metrics : metricRow[m] # NULL => m <= 3 /\ metricRow[m].cat = 1
                                                  /\ (metricRow[m].parent = NULL \/ (m = 3 /\ metricRow[m].parent = 1))
      /\ 3 \in Metrics => 1 \in Metrics
      /\ 1 \in Metrics => metricRow[1] # NULL /\ metricRow[1].cat = 1 /\ metricRow[1].parent = NULL
  <2>1. 1 \in Int /\ 3 \in Int /\ MaxMetric \in Nat
    BY TreeScreenAssumption
  <2>2. (3 \in Metrics => 1 \in Metrics) /\ \A m \in Metrics : m \in Int
    BY <2>1 DEF Metrics
  <2> DEFINE Row(p) == [cat |-> 1, order |-> 0, parent |-> p]
  <2>3. ASSUME NEW p \in Metrics \cup {NULL} PROVE Row(p).cat = 1 /\ Row(p).parent = p /\ Row(p) # NULL
    <3>1. 1 \in Cats
      BY TreeScreenAssumption DEF Cats
    <3>2. Row(p) \in RegistryRow
      BY <3>1 DEF RegistryRow
    <3> QED
      BY <3>2, RegistryRowAssumption
  <2>4. \/ \A m \in Metrics : metricRow[m] = IF m <= 3 THEN Row(NULL) ELSE NULL
        \/ \A m \in Metrics : metricRow[m] = IF m <= 3 THEN Row(IF m = 3 THEN 1 ELSE NULL) ELSE NULL
    BY DEF TreeScreenInit
  <2> HIDE DEF Row
  <2>5. ASSUME NEW m \in Metrics
        PROVE  \/ m > 3 /\ metricRow[m] = NULL
               \/ m <= 3 /\ metricRow[m] = Row(NULL)
               \/ m = 3 /\ metricRow[m] = Row(1)
    BY <2>2, <2>4
  <2>6. 1 \in Metrics => metricRow[1] = Row(NULL)
    BY <2>5
  <2> QED
    BY <2>2, <2>3, <2>5, <2>6
<1>7. Upright
  <2>1. ASSUME NEW m \in StoredMetrics, metricRow[m].parent # NULL
        PROVE  metricRow[m].parent \in StoredMetrics /\ metricRow[metricRow[m].parent].cat = metricRow[m].cat
    BY <1>6, <2>1 DEF StoredMetrics
  <2>2. ASSUME NEW T \in SUBSET StoredMetrics,
               \A m \in StoredMetrics : metricRow[m].parent = NULL \/ metricRow[m].parent \in T => m \in T
        PROVE  T = StoredMetrics
    <3>1. 1 \in StoredMetrics => 1 \in T
      BY <1>6, <2>2 DEF StoredMetrics
    <3> QED
      BY <1>6, <2>2, <3>1 DEF StoredMetrics
  <2> QED
    BY <2>1, <2>2 DEF Upright
<1> QED
  BY <1>1, <1>2, <1>3, <1>4, <1>5, <1>7 DEF CleanInv, OneByOne

\* What is not marked as unsaved is what is stored, whatever was dragged, added, saved and
\* deleted before, and whichever save stopped in the middle; where metrics are deleted, if no
\* request is sent before the last one is answered.
THEOREM CleanStays == (\A s \in SourceTypes : "delete" \in May[s] => MaxWire[s] = 1) => (MCSpec => []CleanIsStored)
<1> SUFFICES ASSUME \A s \in SourceTypes : "delete" \in May[s] => MaxWire[s] = 1
             PROVE  MCSpec => []CleanIsStored
  OBVIOUS
<1>1. MCInit => CleanInv
  BY InitClean DEF MCInit
<1>2. CleanInv /\ [MCNext]_<<tsvars, osvars, open>> => CleanInv'
  <2> SUFFICES ASSUME CleanInv, [MCNext]_<<tsvars, osvars, open>> PROVE CleanInv'
    OBVIOUS
  <2>0. TreeInv /\ TreeOK(tree) /\ IsList(picked)
    BY DEF CleanInv, TreeInv
  <2>1. CASE TreeScreenNext
    <3>1. TreeInv'
      BY <2>0, <2>1, UserKeepsTree, AnswerKeepsTree DEF TreeScreenNext
    <3>2. StepsOfUser => CleanInv'
      BY <3>1, UserKeepsClean
    <3> QED
      BY <2>0, <2>1, <3>1, <3>2, UserSteps, AnswerKeepsClean DEF TreeScreenNext
  <2>2. CASE UNCHANGED tsvars
    <3>1. UNCHANGED <<service, tree, picked, wire>> /\ Rests
      BY <2>2 DEF tsvars, service, Rests
    <3>2. TreeInv'
      BY <2>0, <3>1, QuietKeeps
    <3> QED
      BY <3>1, <3>2, UserKeepsClean DEF StepsOfUser
  <2> QED
    BY <2>1, <2>2 DEF MCNext
<1>3. CleanInv => CleanIsStored
  <2>1. wire = <<>> => ~LoadWaits(wire)
    BY EmptyList DEF LoadWaits
  <2> QED
    BY <2>1 DEF CleanInv, CleanIsStored
<1> QED
  BY <1>1, <1>2, <1>3, PTL DEF MCSpec

-----------------------------------------------------------------------------
(* The tables of the dashboard: sums over finite sets.                     *)

LEMMA LeastNumber ==
  ASSUME NEW S \in SUBSET Nat, S # {}
  PROVE  \E m \in S : \A k \in S : m <= k
<1> SUFFICES ASSUME \A m \in S : \E k \in S : k < m
             PROVE  FALSE
  OBVIOUS
<1> PICK n \in S : TRUE
  OBVIOUS
<1> DEFINE L == {x \in 0..n : \A k \in S : x <= k}
<1>1. IsFiniteSet(L)
  <2>1. IsFiniteSet(0..n)
    BY FS_Interval
  <2>2. L \in SUBSET (0..n)
    OBVIOUS
  <2> HIDE DEF L
  <2> QED
    BY <2>1, <2>2, FS_Subset
<1>2. 0 \in L
  OBVIOUS
<1>3. \A x \in L : x + 1 \in L \ {0}
  <2> SUFFICES ASSUME NEW x \in L
               PROVE  x + 1 \in L \ {0}
    OBVIOUS
  <2>1. \A k \in S : x + 1 <= k
    OBVIOUS
  <2> QED
    BY <2>1
<1>4. L \subseteq Nat
  OBVIOUS
<1> HIDE DEF L
<1>5. IsFiniteSet(L \ {0}) /\ Cardinality(L \ {0}) < Cardinality(L)
  <2>1. Cardinality(L) \in Nat
    BY <1>1, FS_CardinalityType
  <2>2. IsFiniteSet(L \ {0}) /\ Cardinality(L \ {0}) = Cardinality(L) - 1
    BY <1>1, <1>2, FS_RemoveElement
  <2> QED
    BY <2>1, <2>2
<1> DEFINE f == [x \in L |-> x + 1]
<1>6. f \in [L -> L \ {0}]
  BY <1>3
<1>7. \A x, y \in L : f[x] = f[y] => x = y
  BY <1>4
<1> HIDE DEF f
<1> QED
  BY <1>1, <1>5, <1>6, <1>7, FS_PigeonHole

LEMMA SumBuilds ==
  ASSUME NEW S, IsFiniteSet(S), NEW f, \A x \in S : f[x] \in Int,
         NEW Good, <<{}, 0>> \in Good,
         \A s \in SUBSET S : \A x \in s : \A v \in Int : <<s \ {x}, v>> \in Good => <<s, f[x] + v>> \in Good
  PROVE  SumFunctionOnSet(f, S) \in Int /\ <<S, SumFunctionOnSet(f, S)>> \in Good
<1> DEFINE pick(s) == CHOOSE x \in s : TRUE
           step(g, s) == IF s = {} THEN 0 ELSE f[pick(s)] + g[s \ {pick(s)}]
           sums(g) == g = [s \in SUBSET S |-> step(g, s)]
           small(n) == {s \in SUBSET S : Cardinality(s) <= n}
           built(n) == \E g \in [small(n) -> Int] : \A s \in small(n) : g[s] = step(g, s)
<1>1. SumFunctionOnSet(f, S) = (CHOOSE g : sums(g))[S]
  BY DEF SumFunctionOnSet, FoldFunctionOnSet, MapThenFoldSet
<1>2. ASSUME NEW s \in SUBSET S PROVE IsFiniteSet(s) /\ Cardinality(s) \in Nat /\ Cardinality(s) <= Cardinality(S)
  BY FS_Subset, FS_CardinalityType
<1>3. ASSUME NEW s \in SUBSET S, s # {}
      PROVE  /\ pick(s) \in s /\ s \ {pick(s)} \in SUBSET S /\ f[pick(s)] \in Int
             /\ Cardinality(s \ {pick(s)}) = Cardinality(s) - 1
  <2>1. pick(s) \in s /\ pick(s) \in S /\ s \ {pick(s)} \in SUBSET S
    BY <1>3
  <2> HIDE DEF pick
  <2>2. Cardinality(s \ {pick(s)}) = Cardinality(s) - 1
    BY <1>2, <2>1, FS_RemoveElement
  <2> QED
    BY <2>1, <2>2
<1> HIDE DEF pick
<1>4. built(0)
  <2>1. \A s \in small(0) : s = {}
    <3> SUFFICES ASSUME NEW s \in small(0) PROVE s = {}
      OBVIOUS
    <3>1. s \in SUBSET S /\ Cardinality(s) <= 0
      OBVIOUS
    <3>2. IsFiniteSet(s) /\ Cardinality(s) = 0
      BY <1>2, <3>1
    <3> QED
      BY <3>2, FS_EmptySet
  <2> HIDE DEF small
  <2>2. [s \in small(0) |-> 0] \in [small(0) -> Int]
    OBVIOUS
  <2> QED
    BY <2>1, <2>2
<1>5. ASSUME NEW n \in Nat, built(n) PROVE built(n + 1)
  <2>1. PICK g \in [small(n) -> Int] : \A s \in small(n) : g[s] = step(g, s)
    BY <1>5
  <2> DEFINE h == [s \in small(n + 1) |-> step(g, s)]
  <2>2. ASSUME NEW s \in small(n + 1), s # {}
        PROVE  f[pick(s)] \in Int /\ s \ {pick(s)} \in small(n) /\ s \ {pick(s)} \in small(n + 1)
    <3>1. /\ f[pick(s)] \in Int /\ s \ {pick(s)} \in SUBSET S
          /\ Cardinality(s \ {pick(s)}) = Cardinality(s) - 1
          /\ Cardinality(s) \in Nat /\ Cardinality(s) <= n + 1
      BY <1>2, <1>3, <2>2
    <3>2. Cardinality(s \ {pick(s)}) <= n /\ Cardinality(s \ {pick(s)}) <= n + 1
      BY <3>1
    <3> QED
      BY <3>1, <3>2
  <2>3. \A s \in small(n) : s \in small(n + 1) /\ h[s] = g[s]
    <3> SUFFICES ASSUME NEW s \in small(n) PROVE s \in small(n + 1) /\ h[s] = g[s]
      OBVIOUS
    <3>1. s \in small(n + 1)
      BY <1>2
    <3> HIDE DEF small
    <3> QED
      BY <2>1, <3>1
  <2> HIDE DEF small
  <2>4. h \in [small(n + 1) -> Int]
    BY <2>2
  <2>5. ASSUME NEW s \in small(n + 1) PROVE h[s] = step(h, s)
    <3>1. CASE s = {}
      BY <3>1
    <3>2. CASE s # {}
      <4>1. h[s \ {pick(s)}] = g[s \ {pick(s)}]
        BY <2>2, <2>3, <3>2
      <4> QED
        BY <3>2, <4>1
    <3> QED
      BY <3>1, <3>2
  <2> QED
    BY <2>4, <2>5
<1>6. \A n \in Nat : built(n)
  <2> DEFINE bad == {n \in Nat : ~built(n)}
  <2> SUFFICES ASSUME bad # {} PROVE FALSE
    OBVIOUS
  <2>1. PICK m \in bad : \A y \in bad : m <= y
    BY LeastNumber
  <2>2. m \in Nat /\ ~built(m) /\ \A y \in Nat : y < m => built(y)
    <3> HIDE DEF built
    <3> QED
      BY <2>1
  <2> HIDE DEF bad, built
  <2>3. m # 0
    BY <1>4, <2>2
  <2>4. m - 1 \in Nat /\ (m - 1) + 1 = m /\ built(m - 1)
    BY <2>2, <2>3
  <2> QED
    BY <1>5, <2>2, <2>4
<1>7. \E g : sums(g)
  <2>1. small(Cardinality(S)) = SUBSET S
    BY <1>2
  <2>2. Cardinality(S) \in Nat
    BY FS_CardinalityType
  <2>3. built(Cardinality(S))
    <3> HIDE DEF built
    <3> QED
      BY <1>6, <2>2
  <2> HIDE DEF small
  <2>4. PICK g \in [SUBSET S -> Int] : \A s \in SUBSET S : g[s] = step(g, s)
    BY <2>1, <2>3
  <2> QED
    BY <2>4
<1> DEFINE iter == CHOOSE g : sums(g)
           sizes == {Cardinality(s) : s \in {r \in SUBSET S : ~(iter[r] \in Int /\ <<r, iter[r]>> \in Good)}}
<1>8. \A s \in SUBSET S : iter[s] = step(iter, s)
  <2>1. sums(iter)
    BY <1>7
  <2> HIDE DEF iter
  <2> QED
    BY <2>1
<1> HIDE DEF iter
<1>9. sizes = {}
  <2> SUFFICES ASSUME sizes # {} PROVE FALSE
    OBVIOUS
  <2>1. sizes \in SUBSET Nat
    BY <1>2
  <2>2. PICK c \in sizes : \A y \in sizes : c <= y
    BY <2>1, LeastNumber
  <2>3. PICK s \in SUBSET S : ~(iter[s] \in Int /\ <<s, iter[s]>> \in Good) /\ Cardinality(s) = c
    BY <2>2
  <2>4. s # {}
    <3>1. iter[{}] = 0
      <4>1. {} \in SUBSET S
        OBVIOUS
      <4> QED
        BY <1>8, <4>1
    <3> HIDE DEF sizes
    <3> QED
      BY <2>3, <3>1
  <2> DEFINE x == pick(s)
  <2>5. /\ x \in s /\ f[x] \in Int /\ s \ {x} \in SUBSET S /\ Cardinality(s \ {x}) = Cardinality(s) - 1
        /\ Cardinality(s) \in Nat
    BY <1>2, <1>3, <2>4
  <2>6. iter[s] = f[x] + iter[s \ {x}]
    BY <1>8, <2>4
  <2> HIDE DEF x
  <2>7. ~(iter[s \ {x}] \in Int /\ <<s \ {x}, iter[s \ {x}]>> \in Good)
    BY <2>3, <2>5, <2>6
  <2>8. Cardinality(s \ {x}) \in sizes
    BY <2>5, <2>7
  <2> HIDE DEF sizes
  <2> QED
    BY <2>2, <2>3, <2>5, <2>8
<1>10. iter[S] \in Int /\ <<S, iter[S]>> \in Good
  <2> SUFFICES ASSUME ~(iter[S] \in Int /\ <<S, iter[S]>> \in Good) PROVE FALSE
    OBVIOUS
  <2>1. Cardinality(S) \in sizes
    OBVIOUS
  <2> QED
    BY <1>9, <2>1
<1> QED
  BY <1>1, <1>10 DEF iter

LEMMA SumBounds ==
  ASSUME NEW S, IsFiniteSet(S), NEW f, \A x \in S : f[x] \in Int, NEW lo \in Int, NEW hi \in Int,
         \A x \in S : lo <= f[x] /\ f[x] <= hi
  PROVE  /\ SumFunctionOnSet(f, S) \in Int
         /\ Cardinality(S) * lo <= SumFunctionOnSet(f, S) /\ SumFunctionOnSet(f, S) <= Cardinality(S) * hi
         /\ \A r \in S : /\ Cardinality(S) * lo + (f[r] - lo) <= SumFunctionOnSet(f, S)
                         /\ SumFunctionOnSet(f, S) <= Cardinality(S) * hi - (hi - f[r])
<1> DEFINE ok(s, v) == /\ Cardinality(s) * lo <= v /\ v <= Cardinality(s) * hi
                       /\ \A r \in s : /\ Cardinality(s) * lo + (f[r] - lo) <= v
                                       /\ v <= Cardinality(s) * hi - (hi - f[r])
           Good == {p \in (SUBSET S) \X Int : ok(p[1], p[2])}
<1>1. <<{}, 0>> \in Good
  <2> DEFINE z == Cardinality({})
  <2>1. z = 0
    BY FS_EmptySet
  <2> HIDE DEF z
  <2>2. z * lo <= 0 /\ 0 <= z * hi
    BY <2>1
  <2>3. ok({}, 0)
    BY <2>2 DEF z
  <2> HIDE DEF ok
  <2> QED
    BY <2>3
<1>2. ASSUME NEW s \in SUBSET S, NEW x \in s, NEW v \in Int, <<s \ {x}, v>> \in Good PROVE <<s, f[x] + v>> \in Good
  <2> DEFINE n == Cardinality(s)
             m == Cardinality(s \ {x})
  <2>1. n \in Nat /\ m = n - 1 /\ m \in Nat /\ f[x] \in Int
    <3>1. IsFiniteSet(s) /\ IsFiniteSet(s \ {x})
      BY FS_Subset
    <3> QED
      BY <3>1, FS_CardinalityType, FS_RemoveElement
  <2>2. ok(s \ {x}, v)
    BY <1>2
  <2>3. n * lo = m * lo + lo /\ n * hi = m * hi + hi /\ m * lo \in Int /\ m * hi \in Int
    <3> HIDE DEF n, m
    <3> QED
      BY <2>1
  <2>4. lo <= f[x] /\ f[x] <= hi /\ m * lo <= v /\ v <= m * hi
    BY <2>2
  <2>5. ASSUME NEW r \in s PROVE f[r] \in Int /\ n * lo + (f[r] - lo) <= f[x] + v /\ f[x] + v <= n * hi - (hi - f[r])
    <3>0. f[r] \in Int
      OBVIOUS
    <3>1. CASE r = x
      <4> HIDE DEF n, m
      <4> QED
        BY <2>1, <2>3, <2>4, <3>1
    <3>2. CASE r # x
      <4>1. m * lo + (f[r] - lo) <= v /\ v <= m * hi - (hi - f[r])
        BY <2>2, <3>2
      <4> HIDE DEF n, m
      <4> QED
        BY <2>1, <2>3, <2>4, <3>0, <4>1
    <3> QED
      BY <3>1, <3>2
  <2>6. ok(s, f[x] + v)
    <3>1. n * lo <= f[x] + v /\ f[x] + v <= n * hi
      <4> HIDE DEF n, m
      <4> QED
        BY <2>1, <2>3, <2>4
    <3> QED
      BY <2>5, <3>1
  <2> QED
    BY <2>1, <2>6
<1> HIDE DEF Good, ok
<1>3. SumFunctionOnSet(f, S) \in Int /\ <<S, SumFunctionOnSet(f, S)>> \in Good
  BY <1>1, <1>2, SumBuilds
<1>4. ok(S, SumFunctionOnSet(f, S))
  <2> HIDE DEF ok
  <2> QED
    BY <1>3 DEF Good
<1> QED
  BY <1>3, <1>4 DEF ok

-----------------------------------------------------------------------------
(* Means and aggregates.                                                   *)

LEMMA MeanIs ==
  ASSUME NEW b, IsFiniteSet(DOMAIN b), DOMAIN b # {}, \A x \in DOMAIN b : b[x] \in Int
  PROVE  /\ Mean(b) \in Int /\ SumFunction(b) \in Int
         /\ \A v : (\A x \in DOMAIN b : b[x] = v) => Mean(b) = v
<1> DEFINE n == Cardinality(DOMAIN b)
           t == SumFunctionOnSet(b, DOMAIN b)
<1>1. n \in Nat /\ n > 0
  BY FS_CardinalityType, FS_EmptySet
<1>2. t \in Int
  <2> HIDE DEF t
  <2>1. SumFunctionOnSet(b, DOMAIN b) \in Int
    <3> DEFINE Good == (SUBSET DOMAIN b) \X Int
    <3>1. <<{}, 0>> \in Good
      OBVIOUS
    <3>2. ASSUME NEW s \in SUBSET DOMAIN b, NEW x \in s, NEW v \in Int, <<s \ {x}, v>> \in Good
          PROVE  <<s, b[x] + v>> \in Good
      <4>1. b[x] + v \in Int
        OBVIOUS
      <4> QED
        BY <4>1
    <3> HIDE DEF Good
    <3> QED
      BY <3>1, <3>2, SumBuilds
  <2> QED
    BY <2>1 DEF t
<1>3. Mean(b) = t \div n
  BY DEF Mean, SumFunction
<1>4. ASSUME NEW v, \A x \in DOMAIN b : b[x] = v PROVE Mean(b) = v
  <2>1. v \in Int /\ \A x \in DOMAIN b : v <= b[x] /\ b[x] <= v
    BY <1>4
  <2> HIDE DEF t
  <2>2. n * v <= t /\ t <= n * v
    BY <2>1, SumBounds DEF t
  <2> HIDE DEF n
  <2>3. t = n * v
    BY <1>1, <1>2, <2>1, <2>2
  <2>4. (n * v) \div n = v
    BY <1>1, <2>1, SMTT(30)
  <2> QED
    BY <1>3, <2>3, <2>4
<1> HIDE DEF t, n
<1>5. t \div n \in Int
  BY <1>1, <1>2
<1> QED
  BY <1>2, <1>3, <1>4, <1>5 DEF SumFunction, t

SumOrMean == metric.type \in {"SUM", "AVG"}

LEMMA AggregateIs ==
  ASSUME NEW b, IsFiniteSet(DOMAIN b), \A x \in DOMAIN b : b[x] \in Int, SumOrMean
  PROVE  /\ DOMAIN b = {} => Aggregate(b) = NULL
         /\ DOMAIN b # {} => Aggregate(b) \in Int
         /\ \A i : DOMAIN b = {i} => Aggregate(b) = b[i]
<1>1. DOMAIN b # {} => Aggregate(b) \in {Mean(b), SumFunction(b)}
  BY DEF Aggregate, SumOrMean
<1>2. ASSUME NEW i, DOMAIN b = {i} PROVE Aggregate(b) = b[i]
  <2>1. Mean(b) = b[i]
    BY <1>2, MeanIs
  <2>2. SumFunction(b) = b[i]
    <3>1. SumFunctionOnSet(b, {i}) = b[i]
      <4>1. b[i] \in Int /\ Cardinality({i}) = 1 /\ IsFiniteSet({i})
        BY <1>2, FS_Singleton
      <4> DEFINE t == SumFunctionOnSet(b, {i})
      <4> HIDE DEF t
      <4>2. t \in Int /\ 1 * b[i] <= t /\ t <= 1 * b[i]
        BY <4>1, SumBounds DEF t
      <4>3. t = b[i]
        BY <4>1, <4>2
      <4> QED
        BY <4>3 DEF t
    <3> QED
      BY <1>2, <3>1 DEF SumFunction
  <2> QED
    BY <1>1, <1>2, <2>1, <2>2
<1> QED
  BY <1>1, <1>2, MeanIs DEF Aggregate

-----------------------------------------------------------------------------
(* What a target is told whatever else is asked for.                       *)

Told(u, y) == IF Numeric(<<u, All, y>>) THEN raw[<<u, All, y>>] ELSE NULL

DeptTold(d, y) ==
  IF HasDeptLevel(d[1], y) THEN IF Numeric(<<d[1], d[2], y>>) THEN raw[<<d[1], d[2], y>>] ELSE NULL
  ELSE Told(d[1], y)

UnivTold(u, y) ==
  IF Numeric(<<u, All, y>>) THEN raw[<<u, All, y>>]
  ELSE Aggregate(Known(LAMBDA d : IF Numeric(<<u, d, y>>) THEN raw[<<u, d, y>>] ELSE NULL, CollegeDepts))

GroupTold(t, y) ==
  IF MembersIn(t, y) # {} THEN Mean(Known(LAMBDA d : DeptTold(d, y), MembersIn(t, y)))
  ELSE IF HasDeptLevel(Ysu, y) THEN NULL
  ELSE Told(Ysu, y)

\* The table is of numbers, and of the organisation as it is listed.
PlainTable ==
  /\ \A c \in DOMAIN raw : raw[c] \in Int \cup {NULL}
  /\ SumOrMean /\ offices = Rosters

\* The rows a query asks for; those of departments are asked for once.
Query(ts) ==
  /\ IsFiniteSet(DOMAIN ts) /\ \A i \in DOMAIN ts : Offered(ts[i])
  /\ \A i, j \in DOMAIN ts : ts[i] = ts[j] /\ ts[i].dept # NULL => i = j

LEMMA Kinds ==
  ASSUME NEW t, Offered(t)
  PROVE  \/ /\ ~IsUnivGroup(t) /\ ~IsDeptGroup(t) /\ IsIndividual(t) /\ t.dept = NULL
            /\ t.univ \in Universities \cup {Ysu} /\ t = Single(t.univ, NULL) /\ t.depts = {}
         \/ /\ ~IsUnivGroup(t) /\ ~IsDeptGroup(t) /\ IsIndividual(t) /\ t.dept # NULL
            /\ t.dept \in CollegeDepts /\ t = Single(Ysu, t.dept) /\ t.key = <<Ysu, t.dept>>
         \/ /\ IsUnivGroup(t) /\ ~IsDeptGroup(t) /\ ~IsIndividual(t) /\ t.dept = NULL
            /\ t.univs \in SUBSET (Universities \cup {Ysu})
         \/ /\ ~IsUnivGroup(t) /\ IsDeptGroup(t) /\ ~IsIndividual(t) /\ t.dept = NULL /\ t.univ = Ysu
            /\ t.depts \in SUBSET ({Ysu} \X CollegeDepts)
            /\ t.key \in {Home} \cup {<<"series", s>> : s \in CollegeSeries}
<1>1. NULL \notin Universities /\ NULL \notin CollegeDepts /\ NULL # Ysu
  BY ViewsAssumption
<1>2. ASSUME NEW u \in Universities \cup {Ysu}, t = Single(u, NULL)
      PROVE  /\ ~IsUnivGroup(t) /\ ~IsDeptGroup(t) /\ IsIndividual(t) /\ t.dept = NULL
             /\ t.univ \in Universities \cup {Ysu} /\ t = Single(t.univ, NULL) /\ t.depts = {}
  BY <1>1, <1>2 DEF Single, Target, IsUnivGroup, IsDeptGroup, IsIndividual
<1>3. ASSUME NEW d \in CollegeDepts, t = Single(Ysu, d)
      PROVE  /\ ~IsUnivGroup(t) /\ ~IsDeptGroup(t) /\ IsIndividual(t) /\ t.dept # NULL
             /\ t.dept \in CollegeDepts /\ t = Single(Ysu, t.dept) /\ t.key = <<Ysu, t.dept>>
  BY <1>1, <1>3 DEF Single, Target, IsUnivGroup, IsDeptGroup, IsIndividual
<1>4. ASSUME t = Target(t.key, "group", NULL, NULL, t.univs, {}), t.univs # {},
             t.univs \subseteq Universities \cup {Ysu}
      PROVE  /\ IsUnivGroup(t) /\ ~IsDeptGroup(t) /\ ~IsIndividual(t) /\ t.dept = NULL
             /\ t.univs \in SUBSET (Universities \cup {Ysu})
  <2>1. t.mode = "group" /\ t.univ = NULL /\ t.dept = NULL /\ t.depts = {}
    BY <1>4 DEF Target
  <2> QED
    BY <1>4, <2>1 DEF IsUnivGroup, IsDeptGroup, IsIndividual
<1>5. ASSUME t = Target(t.key, "group", Ysu, NULL, {}, t.depts), t.depts # {},
             t.depts \subseteq {Ysu} \X CollegeDepts,
             t.key \in {Home} \cup {<<"series", s>> : s \in CollegeSeries}
      PROVE  /\ ~IsUnivGroup(t) /\ IsDeptGroup(t) /\ ~IsIndividual(t) /\ t.dept = NULL /\ t.univ = Ysu
             /\ t.depts \in SUBSET ({Ysu} \X CollegeDepts)
             /\ t.key \in {Home} \cup {<<"series", s>> : s \in CollegeSeries}
  <2>1. t.mode = "group" /\ t.univ = Ysu /\ t.dept = NULL /\ t.univs = {}
    BY <1>5 DEF Target
  <2> QED
    BY <1>1, <1>5, <2>1 DEF IsUnivGroup, IsDeptGroup, IsIndividual
<1> QED
  BY <1>2, <1>3, <1>4, <1>5 DEF Offered

\* Whatever a row needs is fetched.
LEMMA Needed ==
  ASSUME NEW ts, NEW t \in ToSet(ts), Offered(t), NEW years
  PROVE  /\ IsUnivGroup(t) => t.univs \subseteq NeedUnivAll(ts)
         /\ IsDeptGroup(t) => t.univ \in NeedUnivAll(ts) /\ t.depts \subseteq NeedDepts(ts, years)
         /\ IsIndividual(t) /\ t.dept = NULL => t.univ \in NeedUnivAll(ts)
         /\ IsIndividual(t) /\ t.dept # NULL => t.key \in NeedDepts(ts, years)
<1> DEFINE univs(x) == CASE IsUnivGroup(x) -> x.univs
                         [] IsDeptGroup(x) -> {x.univ}
                         [] IsIndividual(x) /\ x.dept = NULL -> {x.univ}
                         [] OTHER -> {}
           depts(x) == CASE IsDeptGroup(x) -> x.depts
                         [] IsIndividual(x) /\ x.dept # NULL -> {x.key}
                         [] OTHER -> {}
<1>1. univs(t) \subseteq NeedUnivAll(ts)
  <2>1. NeedUnivAll(ts) = UNION {univs(x) : x \in ToSet(ts)}
    BY DEF NeedUnivAll
  <2> HIDE DEF univs
  <2> QED
    BY <2>1
<1>2. depts(t) \subseteq NeedDepts(ts, years)
  <2>1. NeedDepts(ts, years) = YearUnion(years) \cup UNION {depts(x) : x \in ToSet(ts)}
    BY DEF NeedDepts
  <2> HIDE DEF depts
  <2> QED
    BY <2>1
<1>3. /\ IsUnivGroup(t) => univs(t) = t.univs
      /\ IsDeptGroup(t) => univs(t) = {t.univ} /\ depts(t) = t.depts
      /\ IsIndividual(t) /\ t.dept = NULL => univs(t) = {t.univ}
      /\ IsIndividual(t) /\ t.dept # NULL => depts(t) = {t.key}
  BY Kinds
<1> HIDE DEF univs, depts
<1> QED
  BY <1>1, <1>2, <1>3

LEMMA AskedOnce ==
  ASSUME NEW ts, Query(ts), NEW d
  PROVE  AskingFor(ts, d) = {} \/ \E i : AskingFor(ts, d) = {i}
<1> SUFFICES ASSUME NEW i \in AskingFor(ts, d), NEW j \in AskingFor(ts, d) PROVE i = j
  OBVIOUS
<1>1. /\ i \in DOMAIN ts /\ IsIndividual(ts[i]) /\ ts[i].dept # NULL /\ ts[i].key = d
      /\ j \in DOMAIN ts /\ IsIndividual(ts[j]) /\ ts[j].dept # NULL /\ ts[j].key = d
  BY DEF AskingFor
<1>2. /\ ts[i] = Single(Ysu, ts[i].dept) /\ ts[i].key = <<Ysu, ts[i].dept>>
      /\ ts[j] = Single(Ysu, ts[j].dept) /\ ts[j].key = <<Ysu, ts[j].dept>>
  BY <1>1, Kinds DEF Query
<1>3. ts[i].dept = ts[j].dept
  BY <1>1, <1>2
<1>4. ts[i] = ts[j]
  BY <1>2, <1>3
<1> QED
  BY <1>1, <1>4 DEF Query

\* A bucket with one number, or with none.
LEMMA OneNumber ==
  ASSUME PlainTable, NEW b, NEW v, v # NULL => v \in Int,
         \/ DOMAIN b = {} /\ v = NULL
         \/ \E i : DOMAIN b = {i} /\ b[i] = v /\ v # NULL
  PROVE  Aggregate(b) = v
<1>1. CASE DOMAIN b = {} /\ v = NULL
  <2>1. IsFiniteSet({})
    BY FS_EmptySet
  <2> QED
    BY <1>1, <2>1, AggregateIs DEF PlainTable
<1>2. ASSUME NEW i, DOMAIN b = {i}, b[i] = v, v # NULL PROVE Aggregate(b) = v
  <2>1. IsFiniteSet({i})
    BY FS_Singleton
  <2> QED
    BY <1>2, <2>1, AggregateIs DEF PlainTable
<1> QED
  BY <1>1, <1>2

LEMMA StoredNumber ==
  ASSUME PlainTable, NEW c
  PROVE  Numeric(c) => raw[c] \in Int /\ raw[c] # NULL
BY DEF PlainTable, Numeric

LEMMA BucketTells ==
  ASSUME PlainTable, NEW ts, Query(ts), NEW years, NEW d, NEW y
  PROVE  /\ DeptTold(d, y) \in Int \cup {NULL}
         /\ HasDeptLevel(d[1], y) /\ d \in NeedDepts(ts, years) => Aggregate(DeptBucket(ts, years, d, y)) = DeptTold(d, y)
         /\ HasDeptLevel(d[1], y) => Aggregate(DeptBucket(ts, years, d, y)) \in {DeptTold(d, y), NULL}
         /\ ~HasDeptLevel(d[1], y) =>
              Aggregate(DeptBucket(ts, years, d, y)) = IF AskingFor(ts, d) = {} THEN NULL ELSE DeptTold(d, y)
<1> DEFINE b == DeptBucket(ts, years, d, y)
           c == <<d[1], d[2], y>>
           w == <<d[1], All, y>>
<1>1. DeptTold(d, y) \in Int \cup {NULL}
  BY StoredNumber DEF DeptTold, Told
<1>2. ASSUME HasDeptLevel(d[1], y)
      PROVE  Aggregate(b) = IF d \in NeedDepts(ts, years) THEN DeptTold(d, y) ELSE NULL
  <2>1. b = IF d \in NeedDepts(ts, years) /\ Numeric(c) THEN <<raw[c]>> ELSE <<>>
    BY <1>2 DEF DeptBucket
  <2>2. DeptTold(d, y) = IF Numeric(c) THEN raw[c] ELSE NULL
    BY <1>2 DEF DeptTold
  <2>3. Numeric(c) => raw[c] \in Int /\ raw[c] # NULL
    BY StoredNumber
  <2> HIDE DEF b, c
  <2>4. CASE d \in NeedDepts(ts, years) /\ Numeric(c)
    <3>1. b = <<raw[c]>> /\ DOMAIN b = {1} /\ b[1] = raw[c]
      BY <2>1, <2>4
    <3> QED
      BY <2>2, <2>3, <2>4, <3>1, OneNumber
  <2>5. CASE ~(d \in NeedDepts(ts, years) /\ Numeric(c))
    <3>1. DOMAIN b = {}
      BY <2>1, <2>5
    <3>2. Aggregate(b) = NULL
      BY <3>1 DEF Aggregate
    <3> QED
      BY <2>2, <2>5, <3>2
  <2> QED
    BY <2>4, <2>5
<1>3. ASSUME ~HasDeptLevel(d[1], y)
      PROVE  Aggregate(b) = IF AskingFor(ts, d) = {} THEN NULL ELSE DeptTold(d, y)
  <2>1. b = IF ~Numeric(w) THEN <<>> ELSE [i \in AskingFor(ts, d) |-> raw[w]]
    BY <1>3 DEF DeptBucket
  <2>2. DeptTold(d, y) = IF Numeric(w) THEN raw[w] ELSE NULL
    BY <1>3 DEF DeptTold, Told
  <2>3. Numeric(w) => raw[w] \in Int /\ raw[w] # NULL
    BY StoredNumber
  <2> HIDE DEF b, w
  <2>4. CASE AskingFor(ts, d) # {} /\ Numeric(w)
    <3>1. PICK i : AskingFor(ts, d) = {i}
      BY <2>4, AskedOnce
    <3>2. DOMAIN b = {i} /\ b[i] = raw[w]
      BY <2>1, <2>4, <3>1
    <3> QED
      BY <2>2, <2>3, <2>4, <3>2, OneNumber
  <2>5. CASE ~(AskingFor(ts, d) # {} /\ Numeric(w))
    <3>1. DOMAIN b = {}
      BY <2>1, <2>5
    <3>2. Aggregate(b) = NULL
      BY <3>1 DEF Aggregate
    <3> QED
      BY <2>2, <2>5, <3>2
  <2> QED
    BY <2>4, <2>5
<1> QED
  BY <1>1, <1>2, <1>3 DEF b

LEMMA UniversityTells ==
  ASSUME PlainTable, NEW ts, NEW u \in NeedUnivAll(ts), NEW y
  PROVE  /\ Told(u, y) \in Int \cup {NULL} /\ UnivTold(u, y) \in Int \cup {NULL}
         /\ Aggregate(UnivBucket(ts, u, y)) = Told(u, y)
         /\ UnivValue(ts, u, y) = UnivTold(u, y)
<1> DEFINE w == <<u, All, y>>
           b == UnivBucket(ts, u, y)
           cell(d) == IF Numeric(<<u, d, y>>) THEN raw[<<u, d, y>>] ELSE NULL
           k == Known(cell, CollegeDepts)
<1>1. b = IF Numeric(w) THEN <<raw[w]>> ELSE <<>>
  BY DEF UnivBucket
<1>2. Told(u, y) = IF Numeric(w) THEN raw[w] ELSE NULL
  BY DEF Told
<1>3. UnivTold(u, y) = IF Numeric(w) THEN raw[w] ELSE Aggregate(k)
  BY DEF UnivTold
<1>4. UnivValue(ts, u, y) = IF DOMAIN b # {} THEN Aggregate(b) ELSE Aggregate(k)
  BY DEF UnivValue
<1>5. Numeric(w) => raw[w] \in Int /\ raw[w] # NULL
  BY StoredNumber
<1>6. Aggregate(k) \in Int \cup {NULL}
  <2>1. k = [x \in {z \in CollegeDepts : cell(z) # NULL} |-> cell(x)]
    BY DEF Known
  <2>2. \A x : cell(x) \in Int \cup {NULL}
    BY StoredNumber
  <2> HIDE DEF cell, k
  <2>3. DOMAIN k \in SUBSET CollegeDepts /\ \A x \in DOMAIN k : k[x] \in Int
    BY <2>1, <2>2
  <2>4. IsFiniteSet(DOMAIN k)
    BY <2>3, ViewsAssumption, FS_Subset
  <2> QED
    BY <2>3, <2>4, AggregateIs DEF PlainTable
<1> HIDE DEF w, b, k
<1>7. CASE Numeric(w)
  <2>1. b = <<raw[w]>> /\ DOMAIN b = {1} /\ b[1] = raw[w]
    BY <1>1, <1>7
  <2>2. Aggregate(b) = raw[w]
    BY <1>5, <1>7, <2>1, OneNumber
  <2> QED
    BY <1>2, <1>3, <1>4, <1>5, <1>7, <2>1, <2>2 DEF b
<1>8. CASE ~Numeric(w)
  <2>1. DOMAIN b = {}
    BY <1>1, <1>8
  <2>2. Aggregate(b) = NULL
    BY <2>1 DEF Aggregate
  <2> QED
    BY <1>2, <1>3, <1>4, <1>6, <1>8, <2>1, <2>2 DEF b
<1> QED
  BY <1>7, <1>8

\* The departments that are read for a group are fetched, unless the union of all of them
\* could not be read.
LEMMA MembersNeeded ==
  ASSUME PlainTable, NEW ts, NEW t \in ToSet(ts), Offered(t), IsDeptGroup(t), NEW y \in SchoolYears
  PROVE  /\ MembersIn(t, y) \in SUBSET ({Ysu} \X CollegeDepts)
         /\ "union" \in found \/ "members" \notin found => MembersIn(t, y) \in SUBSET NeedDepts(ts, SchoolYears)
<1> DEFINE own(S) == {<<Ysu, d>> : d \in UNION {offices[y][s] : s \in S}}
<1>1. /\ t.depts \in SUBSET ({Ysu} \X CollegeDepts) /\ t.univ = Ysu
      /\ t.key \in {Home} \cup {<<"series", s>> : s \in CollegeSeries}
  BY Kinds
<1>2. t.depts \subseteq NeedDepts(ts, SchoolYears)
  BY Needed
<1>3. CASE "members" \notin found
  <2>1. MembersIn(t, y) = t.depts
    BY <1>3 DEF MembersIn
  <2> QED
    BY <1>1, <1>2, <2>1
<1>4. CASE "members" \in found
  <2>2. \/ MembersIn(t, y) = own(CollegeSeries) \/ MembersIn(t, y) = t.depts
        \/ MembersIn(t, y) = own({t.key[2]}) /\ t.key # Home
    BY <1>1, <1>4 DEF MembersIn
  <2>3. \A s \in CollegeSeries : offices[y][s] \in SUBSET CollegeDepts
    BY ViewsAssumption DEF PlainTable
  <2>4. t.key # Home => t.key[2] \in CollegeSeries
    BY <1>1
  <2>5. ASSUME NEW S \in SUBSET CollegeSeries
        PROVE  /\ own(S) \in SUBSET ({Ysu} \X CollegeDepts)
               /\ "union" \in found => own(S) \in SUBSET YearUnion(SchoolYears)
    <3>1. own(S) \in SUBSET ({Ysu} \X CollegeDepts)
      BY <2>3
    <3>2. "union" \in found => YearUnion(SchoolYears) = {<<Ysu, d>> : d \in UNION {UNION {offices[z][s] : s \in CollegeSeries} : z \in SchoolYears}}
      BY DEF YearUnion
    <3>3. UNION {offices[y][s] : s \in S} \subseteq UNION {UNION {offices[z][s] : s \in CollegeSeries} : z \in SchoolYears}
      OBVIOUS
    <3> QED
      BY <3>1, <3>2, <3>3
  <2>6. YearUnion(SchoolYears) \subseteq NeedDepts(ts, SchoolYears)
    BY DEF NeedDepts
  <2> HIDE DEF own
  <2> QED
    BY <1>1, <1>2, <1>4, <2>2, <2>4, <2>5, <2>6
<1> QED
  BY <1>3, <1>4

LEMMA FinitePlaces == IsFiniteSet({Ysu} \X CollegeDepts) /\ IsFiniteSet(Universities \cup {Ysu})
BY ViewsAssumption, FS_Product, FS_Singleton, FS_Union

\* The average of departments, whoever else asks for them.
LEMMA GroupTells ==
  ASSUME PlainTable, "union" \in found \/ "members" \notin found, NEW ts, Query(ts), NEW t \in ToSet(ts), Offered(t), IsDeptGroup(t),
         NEW y \in SchoolYears
  PROVE  GroupValue(ts, SchoolYears, t, y) = GroupTold(t, y) /\ GroupTold(t, y) \in Int \cup {NULL}
<1> DEFINE M == MembersIn(t, y)
           agg(d) == Aggregate(DeptBucket(ts, SchoolYears, d, y))
           told(d) == DeptTold(d, y)
           depts == [x \in {z \in M : agg(z) # NULL} |-> agg(x)]
           all == [x \in {z \in M : told(z) # NULL} |-> told(x)]
           whole == Aggregate(UnivBucket(ts, Ysu, y))
<1>1. /\ M \in SUBSET ({Ysu} \X CollegeDepts) /\ M \in SUBSET NeedDepts(ts, SchoolYears) /\ IsFiniteSet(M)
  BY MembersNeeded, FinitePlaces, FS_Subset
<1>2. t.univ = Ysu /\ Ysu \in NeedUnivAll(ts)
  BY Kinds, Needed
<1>3. whole = Told(Ysu, y) /\ Told(Ysu, y) \in Int \cup {NULL}
  BY <1>2, UniversityTells
<1>4. GroupValue(ts, SchoolYears, t, y) =
        IF DOMAIN depts # {} THEN Mean(depts) ELSE IF HasDeptLevel(Ysu, y) THEN NULL ELSE whole
  BY <1>2 DEF GroupValue, Known
<1>5. GroupTold(t, y) = IF M # {} THEN Mean(all) ELSE IF HasDeptLevel(Ysu, y) THEN NULL ELSE Told(Ysu, y)
  BY DEF GroupTold, Known
<1>6. ASSUME NEW d \in M
      PROVE  /\ told(d) \in Int \cup {NULL}
             /\ HasDeptLevel(Ysu, y) => agg(d) = told(d)
             /\ ~HasDeptLevel(Ysu, y) => agg(d) \in {NULL, told(d)} /\ told(d) = Told(Ysu, y)
  <2>1. d[1] = Ysu /\ d \in NeedDepts(ts, SchoolYears)
    BY <1>1
  <2>2. ~HasDeptLevel(Ysu, y) => told(d) = Told(Ysu, y)
    BY <2>1 DEF DeptTold
  <2> QED
    BY <2>1, <2>2, BucketTells
<1> HIDE DEF M, agg, told, whole
<1>7. /\ IsFiniteSet(DOMAIN depts) /\ IsFiniteSet(DOMAIN all)
      /\ \A x \in DOMAIN depts : depts[x] \in Int /\ x \in M /\ depts[x] = agg(x)
      /\ \A x \in DOMAIN all : all[x] \in Int /\ x \in M /\ all[x] = told(x)
  <2>1. DOMAIN depts \in SUBSET M /\ DOMAIN all \in SUBSET M
    OBVIOUS
  <2>2. \A x \in M : agg(x) \in Int \cup {NULL} /\ told(x) \in Int \cup {NULL}
    BY <1>6
  <2>3. IsFiniteSet(DOMAIN depts) /\ IsFiniteSet(DOMAIN all)
    BY <1>1, <2>1, FS_Subset
  <2> QED
    BY <2>2, <2>3
<1>8. Mean(all) \in Int \cup {NULL}
  <2>1. CASE DOMAIN all = {}
    BY <2>1 DEF Mean
  <2>2. CASE DOMAIN all # {}
    <3> HIDE DEF all
    <3> QED
      BY <1>7, <2>2, MeanIs
  <2> QED
    BY <2>1, <2>2
<1>9. GroupTold(t, y) \in Int \cup {NULL}
  BY <1>3, <1>5, <1>8
<1>10. CASE HasDeptLevel(Ysu, y)
  <2>1. depts = all
    <3>1. \A x \in M : agg(x) = told(x)
      BY <1>6, <1>10
    <3> QED
      BY <3>1
  <2>2. DOMAIN all = {} => Mean(all) = NULL
    BY DEF Mean
  <2>3. M = {} => DOMAIN all = {}
    OBVIOUS
  <2> HIDE DEF all, depts
  <2> QED
    BY <1>4, <1>5, <1>9, <1>10, <2>1, <2>2, <2>3
<1>11. CASE ~HasDeptLevel(Ysu, y) /\ M = {}
  <2>1. DOMAIN depts = {}
    BY <1>11
  <2> QED
    BY <1>3, <1>4, <1>5, <1>9, <1>11, <2>1
<1>12. CASE ~HasDeptLevel(Ysu, y) /\ M # {}
  <2> DEFINE v == Told(Ysu, y)
  <2>1. \A x \in M : told(x) = v /\ agg(x) \in {NULL, v}
    BY <1>6, <1>12
  <2> HIDE DEF v
  <2>2. CASE v = NULL
    <3>1. DOMAIN depts = {} /\ DOMAIN all = {}
      BY <2>1, <2>2
    <3>2. Mean(all) = NULL
      BY <3>1 DEF Mean
    <3> QED
      BY <1>3, <1>4, <1>5, <1>9, <1>12, <2>2, <3>1, <3>2 DEF v
  <2>3. CASE v # NULL
    <3>1. DOMAIN all = M /\ \A x \in DOMAIN all : all[x] = v
      BY <2>1, <2>3
    <3>2. \A x \in DOMAIN depts : depts[x] = v
      BY <2>1
    <3> HIDE DEF all, depts
    <3>3. Mean(all) = v
      BY <1>7, <1>12, <3>1, MeanIs
    <3>4. DOMAIN depts # {} => Mean(depts) = v
      BY <1>7, <3>2, MeanIs
    <3> QED
      BY <1>3, <1>4, <1>5, <1>9, <1>12, <3>3, <3>4 DEF v
  <2> QED
    BY <2>2, <2>3
<1> QED
  BY <1>9, <1>10, <1>11, <1>12

ToldOf(t, y) ==
  CASE IsUnivGroup(t) -> Mean(Known(LAMBDA u : UnivTold(u, y), t.univs))
    [] IsDeptGroup(t) -> GroupTold(t, y)
    [] IsIndividual(t) /\ t.dept = NULL -> UnivTold(t.univ, y)
    [] IsIndividual(t) /\ t.dept # NULL -> DeptTold(t.key, y)

\* The value of a row depends on what is stored and on nothing else that is asked for.
LEMMA ValueTells ==
  ASSUME PlainTable, "union" \in found \/ "members" \notin found, NEW ts, Query(ts), NEW i \in DOMAIN ts,
         NEW y \in SchoolYears
  PROVE  ValueOf(ts, SchoolYears, ts[i], y) = ToldOf(ts[i], y) /\ ToldOf(ts[i], y) \in Int \cup {NULL}
<1> DEFINE t == ts[i]
           v == ValueOf(ts, SchoolYears, t, y)
<1>1. t \in ToSet(ts) /\ Offered(t)
  BY DEF ToSet, Query
<1> HIDE DEF t
<1>2. CASE IsUnivGroup(t)
  <2> DEFINE f == [x \in {u \in t.univs : UnivValue(ts, u, y) # NULL} |-> UnivValue(ts, x, y)]
             g == [x \in {u \in t.univs : UnivTold(u, y) # NULL} |-> UnivTold(x, y)]
  <2>1. t.univs \subseteq NeedUnivAll(ts) /\ t.univs \in SUBSET (Universities \cup {Ysu})
    BY <1>1, <1>2, Kinds, Needed
  <2>2. \A u \in t.univs : UnivValue(ts, u, y) = UnivTold(u, y) /\ UnivTold(u, y) \in Int \cup {NULL}
    BY <2>1, UniversityTells
  <2>3. v = Mean(f) /\ ToldOf(t, y) = Mean(g)
    <3>1. ~IsDeptGroup(t) /\ ~IsIndividual(t)
      BY <1>1, <1>2, Kinds
    <3>2. v = Mean(Known(LAMBDA u : UnivValue(ts, u, y), t.univs))
      BY <1>2, <3>1 DEF ValueOf
    <3>3. ToldOf(t, y) = Mean(Known(LAMBDA u : UnivTold(u, y), t.univs))
      BY <1>2, <3>1 DEF ToldOf
    <3> QED
      BY <3>2, <3>3 DEF Known
  <2>4. f = g
    BY <2>2
  <2>5. DOMAIN g \in SUBSET (Universities \cup {Ysu}) /\ \A x \in DOMAIN g : g[x] \in Int
    BY <2>1, <2>2
  <2> HIDE DEF f, g
  <2>6. IsFiniteSet(DOMAIN g)
    BY <2>5, FinitePlaces, FS_Subset
  <2>7. Mean(g) \in Int \cup {NULL}
    <3>1. CASE DOMAIN g = {}
      BY <3>1 DEF Mean
    <3>2. CASE DOMAIN g # {}
      BY <2>5, <2>6, <3>2, MeanIs
    <3> QED
      BY <3>1, <3>2
  <2> QED
    BY <2>3, <2>4, <2>7 DEF t
<1>3. CASE IsDeptGroup(t)
  <2>1. ~IsUnivGroup(t) /\ ~IsIndividual(t)
    BY <1>1, <1>3, Kinds
  <2>2. v = GroupValue(ts, SchoolYears, t, y) /\ ToldOf(t, y) = GroupTold(t, y)
    BY <1>3, <2>1 DEF ValueOf, ToldOf
  <2> QED
    BY <1>1, <1>3, <2>2, GroupTells DEF t
<1>4. CASE IsIndividual(t) /\ t.dept = NULL
  <2>1. ~IsUnivGroup(t) /\ ~IsDeptGroup(t) /\ t.univ \in NeedUnivAll(ts)
    BY <1>1, <1>4, Kinds, Needed
  <2>2. v = UnivValue(ts, t.univ, y) /\ ToldOf(t, y) = UnivTold(t.univ, y)
    BY <1>4, <2>1 DEF ValueOf, ToldOf
  <2> QED
    BY <2>1, <2>2, UniversityTells DEF t
<1>5. CASE IsIndividual(t) /\ t.dept # NULL
  <2>1. ~IsUnivGroup(t) /\ ~IsDeptGroup(t) /\ t.key \in NeedDepts(ts, SchoolYears)
    BY <1>1, <1>5, Kinds, Needed
  <2>2. v = Aggregate(DeptBucket(ts, SchoolYears, t.key, y)) /\ ToldOf(t, y) = DeptTold(t.key, y)
    BY <1>5, <2>1 DEF ValueOf, ToldOf
  <2>3. i \in AskingFor(ts, t.key)
    BY <1>5 DEF AskingFor, t
  <2> QED
    BY <2>1, <2>2, <2>3, BucketTells DEF t
<1> QED
  BY <1>1, <1>2, <1>3, <1>4, <1>5, Kinds DEF t

LEMMA AloneTells ==
  ASSUME PlainTable, "union" \in found \/ "members" \notin found, NEW t, Offered(t), NEW y \in SchoolYears
  PROVE  Alone(t, y) = ToldOf(t, y)
<1> DEFINE ts == <<t>>
<1>1. DOMAIN ts = {1} /\ ts[1] = t /\ IsFiniteSet({1})
  <2>1. IsFiniteSet({1})
    BY FS_Singleton
  <2> QED
    BY <2>1
<1> HIDE DEF ts
<1>2. Query(ts)
  BY <1>1 DEF Query
<1>3. ValueOf(ts, SchoolYears, ts[1], y) = ToldOf(ts[1], y)
  BY <1>1, <1>2, ValueTells
<1> QED
  BY <1>1, <1>3 DEF Alone, ts

LEMMA RowsTellAlone ==
  ASSUME PlainTable, "union" \in found \/ "members" \notin found, NEW ts, Query(ts), NEW t \in ToSet(ts),
         NEW y \in SchoolYears
  PROVE  /\ ValueOf(ts, SchoolYears, t, y) = Alone(t, y)
         /\ IsUnivGroup(t) =>
              ValueOf(ts, SchoolYears, t, y) = Mean(Known(LAMBDA u : Alone(Single(u, NULL), y), t.univs))
         /\ IsDeptGroup(t) /\ MembersIn(t, y) # {} =>
              ValueOf(ts, SchoolYears, t, y) = Mean(Known(LAMBDA d : Alone(Single(d[1], d[2]), y), MembersIn(t, y)))
<1>1. PICK i \in DOMAIN ts : t = ts[i]
  BY DEF ToSet
<1>2. Offered(t)
  BY <1>1 DEF Query
<1>3. ValueOf(ts, SchoolYears, t, y) = ToldOf(t, y) /\ Alone(t, y) = ToldOf(t, y)
  BY <1>1, <1>2, ValueTells, AloneTells
<1>4. ASSUME IsUnivGroup(t) PROVE ToldOf(t, y) = Mean(Known(LAMBDA u : Alone(Single(u, NULL), y), t.univs))
  <2> DEFINE f == [x \in {u \in t.univs : Alone(Single(u, NULL), y) # NULL} |-> Alone(Single(x, NULL), y)]
             g == [x \in {u \in t.univs : UnivTold(u, y) # NULL} |-> UnivTold(x, y)]
  <2>1. ToldOf(t, y) = Mean(g) /\ Mean(Known(LAMBDA u : Alone(Single(u, NULL), y), t.univs)) = Mean(f)
    <3>1. ~IsDeptGroup(t) /\ ~IsIndividual(t)
      BY <1>2, <1>4, Kinds
    <3>2. ToldOf(t, y) = Mean(Known(LAMBDA u : UnivTold(u, y), t.univs))
      BY <1>4, <3>1 DEF ToldOf
    <3> QED
      BY <3>2 DEF Known
  <2>2. ASSUME NEW u \in t.univs PROVE Alone(Single(u, NULL), y) = UnivTold(u, y)
    <3>1. u \in Universities \cup {Ysu}
      BY <1>2, <1>4, Kinds
    <3> DEFINE x == Single(u, NULL)
    <3>2. Offered(x)
      BY <3>1 DEF Offered
    <3>3. x.univ = u /\ x.dept = NULL
      BY DEF Single, Target
    <3> HIDE DEF x
    <3>4. ~IsUnivGroup(x) /\ ~IsDeptGroup(x) /\ IsIndividual(x)
      BY <3>2, <3>3, Kinds, ViewsAssumption DEF x, Single, Target, IsUnivGroup, IsDeptGroup, IsIndividual
    <3>5. ToldOf(x, y) = UnivTold(u, y)
      BY <3>3, <3>4 DEF ToldOf
    <3> QED
      BY <3>2, <3>5, AloneTells DEF x
  <2>3. f = g
    BY <2>2
  <2> QED
    BY <2>1, <2>3
<1>5. ASSUME IsDeptGroup(t), MembersIn(t, y) # {}
      PROVE  ToldOf(t, y) = Mean(Known(LAMBDA d : Alone(Single(d[1], d[2]), y), MembersIn(t, y)))
  <2> DEFINE M == MembersIn(t, y)
             f == [x \in {d \in M : Alone(Single(d[1], d[2]), y) # NULL} |-> Alone(Single(x[1], x[2]), y)]
             g == [x \in {d \in M : DeptTold(d, y) # NULL} |-> DeptTold(x, y)]
  <2>1. ~IsUnivGroup(t) /\ ~IsIndividual(t)
    BY <1>2, <1>5, Kinds
  <2>2. ToldOf(t, y) = Mean(g)
    BY <1>5, <2>1 DEF ToldOf, GroupTold, Known
  <2>3. Mean(Known(LAMBDA d : Alone(Single(d[1], d[2]), y), M)) = Mean(f)
    BY DEF Known
  <2>4. M \in SUBSET ({Ysu} \X CollegeDepts)
    BY <1>2, <1>5, MembersNeeded
  <2> HIDE DEF M
  <2>5. ASSUME NEW d \in M PROVE Alone(Single(d[1], d[2]), y) = DeptTold(d, y)
    <3>1. d = <<d[1], d[2]>> /\ d[1] = Ysu /\ d[2] \in CollegeDepts /\ d[2] # NULL
      BY <2>4, ViewsAssumption
    <3> DEFINE x == Single(d[1], d[2])
    <3>2. Offered(x)
      BY <3>1 DEF Offered
    <3>3. x.mode = "individual" /\ x.univ # NULL /\ x.dept # NULL /\ x.key = d
      BY <3>1, ViewsAssumption DEF Single, Target
    <3> HIDE DEF x
    <3>4. ~IsUnivGroup(x) /\ ~IsDeptGroup(x) /\ IsIndividual(x)
      BY <3>3 DEF IsUnivGroup, IsDeptGroup, IsIndividual
    <3>5. ToldOf(x, y) = DeptTold(d, y)
      BY <3>3, <3>4 DEF ToldOf
    <3> QED
      BY <3>2, <3>5, AloneTells DEF x
  <2>6. f = g
    BY <2>5
  <2> HIDE DEF f, g
  <2> QED
    BY <2>2, <2>3, <2>6 DEF M
<1> QED
  BY <1>3, <1>4, <1>5

-----------------------------------------------------------------------------
(* The scale of a year.                                                    *)

LEMMA LeastExists ==
  ASSUME NEW S \in SUBSET Int, IsFiniteSet(S), S # {}
  PROVE  \E m \in S : \A x \in S : m <= x
<1> DEFINE Lower(x) == {z \in S : z < x}
           family == {Lower(x) : x \in S}
<1>1. family \in SUBSET FiniteSubsetsOf(S)
  BY FS_Subset DEF FiniteSubsetsOf
<1>2. \A x, z \in S : z < x => <<Lower(z), Lower(x)>> \in StrictSubsetOrdering(S)
  <2> SUFFICES ASSUME NEW x \in S, NEW z \in S, z < x
               PROVE  <<Lower(z), Lower(x)>> \in StrictSubsetOrdering(S)
    OBVIOUS
  <2>1. ASSUME NEW w \in Lower(z) PROVE w \in Lower(x)
    <3>1. w \in S /\ w < z /\ w \in Int /\ z \in Int /\ x \in Int
      OBVIOUS
    <3>2. w < x
      BY <3>1
    <3> QED
      BY <3>1, <3>2
  <2>2. z \in Lower(x) /\ z \notin Lower(z)
    OBVIOUS
  <2>3. Lower(z) \in SUBSET S /\ Lower(x) \in SUBSET S /\ Lower(z) # Lower(x)
    BY <2>2
  <2> HIDE DEF Lower
  <2> QED
    BY <2>1, <2>3 DEF StrictSubsetOrdering
<1>3. \E l \in family : \A k \in family : <<k, l>> \notin StrictSubsetOrdering(S)
  <2>1. family # {}
    OBVIOUS
  <2> HIDE DEF family
  <2> QED
    BY <1>1, <2>1, WFMin, FS_StrictSubsetOrderingWellFounded
<1>4. PICK m \in S : \A x \in S : <<Lower(x), Lower(m)>> \notin StrictSubsetOrdering(S)
  BY <1>3
<1>5. ASSUME NEW x \in S PROVE m <= x
  <2>1. ~(x < m)
    BY <1>2, <1>4
  <2> QED
    BY <2>1
<1> QED
  BY <1>5

LEMMA Extremes ==
  ASSUME NEW S \in SUBSET Int, IsFiniteSet(S), S # {}
  PROVE  Max(S) \in S /\ Min(S) \in S /\ \A x \in S : Min(S) <= x /\ x <= Max(S)
<1>1. Min(S) \in S /\ \A x \in S : Min(S) <= x
  BY LeastExists DEF Min
<1>2. \E m \in S : \A x \in S : x <= m
  <2> DEFINE T == {0 - x : x \in S}
  <2>1. T \in SUBSET Int /\ T # {}
    <3>1. PICK x \in S : TRUE
      OBVIOUS
    <3>2. 0 - x \in T
      BY <3>1
    <3>3. ASSUME NEW z \in T PROVE z \in Int
      <4>1. PICK w \in S : z = 0 - w
        OBVIOUS
      <4> QED
        BY <4>1
    <3> HIDE DEF T
    <3> QED
      BY <3>2, <3>3
  <2>2. IsFiniteSet(T)
    <3> DEFINE f == [x \in S |-> 0 - x]
    <3>1. f \in [S -> T] /\ \A z \in T : \E x \in S : f[x] = z
      OBVIOUS
    <3>2. f \in Surjection(S, T)
      BY <3>1 DEF Surjection
    <3> HIDE DEF f, T
    <3> QED
      BY <3>2, FS_Surjection
  <2>3. PICK k \in T : \A z \in T : k <= z
    <3> HIDE DEF T
    <3> QED
      BY <2>1, <2>2, LeastExists
  <2>4. 0 - k \in S /\ \A x \in S : x <= 0 - k
    BY <2>3
  <2> QED
    BY <2>4
<1>3. Max(S) \in S /\ \A x \in S : Max(S) >= x
  BY <1>2 DEF Max
<1> QED
  BY <1>1, <1>3

\* Where a row stands when a is the reach above the mean and b the one below it.
Stand(a, b, off) == IF off >= 0 THEN 50 * b * (a + off) ELSE 50 * a * (b + off)

LEMMA StandsBetween ==
  ASSUME NEW a \in Int, NEW b \in Int, a > 0, b > 0, NEW p \in Int, -b <= p, p <= a
  PROVE  Stand(a, b, p) \in Int /\ 0 <= Stand(a, b, p) /\ Stand(a, b, p) <= 100 * (a * b)
<1>1. a * b \in Int /\ b * p \in Int /\ a * p \in Int /\ a * b > 0
  OBVIOUS
<1>2. CASE p >= 0
  <2>1. Stand(a, b, p) = 50 * (a * b) + 50 * (b * p)
    BY <1>2 DEF Stand
  <2>2. 0 <= b * p /\ b * p <= a * b
    BY <1>2
  <2> QED
    BY <1>1, <2>1, <2>2
<1>3. CASE ~(p >= 0)
  <2>1. Stand(a, b, p) = 50 * (a * b) + 50 * (a * p)
    BY <1>3 DEF Stand
  <2>2. a * p <= 0 /\ -(a * b) <= a * p
    BY <1>3
  <2> QED
    BY <1>1, <2>1, <2>2
<1> QED
  BY <1>2, <1>3

LEMMA StandsInOrder ==
  ASSUME NEW a \in Int, NEW b \in Int, a > 0, b > 0, NEW p \in Int, NEW q \in Int, p < q
  PROVE  Stand(a, b, p) < Stand(a, b, q)
<1>1. a * b \in Int /\ b * p \in Int /\ a * p \in Int /\ b * q \in Int /\ a * q \in Int
  OBVIOUS
<1>2. b * p < b * q /\ a * p < a * q
  BY SMTT(30)
<1>3. (p >= 0 => b * p >= 0) /\ (p < 0 => a * p < 0) /\ (q >= 0 => b * q >= 0)
  BY SMTT(30)
<1>4. /\ p >= 0 => Stand(a, b, p) = 50 * (a * b) + 50 * (b * p)
      /\ ~(p >= 0) => Stand(a, b, p) = 50 * (a * b) + 50 * (a * p)
      /\ q >= 0 => Stand(a, b, q) = 50 * (a * b) + 50 * (b * q)
      /\ ~(q >= 0) => Stand(a, b, q) = 50 * (a * b) + 50 * (a * q)
  BY DEF Stand
<1> QED
  BY <1>1, <1>2, <1>3, <1>4

\* n rows with the sum t, the greatest and the least value hi and lo.
LEMMA ReachIs ==
  ASSUME NEW R, IsFiniteSet(R), R # {}, NEW f, DOMAIN f = R, \A r \in R : f[r] \in Int,
         NEW n, n = Cardinality(R), NEW t, t = SumFunction(f),
         NEW V, V = {f[r] : r \in R},
         NEW a, a = n * Max(V) - t, NEW b, b = t - n * Min(V)
  PROVE  /\ n \in Nat /\ n > 0 /\ t \in Int /\ a \in Int /\ b \in Int /\ a >= 0 /\ b >= 0
         /\ a = 0 => \A r, q \in R : f[r] = f[q]
         /\ a # 0 => b # 0
         /\ \A r \in R : n * f[r] - t \in Int /\ -b <= n * f[r] - t /\ n * f[r] - t <= a
<1> DEFINE hi == Max(V)
           lo == Min(V)
<1>0. t = SumFunctionOnSet(f, R)
  BY DEF SumFunction
<1>1. hi \in Int /\ lo \in Int /\ hi \in V /\ lo \in V /\ \A r \in R : lo <= f[r] /\ f[r] <= hi
  <2>1. V \in SUBSET Int /\ V # {} /\ \A r \in R : f[r] \in V
    OBVIOUS
  <2>2. IsFiniteSet(V)
    <3> DEFINE g == [r \in R |-> f[r]]
    <3>1. g \in [R -> V] /\ \A v \in V : \E r \in R : g[r] = v
      OBVIOUS
    <3>2. g \in Surjection(R, V)
      BY <3>1 DEF Surjection
    <3> HIDE DEF g
    <3> QED
      BY <3>2, FS_Surjection
  <2> QED
    BY <2>1, <2>2, Extremes
<1>2. n \in Nat /\ n > 0
  BY FS_CardinalityType, FS_EmptySet
<1>3. PICK top \in R : f[top] = hi
  BY <1>1
<1>4. PICK bottom \in R : f[bottom] = lo
  BY <1>1
<1> HIDE DEF hi, lo
<1>5. /\ t \in Int /\ n * lo <= t /\ t <= n * hi
      /\ \A r \in R : n * lo + (f[r] - lo) <= t /\ t <= n * hi - (hi - f[r])
  BY <1>0, <1>1, SumBounds
<1>6. n * hi \in Int /\ n * lo \in Int
  BY <1>1, <1>2
<1>7. ASSUME n * hi - t = 0, NEW r \in R PROVE f[r] = hi
  <2> DEFINE h == n * hi
             v == f[r]
  <2>1. h \in Int /\ h - t = 0 /\ t \in Int /\ t <= h - (hi - v) /\ v \in Int /\ v <= hi /\ hi \in Int
    BY <1>1, <1>5, <1>6, <1>7
  <2> HIDE DEF h, v
  <2>2. v = hi
    BY <2>1
  <2> QED
    BY <2>2 DEF v
<1>8. ASSUME t - n * lo = 0 PROVE n * hi - t = 0
  <2>1. hi = lo
    BY <1>1, <1>3, <1>5, <1>6, <1>8
  <2> QED
    BY <1>5, <1>6, <1>8, <2>1
<1>9. ASSUME NEW r \in R PROVE n * f[r] \in Int /\ n * lo <= n * f[r] /\ n * f[r] <= n * hi
  <2>1. f[r] \in Int /\ lo <= f[r] /\ f[r] <= hi
    BY <1>1
  <2> DEFINE v == f[r]
  <2>2. n * v \in Int /\ n * lo <= n * v /\ n * v <= n * hi
    <3> HIDE DEF v
    <3>1. v \in Int /\ lo <= v /\ v <= hi
      BY <2>1 DEF v
    <3> QED
      BY <1>1, <1>2, <3>1, SMTT(30)
  <2> QED
    BY <2>2
<1>10. \A r \in R : -(t - n * lo) <= n * f[r] - t /\ n * f[r] - t <= n * hi - t
  BY <1>5, <1>6, <1>9
<1>11. a = n * hi - t /\ b = t - n * lo
  BY DEF hi, lo
<1>12. a \in Int /\ b \in Int /\ a >= 0 /\ b >= 0
  BY <1>5, <1>6, <1>11
<1>13. \A r \in R : n * f[r] - t \in Int
  BY <1>5, <1>9
<1> QED
  BY <1>2, <1>5, <1>7, <1>8, <1>10, <1>11, <1>12, <1>13

\* A value is a number or missing, whatever can be read of the organisation.
LEMMA ValueIsNumber ==
  ASSUME PlainTable, NEW ts, Query(ts), NEW i \in DOMAIN ts, NEW y \in SchoolYears
  PROVE  ValueOf(ts, SchoolYears, ts[i], y) \in Int \cup {NULL}
<1> DEFINE t == ts[i]
           v == ValueOf(ts, SchoolYears, t, y)
<1>1. t \in ToSet(ts) /\ Offered(t)
  BY DEF ToSet, Query
<1> HIDE DEF t
<1>2. CASE IsUnivGroup(t)
  <2> DEFINE f == [x \in {u \in t.univs : UnivValue(ts, u, y) # NULL} |-> UnivValue(ts, x, y)]
  <2>1. ~IsDeptGroup(t) /\ ~IsIndividual(t)
    BY <1>1, <1>2, Kinds
  <2>2. v = Mean(Known(LAMBDA u : UnivValue(ts, u, y), t.univs))
    BY <1>2, <2>1 DEF ValueOf
  <2>3. v = Mean(f)
    BY <2>2 DEF Known
  <2>4. t.univs \subseteq NeedUnivAll(ts) /\ t.univs \in SUBSET (Universities \cup {Ysu})
    BY <1>1, <1>2, Kinds, Needed
  <2>5. \A u \in t.univs : UnivValue(ts, u, y) \in Int \cup {NULL}
    BY <2>4, UniversityTells
  <2>6. DOMAIN f \in SUBSET (Universities \cup {Ysu}) /\ \A x \in DOMAIN f : f[x] \in Int
    BY <2>4, <2>5
  <2> HIDE DEF f
  <2>7. IsFiniteSet(DOMAIN f)
    BY <2>6, FinitePlaces, FS_Subset
  <2>8. DOMAIN f = {} => Mean(f) = NULL
    BY DEF Mean
  <2> QED
    BY <2>3, <2>6, <2>7, <2>8, MeanIs DEF t
<1>3. CASE IsDeptGroup(t)
  <2> DEFINE M == MembersIn(t, y)
             agg(d) == Aggregate(DeptBucket(ts, SchoolYears, d, y))
             f == [x \in {d \in M : agg(d) # NULL} |-> agg(x)]
             whole == Aggregate(UnivBucket(ts, Ysu, y))
  <2>1. ~IsUnivGroup(t) /\ ~IsIndividual(t) /\ t.univ = Ysu /\ Ysu \in NeedUnivAll(ts)
    BY <1>1, <1>3, Kinds, Needed
  <2>2. v = GroupValue(ts, SchoolYears, t, y)
    BY <1>3, <2>1 DEF ValueOf
  <2>3. v = IF DOMAIN f # {} THEN Mean(f) ELSE IF HasDeptLevel(Ysu, y) THEN NULL ELSE whole
    BY <2>1, <2>2 DEF GroupValue, Known
  <2>4. whole \in Int \cup {NULL}
    BY <2>1, UniversityTells
  <2>5. \A d : agg(d) \in Int \cup {NULL}
    BY BucketTells
  <2>6. M \in SUBSET ({Ysu} \X CollegeDepts)
    BY <1>1, <1>3, MembersNeeded
  <2> HIDE DEF M, agg, whole
  <2>7. DOMAIN f \in SUBSET ({Ysu} \X CollegeDepts) /\ \A x \in DOMAIN f : f[x] \in Int
    BY <2>5, <2>6
  <2> HIDE DEF f
  <2>8. IsFiniteSet(DOMAIN f)
    BY <2>7, FinitePlaces, FS_Subset
  <2> QED
    BY <2>3, <2>4, <2>7, <2>8, MeanIs DEF t
<1>4. CASE IsIndividual(t) /\ t.dept = NULL
  <2>1. ~IsUnivGroup(t) /\ ~IsDeptGroup(t) /\ t.univ \in NeedUnivAll(ts)
    BY <1>1, <1>4, Kinds, Needed
  <2>2. v = UnivValue(ts, t.univ, y)
    BY <1>4, <2>1 DEF ValueOf
  <2> QED
    BY <2>1, <2>2, UniversityTells DEF t
<1>5. CASE IsIndividual(t) /\ t.dept # NULL
  <2>1. ~IsUnivGroup(t) /\ ~IsDeptGroup(t) /\ t.key \in NeedDepts(ts, SchoolYears)
    BY <1>1, <1>5, Kinds, Needed
  <2>2. v = Aggregate(DeptBucket(ts, SchoolYears, t.key, y))
    BY <1>5, <2>1 DEF ValueOf
  <2> QED
    BY <2>2, BucketTells DEF t
<1> QED
  BY <1>1, <1>2, <1>3, <1>4, <1>5, Kinds DEF t

LEMMA ScaleOrdered ==
  ASSUME NULL \notin Int, NEW rows, IsFiniteSet(rows), NEW y \in SchoolYears,
         \A r \in rows : r.values[y] \in Int \cup {NULL},
         \A r, q \in rows : r.key = q.key => r = q,
         Cardinality(Scored(rows, y)) >= 2,
         NEW r \in Scored(rows, y), NEW q \in Scored(rows, y)
  PROVE  LET scale == BuildRelativeScales(rows, SchoolYears)[y]
         IN /\ scale.at[r.key] \in 0..100 * scale.unit
            /\ r.values[y] <= q.values[y] <=> scale.at[r.key] <= scale.at[q.key]
<1> DEFINE S == Scored(rows, y)
           f == [x \in S |-> x.values[y]]
           n == Cardinality(S)
           t == SumFunction(f)
           V == {f[x] : x \in S}
           a == n * Max(V) - t
           b == t - n * Min(V)
           pos(x) == IF a = 0 THEN 50 ELSE Stand(a, b, n * f[x] - t)
           scale == BuildRelativeScales(rows, SchoolYears)[y]
<1>1. IsFiniteSet(S) /\ S # {} /\ S \in SUBSET rows /\ \A x \in S : f[x] \in Int /\ f[x] = x.values[y]
  <2>1. S \in SUBSET rows /\ \A x \in S : x.values[y] \in Int
    BY DEF Scored
  <2> HIDE DEF S
  <2>2. IsFiniteSet(S)
    BY <2>1, FS_Subset
  <2> QED
    BY <2>1, <2>2 DEF S
<1>2. DOMAIN f = S
  OBVIOUS
<1> HIDE DEF S
<1>3. Above(S, y) = a /\ Below(S, y) = b /\ Total(S, y) = t
  <2>1. {x.values[y] : x \in S} = {f[x] : x \in S}
    OBVIOUS
  <2>2. Total(S, y) = t
    BY DEF Total
  <2> QED
    BY <2>1, <2>2 DEF Above, Below
<1>4. ASSUME NEW x \in S PROVE scale.at[x.key] = pos(x)
  <2>1. scale.at = [k \in {z.key : z \in S} |->
                      IF a = 0 THEN 50 ELSE Position(S, y, (CHOOSE z \in S : z.key = k).values[y])]
    BY <1>3 DEF BuildRelativeScales, S
  <2>2. (CHOOSE z \in S : z.key = x.key) = x
    BY <1>1
  <2>3. Position(S, y, x.values[y]) = Stand(a, b, n * f[x] - t)
    BY <1>1, <1>3 DEF Position, Stand
  <2>4. x.key \in {z.key : z \in S}
    OBVIOUS
  <2> HIDE DEF a, b, f, n, t, scale
  <2> QED
    BY <2>1, <2>2, <2>3, <2>4
<1>5. scale.unit = IF a = 0 THEN 1 ELSE a * b
  BY <1>3 DEF BuildRelativeScales, S
<1> HIDE DEF f
<1>10. n = Cardinality(S) /\ t = SumFunction(f)
  OBVIOUS
<1>12. V = {f[x] : x \in S}
  OBVIOUS
<1> HIDE DEF V
<1>11. a = n * Max(V) - t /\ b = t - n * Min(V)
  OBVIOUS
<1> HIDE DEF n, t, scale, a, b
<1>6. /\ n \in Nat /\ n > 0 /\ t \in Int /\ a \in Int /\ b \in Int /\ a >= 0 /\ b >= 0
      /\ a = 0 => \A x, z \in S : f[x] = f[z]
      /\ a # 0 => b # 0
      /\ \A x \in S : n * f[x] - t \in Int /\ -b <= n * f[x] - t /\ n * f[x] - t <= a
  <2>1. IsFiniteSet(S) /\ S # {} /\ \A x \in S : f[x] \in Int
    BY <1>1
  <2> QED
    BY <1>2, <1>10, <1>11, <1>12, <2>1, ReachIs
<1>7. r \in S /\ q \in S
  BY DEF S
<1>8. CASE a = 0
  <2>1. pos(r) = 50 /\ pos(q) = 50 /\ f[r] = f[q] /\ scale.unit = 1
    BY <1>5, <1>6, <1>7, <1>8
  <2>2. f[r] <= f[q] /\ f[r] \in Int
    BY <1>1, <1>7, <2>1
  <2> QED
    BY <1>1, <1>4, <1>7, <2>1, <2>2 DEF scale
<1>9. CASE a # 0
  <2>0. a > 0 /\ b > 0
    BY <1>6, <1>9
  <2> DEFINE off(x) == n * f[x] - t
  <2>1. \A x \in S : off(x) \in Int /\ -b <= off(x) /\ off(x) <= a /\ pos(x) = Stand(a, b, off(x))
    BY <1>1, <1>6, <1>9
  <2>2. ASSUME NEW x \in S, NEW z \in S, f[x] < f[z] PROVE pos(x) < pos(z)
    <3>1. off(x) < off(z)
      <4> DEFINE v == f[x]
                 w == f[z]
      <4>1. v \in Int /\ w \in Int /\ v < w
        BY <1>1, <2>2
      <4> HIDE DEF v, w
      <4>2. n * v < n * w
        BY <1>6, <4>1
      <4>3. n * v \in Int /\ n * w \in Int
        BY <1>6, <4>1
      <4> QED
        BY <1>6, <4>2, <4>3 DEF v, w
    <3> HIDE DEF off, pos
    <3>2. off(x) \in Int /\ off(z) \in Int /\ pos(x) = Stand(a, b, off(x)) /\ pos(z) = Stand(a, b, off(z))
      BY <2>1
    <3>3. a \in Int /\ b \in Int
      BY <1>6
    <3> QED
      BY <2>0, <3>1, <3>2, <3>3, StandsInOrder
  <2>3. \A x \in S : pos(x) \in Int /\ 0 <= pos(x) /\ pos(x) <= 100 * (a * b)
    <3> HIDE DEF off, pos
    <3> QED
      BY <1>6, <2>0, <2>1, StandsBetween
  <2>4. f[r] = f[q] => pos(r) = pos(q)
    OBVIOUS
  <2> HIDE DEF pos
  <2>5. f[r] <= f[q] <=> pos(r) <= pos(q)
    BY <1>1, <1>7, <2>2, <2>3, <2>4
  <2>6. pos(r) \in 0..100 * (a * b)
    BY <1>6, <1>7, <2>3
  <2> QED
    BY <1>1, <1>4, <1>5, <1>7, <1>9, <2>5, <2>6 DEF scale
<1> QED
  BY <1>8, <1>9

-----------------------------------------------------------------------------
(* The tables of a behaviour.                                              *)

\* What a table is made of, and that no target is asked for twice.
TableInv ==
  scene = "table" =>
    /\ raw \in Tabled /\ metric.type \in {"SUM", "AVG"} /\ offices = Rosters
    /\ asked \in Seq(Askable) /\ \A i, j \in 1..Len(asked) : asked[i] = asked[j] => i = j

LEMMA TableIsSound ==
  ASSUME TableInv, scene = "table"
  PROVE  PlainTable /\ Query(asked) /\ Query(Append(asked, Single(u2, NULL)))
<1>1. PlainTable
  BY ViewsAssumption DEF TableInv, PlainTable, SumOrMean
<1> DEFINE n == Len(asked)
           c == Single(u2, NULL)
           more == Append(asked, c)
<1>2. n \in Nat /\ DOMAIN asked = 1..n /\ \A i \in 1..n : asked[i] \in Askable
  BY DEF TableInv
<1>3. Offered(c) /\ c.dept = NULL
  BY ViewsAssumption DEF Offered, Single, Target
<1>4. \A i \in 1..n : Offered(asked[i])
  BY <1>2, ViewsAssumption
<1>5. Query(asked)
  BY <1>2, <1>4, FS_Interval DEF Query, TableInv
<1>6. DOMAIN more = 1..(n + 1) /\ more[n + 1] = c /\ \A i \in 1..n : more[i] = asked[i]
  BY DEF TableInv
<1>7. \A i \in 1..(n + 1) : i \in 1..n \/ i = n + 1
  BY <1>2
<1>8. IsFiniteSet(1..(n + 1))
  BY <1>2, FS_Interval
<1>9. \A i, j \in 1..n : asked[i] = asked[j] => i = j
  BY DEF TableInv
<1> HIDE DEF c, more, n
<1>10. \A i \in DOMAIN more : Offered(more[i])
  BY <1>3, <1>4, <1>6, <1>7
<1>11. ASSUME NEW i \in DOMAIN more, NEW j \in DOMAIN more, more[i] = more[j], more[i].dept # NULL PROVE i = j
  <2>1. i \in 1..n /\ j \in 1..n
    BY <1>3, <1>6, <1>7, <1>11
  <2> QED
    BY <1>6, <1>9, <1>11, <2>1
<1>12. Query(more)
  BY <1>6, <1>8, <1>10, <1>11 DEF Query
<1> QED
  BY <1>1, <1>5, <1>12 DEF c, more

LEMMA TablesTell ==
  ASSUME TableInv
  PROVE  TablesTellUnits
<1> SUFFICES ASSUME scene = "table" PROVE RowsTellUnits /\ ScaleKeepsOrder
  BY DEF TablesTellUnits, RowsTellUnits, ScaleKeepsOrder
<1>1. RowsTellUnits
  BY TableIsSound, RowsTellAlone DEF RowsTellUnits
<1>2. ScaleKeepsOrder
  <2> DEFINE ts == Append(asked, Single(u2, NULL))
             row(t) == [key |-> t.key, values |-> [y \in SchoolYears |-> ValueOf(ts, SchoolYears, t, y)]]
             rows == Pivot(ts, SchoolYears)
  <2>1. Query(ts) /\ PlainTable
    BY TableIsSound
  <2>2. \A i \in DOMAIN ts : ts[i] \in Askable \cup {Single(u2, NULL)}
    BY DEF TableInv
  <2> HIDE DEF ts
  <2>3. \A r \in rows : \E i \in DOMAIN ts : r = row(ts[i])
    BY DEF Pivot, ToSet
  <2>4. IsFiniteSet(rows)
    <3> DEFINE all == {row(ts[i]) : i \in DOMAIN ts}
               f == [i \in DOMAIN ts |-> row(ts[i])]
    <3>1. rows \in SUBSET all
      BY <2>3
    <3>2. f \in [DOMAIN ts -> all] /\ \A x \in all : \E i \in DOMAIN ts : f[i] = x
      OBVIOUS
    <3>3. f \in Surjection(DOMAIN ts, all)
      BY <3>2 DEF Surjection
    <3> HIDE DEF f, all
    <3>4. IsFiniteSet(all)
      BY <2>1, <3>3, FS_Surjection DEF Query
    <3> QED
      BY <3>1, <3>4, FS_Subset
  <2>5. ASSUME NEW r \in rows, NEW q \in rows, r.key = q.key PROVE r = q
    <3>1. PICK i \in DOMAIN ts : r = row(ts[i])
      BY <2>3
    <3>2. PICK j \in DOMAIN ts : q = row(ts[j])
      BY <2>3
    <3>3. ts[i].key = ts[j].key
      BY <2>5, <3>1, <3>2
    <3>4. ts[i] = ts[j]
      BY <2>2, <3>3, ViewsAssumption
    <3> QED
      BY <3>1, <3>2, <3>4
  <2>6. ASSUME NEW y \in SchoolYears, NEW r \in rows PROVE r.values[y] \in Int \cup {NULL}
    <3>1. PICK i \in DOMAIN ts : r = row(ts[i])
      BY <2>3
    <3>2. r.values[y] = ValueOf(ts, SchoolYears, ts[i], y)
      BY <3>1
    <3> QED
      BY <2>1, <3>2, ValueIsNumber
  <2>7. NULL \notin Int
    BY ViewsAssumption
  <2> HIDE DEF rows
  <2>8. ASSUME NEW y \in DOMAIN BuildRelativeScales(rows, SchoolYears)
        PROVE  y \in SchoolYears /\ Cardinality(Scored(rows, y)) >= 2
    BY <2>8 DEF BuildRelativeScales
  <2> QED
    BY <2>4, <2>5, <2>6, <2>7, <2>8, ScaleOrdered DEF ScaleKeepsOrder, rows, ts
<1> QED
  BY <1>1, <1>2

\* Whatever targets a table is asked for and whatever is stored, its rows do not depend on each
\* other, an average is that of its members, and the scale beside it keeps their order.
THEOREM TablesStayTold == ViewsSpec => []TablesTellUnits
<1>1. ViewsInit => TableInv
  BY DEF ViewsInit, TableInv
<1>2. TableInv /\ [ViewsNext]_mvars => TableInv'
  <2> SUFFICES ASSUME TableInv, [ViewsNext]_mvars PROVE TableInv'
    OBVIOUS
  <2>1. CASE UNCHANGED <<scene, asked, Tables>>
    BY <2>1 DEF TableInv, Tables
  <2>2. ASSUME NEW t \in Askable \ ToSet(asked), asked' = Append(asked, t), UNCHANGED <<scene, Tables>>
        PROVE  TableInv'
    <3> SUFFICES ASSUME scene = "table" PROVE TableInv'
      BY <2>2 DEF TableInv
    <3> DEFINE n == Len(asked)
    <3>1. /\ raw \in Tabled /\ metric.type \in {"SUM", "AVG"} /\ offices = Rosters
          /\ asked \in Seq(Askable) /\ \A i, j \in 1..n : asked[i] = asked[j] => i = j
      BY DEF TableInv
    <3>2. \A i \in 1..n : asked[i] # t
      BY <2>2, <3>1 DEF ToSet
    <3>3. /\ asked' \in Seq(Askable) /\ Len(asked') = n + 1 /\ n \in Nat
          /\ asked'[n + 1] = t /\ \A i \in 1..n : asked'[i] = asked[i]
      BY <2>2, <3>1
    <3> HIDE DEF n
    <3>4. \A i \in 1..(n + 1) : i \in 1..n \/ i = n + 1
      BY <3>3
    <3>5. \A i, j \in 1..(n + 1) : asked'[i] = asked'[j] => i = j
      BY <3>1, <3>2, <3>3, <3>4
    <3> QED
      BY <2>2, <3>1, <3>3, <3>5 DEF TableInv, Tables
  <2> QED
    BY <2>1, <2>2 DEF ViewsNext, mvars
<1>3. TableInv => TablesTellUnits
  BY TablesTell
<1> QED
  BY <1>1, <1>2, <1>3, PTL DEF ViewsSpec

=============================================================================
