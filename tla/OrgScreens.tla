------------------------------ MODULE OrgScreens ------------------------------
(***************************************************************************)
(* The organisation page (OrgManager.tsx): one selected school year and    *)
(* two tabs, series with departments (InternalOrgManager.tsx) and groups   *)
(* with offices (OfficeOrgManager.tsx), of which one is mounted.  A tab    *)
(* loads the tree of the year, lets the administrator drag it about and    *)
(* saves the order for that year; the services write a version for each    *)
(* row whose place differs from its live row.                              *)
(*                                                                         *)
(* Requests are handled one after the other.  Names are left out, and so   *)
(* are the changes log and its rollbacks, which OrgTree has.               *)
(***************************************************************************)
EXTENDS ItemVersions, Arrangement

CONSTANTS
  Series, Departments,  \* ids; the system series is Uncat
  OfficeGroups, Offices,\* ids; an office outside of all groups is under Uncat
  Patient,              \* the year is changed only when nothing is under way
  Errands,              \* bounds: what is tried and how often
  MaxOrgWire            \* bound: requests under way

Tabs == {"academic", "office"}
Heads(t) == IF t = "academic" THEN Series ELSE OfficeGroups
Members(t) == IF t = "academic" THEN Departments ELSE Offices
OrgRows == Series \cup Departments \cup OfficeGroups \cup Offices

\* Those that hold others have tables of their own; there is a series and a group to begin with.
ASSUME OrgScreensAssumption ==
  /\ IsFiniteSet(OrgRows) /\ OrgRows \in SUBSET Nat /\ Uncat \notin Int
  /\ Series # {} /\ OfficeGroups # {}
  /\ (Series \cup OfficeGroups) \cap (Departments \cup Offices) = {}
  /\ Patient \in BOOLEAN /\ MaxOrgWire \in Nat

\* The live row of a node: where it is, and in which years it exists; no row is null.
Place == [up: OrgRows \cup {Uncat, NULL}, order: Int, from: Years, abolished: YearOrNull]
ASSUME PlaceAssumption == NULL \notin Place

VARIABLES
  liveRow,    \* live row [up, order, from, abolished] of each node, or NULL
  orgVersions,\* its version rows
  writes,     \* versioned writes so far
  forward,    \* history: no request was for a year before that of an earlier one
  latest,     \* history: the year of the last request
  tab,        \* the mounted tab
  year,       \* the selected year
  shown,      \* its tree on the screen
  unsaved,    \* dirty
  ticked,     \* selectedIds, in the order they were ticked
  calls,      \* requests under way, oldest first
  steps,      \* operations so far
  errand      \* those that are tried

database == <<liveRow, orgVersions, writes, forward, latest>>
osvars == <<liveRow, orgVersions, writes, forward, latest, tab, year, shown, unsaved, ticked, calls, steps, errand>>

-----------------------------------------------------------------------------
(* The services                                                            *)

Kept == {n \in OrgRows : liveRow[n] # NULL}
Span(n) == {y \in Years : n \in Kept /\ ActiveAt(liveRow[n].from, liveRow[n].abolished, y)}
Exists(n, y) == y \in Span(n)
Resolved(n, y) ==
  LET overlay == OverlayPayload(orgVersions[n], y)
  IN CHOOSE r \in IF overlay = {} THEN {liveRow[n]} ELSE overlay : TRUE

\* getTree of either service.  An office whose group does not exist in the year is
\* shown with those that have none; a department whose series does not is not shown.
TreeAt(t, y) ==
  LET heads == {h \in Heads(t) : Exists(h, y)}
      here == {n \in Members(t) : Exists(n, y)}
      pos == [n \in heads \cup here |-> Resolved(n, y).order]
      HeadOf(n) == IF t = "office" /\ Resolved(n, y).up \notin heads THEN Uncat ELSE Resolved(n, y).up
  IN [order |-> Sorted(heads, pos),
      items |-> [h \in heads \cup {Uncat} |-> Sorted({n \in here : HeadOf(n) = h}, pos)],
      under |-> [n \in {m \in here : HeadOf(m) \in heads \cup {Uncat}} |-> <<>>]]

\* Every write of a node: the live row, and the version from the year on.
Write(new, y, type) ==
  /\ liveRow' = [n \in OrgRows |-> IF n \in DOMAIN new THEN new[n] ELSE liveRow[n]]
  /\ orgVersions' = [n \in OrgRows |->
       IF n \in DOMAIN new
       THEN WriteVersion(orgVersions[n], writes + 1, y, type[n], new[n],
                         IF n \in Kept THEN Resolved(n, y) ELSE new[n])
       ELSE orgVersions[n]]
  /\ writes' = writes + 1
  /\ forward' = (forward /\ y >= latest)
  /\ latest' = y

\* A row of a reorder that is written: its node is alive and elsewhere than in the LIVE row.
Differs(r) == liveRow[r.node].up # r.up \/ liveRow[r.node].order # r.order

Written(r, y) == Exists(r.node, y) /\ Differs(r)

\* A move under a head that does not exist in the year is refused and ends the loop.
RefusedRow(r, y) ==
  Written(r, y) /\ r.up \notin {Uncat, NULL} /\ r.up # liveRow[r.node].up /\ ~Exists(r.up, y)

ReorderRows(rows, y) ==
  LET done == {i \in 1..Len(rows) : \A j \in 1..i : ~RefusedRow(rows[j], y)}
      new == {rows[i] : i \in {j \in done : Written(rows[j], y)}}
      Of(n) == CHOOSE r \in new : r.node = n
  IN Write([n \in {r.node : r \in new} |-> [liveRow[n] EXCEPT !.up = Of(n).up, !.order = Of(n).order]],
           y, [n \in {r.node : r \in new} |-> "update"])

\* The new row is put last.
NextOrder(list, y, least) ==
  IF list = <<>> THEN least
  ELSE 1 + (CHOOSE k \in {Resolved(n, y).order : n \in ToSet(list)} :
              \A n \in ToSet(list) : Resolved(n, y).order <= k)

CreateHead(t, y) ==
  \E n \in Heads(t) \ Kept :
    Write([m \in {n} |-> [up |-> NULL, order |-> NextOrder(TreeAt(t, y).order, y, IF t = "academic" THEN 1 ELSE 0),
                          from |-> y, abolished |-> NULL]], y, [m \in {n} |-> "create"])

CreateMember(t, h, y) ==
  \E n \in Members(t) \ Kept :
    /\ h = Uncat \/ Exists(h, y)
    /\ Write([m \in {n} |-> [up |-> h, order |-> NextOrder(TreeAt(t, y).items[h], y, 0),
                             from |-> y, abolished |-> NULL]], y, [m \in {n} |-> "create"])

\* A new name: the version of the year gets the place of the live row along with it.
RenameRow(n, y) == Exists(n, y) /\ Write([m \in {n} |-> liveRow[n]], y, [m \in {n} |-> "update"])

\* The departments of an abolished series move to the system series; a group must be empty.
AbolishRow(t, n, y) ==
  LET moved == IF n \in Series THEN {d \in Departments : Exists(d, y) /\ Resolved(d, y).up = n} ELSE {}
  IN /\ Exists(n, y)
     /\ n \in OfficeGroups => TreeAt(t, y).items[n] = <<>>
     /\ Write([m \in moved \cup {n} |-> IF m = n THEN [liveRow[n] EXCEPT !.abolished = y]
                                                  ELSE [liveRow[m] EXCEPT !.up = Uncat]],
              y, [m \in moved \cup {n} |-> IF m = n THEN "abolish" ELSE "update"])

-----------------------------------------------------------------------------
(* What the tabs offer                                                     *)

Calling(ops) == \E i \in 1..Len(calls) : calls[i].mounted /\ calls[i].op \in ops

\* busy
Busy == Calling({"createHead", "createMember", "rename", "abolish"})

\* InternalOrgManager: the buttons of a series with its departments
SeriesOffers(s) == Pick(~Busy, {"add"} \cup Pick(s # Uncat, {"rename", "abolish"}))
DepartmentOffers == {"pick", "drag"} \cup Pick(~Busy, {"rename", "abolish"})
\* ... and of its page
SeriesPageOffers ==
  Pick(unsaved /\ ~Calling({"save"}), {"save"}) \cup Pick(~Busy, {"add"}) \cup Pick(ticked # <<>>, {"bulk", "clear"})

\* OfficeOrgManager: of a row, a list of offices, and the page
OfficeOffers == {"pick", "drag"} \cup Pick(~Busy, {"rename", "abolish"})
GroupOffers(g) == Pick(~Busy, {"add"} \cup Pick(g # Uncat, {"rename", "abolish"}))
OfficePageOffers ==
  Pick(unsaved /\ ~Calling({"save"}), {"save"}) \cup Pick(~Busy, {"add"}) \cup Pick(ticked # <<>>, {"bulk", "clear"})

MemberOffers(t) == IF t = "academic" THEN DepartmentOffers ELSE OfficeOffers
HeadOffers(t, h) == IF t = "academic" THEN SeriesOffers(h) ELSE GroupOffers(h)
PageOffers(t) == IF t = "academic" THEN SeriesPageOffers ELSE OfficePageOffers

-----------------------------------------------------------------------------
(* The administrator                                                       *)

Step(op) == op \in errand.may /\ steps < errand.acts /\ steps' = steps + 1 /\ UNCHANGED errand

Call(op, x, rows) ==
  [op |-> op, mounted |-> TRUE, tab |-> tab, year |-> year, x |-> x, rows |-> rows, seen |-> shown]
Load(t, y) == [op |-> "load", mounted |-> TRUE, tab |-> t, year |-> y, x |-> NULL, rows |-> <<>>, seen |-> Empty]

Emit(c) == Len(calls) < MaxOrgWire /\ calls' = Append(calls, c)

\* [year]: the effect loads the tree of the new year; the old one stays until it comes.
ChangeYear(y) ==
  /\ Step("year") /\ y # year /\ (Patient => calls = <<>>)
  /\ year' = y /\ Emit(Load(tab, y))
  /\ UNCHANGED <<database, tab, shown, unsaved, ticked>>

\* The other tab is mounted, and what this one had not saved is gone.
ChangeTab(t) ==
  /\ Step("tab") /\ t # tab
  /\ tab' = t /\ shown' = Empty /\ unsaved' = FALSE /\ ticked' = <<>>
  /\ calls' = Append([i \in 1..Len(calls) |-> [calls[i] EXCEPT !.mounted = FALSE]], Load(t, year))
  /\ UNCHANGED <<database, year>>

Tick(rows) ==
  /\ Step("pick") /\ "pick" \in MemberOffers(tab)
  /\ rows # <<>> /\ ToSet(rows) \subseteq ItemsOf(shown)
  /\ ticked' = Toggled(ticked, rows)
  /\ UNCHANGED <<database, tab, year, shown, unsaved, calls>>

TickDepartment(d) == tab = "academic" /\ Tick(<<d>>)
TickSeries(s) == tab = "academic" /\ Tick(shown.items[s])
TickOffice(o) == tab = "office" /\ Tick(<<o>>)
TickGroup(g) == tab = "office" /\ Tick(shown.items[g])

ClearTicks ==
  /\ Step("pick") /\ "clear" \in PageOffers(tab)
  /\ ticked' = <<>>
  /\ UNCHANGED <<database, tab, year, shown, unsaved, calls>>

MoveDepts(ids, s, at) == MoveItems(shown, ids, s, at)
MoveOffices(ids, g, at) == MoveItems(shown, ids, g, at)

MoveTicked(next) ==
  /\ shown' = next /\ unsaved' = TRUE /\ ticked' = <<>>
  /\ UNCHANGED <<database, tab, year, calls>>

BulkMoveDepts(s) ==
  /\ Step("bulk") /\ tab = "academic" /\ "bulk" \in PageOffers(tab)
  /\ MoveTicked(MoveDepts(ticked, s, Len(shown.items[s])))

BulkMoveOffices(g) ==
  /\ Step("bulk") /\ tab = "office" /\ "bulk" \in PageOffers(tab)
  /\ MoveTicked(MoveOffices(ticked, g, Len(shown.items[g])))

MayDrop(n, from, h, at) ==
  /\ n \in ToSet(shown.items[from]) /\ at \in 0..Len(DropRows(shown, n, h))
  /\ ~(from = h /\ shown.items[h][at + 1] = n)

DragDept(d, from, s, at) ==
  LET ids == Dragged(ticked, d)
  IN /\ Step("drag") /\ tab = "academic" /\ "drag" \in DepartmentOffers /\ MayDrop(d, from, s, at)
     /\ MoveTicked(MoveDepts(ids, s, DropIndex(shown, ids, from, s, at)))

DragOffice(o, from, g, at) ==
  LET ids == Dragged(ticked, o)
  IN /\ Step("drag") /\ tab = "office" /\ "drag" \in OfficeOffers /\ MayDrop(o, from, g, at)
     /\ MoveTicked(MoveOffices(ids, g, DropIndex(shown, ids, from, g, at)))

DragHead(next) ==
  /\ Step("dragHead") /\ next # shown
  /\ shown' = next /\ unsaved' = TRUE
  /\ UNCHANGED <<database, tab, year, ticked, calls>>

ReorderSeries(from, to) == tab = "academic" /\ DragHead(MoveGroup(shown, from, to))
ReorderCategories(from, to) == tab = "office" /\ DragHead(MoveGroup(shown, from, to))

RowsIn(h) ==
  IF h \notin Groups(shown) THEN <<>>
  ELSE [i \in 1..Len(shown.items[h]) |-> [node |-> shown.items[h][i], up |-> h, order |-> i - 1]]
HeadRows(first) == [i \in 1..Len(shown.order) |-> [node |-> shown.order[i], up |-> NULL, order |-> first + i - 1]]

\* The system series comes first on the screen, so the others count from 1.
SaveSeries ==
  /\ Step("save") /\ tab = "academic" /\ "save" \in PageOffers(tab)
  /\ Emit(Call("save", NULL,
               HeadRows(1) \o RowsIn(Uncat) \o FlattenSeq([i \in 1..Len(shown.order) |-> RowsIn(shown.order[i])])))
  /\ UNCHANGED <<database, tab, year, shown, unsaved, ticked>>

Slip_SaveOffices ==
  /\ Step("save") /\ tab = "office" /\ "save" \in PageOffers(tab)
  /\ Emit(Call("save", NULL,
               HeadRows(0) \o FlattenSeq([i \in 1..Len(shown.order) |-> RowsIn(shown.order[i])])))
  /\ UNCHANGED <<database, tab, year, shown, unsaved, ticked>>

SaveOffices ==
  /\ Step("save") /\ tab = "office" /\ "save" \in PageOffers(tab)
  /\ Emit(Call("save", NULL,
               HeadRows(0) \o FlattenSeq([i \in 1..Len(shown.order) |-> RowsIn(shown.order[i])]) \o RowsIn(Uncat)))
  /\ UNCHANGED <<database, tab, year, shown, unsaved, ticked>>

Ask(op, x) ==
  /\ Step(op) /\ Emit(Call(op, x, <<>>))
  /\ UNCHANGED <<database, tab, year, shown, unsaved, ticked>>

AddSeries == tab = "academic" /\ "add" \in PageOffers(tab) /\ Ask("createHead", NULL)
AddDept(s) == tab = "academic" /\ "add" \in HeadOffers(tab, s) /\ Ask("createMember", s)
RenameSeries(s) == tab = "academic" /\ "rename" \in HeadOffers(tab, s) /\ Ask("rename", s)
RenameDept(d) == tab = "academic" /\ "rename" \in MemberOffers(tab) /\ Ask("rename", d)
DeleteSeries(s) == tab = "academic" /\ "abolish" \in HeadOffers(tab, s) /\ Ask("abolish", s)
DeleteDept(d) == tab = "academic" /\ "abolish" \in MemberOffers(tab) /\ Ask("abolish", d)

AddOfficeGroup == tab = "office" /\ "add" \in PageOffers(tab) /\ Ask("createHead", NULL)
AddOffice(g) == tab = "office" /\ "add" \in HeadOffers(tab, g) /\ Ask("createMember", g)
Rename(n) == tab = "office" /\ "rename" \in (IF n \in Offices THEN MemberOffers(tab) ELSE HeadOffers(tab, n))
             /\ Ask("rename", n)
Abolish(n) == tab = "office" /\ "abolish" \in (IF n \in Offices THEN MemberOffers(tab) ELSE HeadOffers(tab, n))
              /\ Ask("abolish", n)

-----------------------------------------------------------------------------
(* Answers.  What a tab that is no longer mounted does with one is nothing. *)

Call1 == calls[1]
Answered(op) == calls # <<>> /\ Call1.op = op
Rest == Tail(calls)

\* The handler's own load(): the year is the one of the click.
Reload == calls' = Append(Rest, [Load(Call1.tab, Call1.year) EXCEPT !.mounted = Call1.mounted])

TreeArrives ==
  /\ Answered("load") /\ calls' = Rest
  /\ IF Call1.mounted
     THEN shown' = TreeAt(Call1.tab, Call1.year) /\ unsaved' = FALSE /\ ticked' = <<>>
     ELSE UNCHANGED <<shown, unsaved, ticked>>
  /\ UNCHANGED <<database, tab, year, steps, errand>>

Slip_SaveAnswered ==
  /\ Answered("save") /\ calls' = Rest
  /\ ReorderRows(Call1.rows, Call1.year)
  /\ unsaved' = (unsaved /\ ~Call1.mounted)
  /\ UNCHANGED <<tab, year, shown, ticked, steps, errand>>

SaveAnswered ==
  /\ Answered("save") /\ Reload
  /\ ReorderRows(Call1.rows, Call1.year)
  /\ unsaved' = (unsaved /\ ~Call1.mounted)
  /\ UNCHANGED <<tab, year, shown, ticked, steps, errand>>

EditAnswered ==
  /\ \/ Answered("createHead") /\ CreateHead(Call1.tab, Call1.year)
     \/ Answered("createMember") /\ CreateMember(Call1.tab, Call1.x, Call1.year)
     \/ Answered("rename") /\ RenameRow(Call1.x, Call1.year)
     \/ Answered("abolish") /\ AbolishRow(Call1.tab, Call1.x, Call1.year)
  /\ Reload
  /\ UNCHANGED <<tab, year, shown, unsaved, ticked, steps, errand>>

\* Refused or unreachable.  A load that fails leaves an empty tree, and what was marked.
CallFails ==
  /\ calls # <<>> /\ calls' = Rest
  /\ shown' = IF Call1.op = "load" /\ Call1.mounted THEN Empty ELSE shown
  /\ UNCHANGED <<database, tab, year, unsaved, ticked, steps, errand>>

-----------------------------------------------------------------------------

SeedRow(up, order) == [up |-> up, order |-> order, from |-> MinYear, abolished |-> NULL]
FirstOf(S) == CHOOSE x \in S : \A y \in S : x <= y

\* One series and one group with all but one of their members.
OrgScreensInit ==
  /\ liveRow = [n \in OrgRows |->
       IF n \in {FirstOf(Series), FirstOf(OfficeGroups)} THEN SeedRow(NULL, 1)
       ELSE IF n \in Departments /\ \E d \in Departments : n < d THEN SeedRow(FirstOf(Series), 0)
       ELSE IF n \in Offices /\ \E o \in Offices : n < o THEN SeedRow(FirstOf(OfficeGroups), 0)
       ELSE NULL]
  /\ orgVersions = [n \in OrgRows |-> {}]
  /\ writes = 0 /\ forward = TRUE /\ latest = MinYear
  /\ tab \in Tabs /\ year \in Years /\ shown = Empty /\ unsaved = FALSE /\ ticked = <<>>
  /\ calls = <<Load(tab, year)>> /\ steps = 0 /\ errand \in Errands

OrgScreensNext ==
  \/ \E y \in Years : ChangeYear(y)
  \/ \E t \in Tabs : ChangeTab(t)
  \/ \E d \in ItemsOf(shown) : \/ TickDepartment(d) \/ RenameDept(d) \/ DeleteDept(d)
                               \/ TickOffice(d) \/ Rename(d) \/ Abolish(d)
  \/ \E h \in Groups(shown) : \/ TickSeries(h) \/ BulkMoveDepts(h) \/ AddDept(h) \/ RenameSeries(h) \/ DeleteSeries(h)
                              \/ TickGroup(h) \/ BulkMoveOffices(h) \/ AddOffice(h) \/ Rename(h) \/ Abolish(h)
  \/ \E n \in ItemsOf(shown), from, h \in Groups(shown), at \in 0..Cardinality(ItemsOf(shown)) :
       DragDept(n, from, h, at) \/ DragOffice(n, from, h, at)
  \/ \E from, to \in 0..(Len(shown.order) - 1) : ReorderSeries(from, to) \/ ReorderCategories(from, to)
  \/ ClearTicks \/ SaveSeries \/ SaveOffices \/ AddSeries \/ AddOfficeGroup
  \/ TreeArrives \/ SaveAnswered \/ EditAnswered \/ CallFails

-----------------------------------------------------------------------------

\* With no request under way and nothing marked as unsaved, the tab shows what is stored
\* for the selected year; or nothing, after a load that failed.
CleanIsYears ==
  calls = <<>> /\ ~unsaved => shown \in {TreeAt(tab, year), Empty}

\* The year now shows the tree that was on the screen when the button was pressed, unless
\* a row came or went in between.
StoresSeen(t, y, seen) ==
  LET stored == TreeAt(t, y)
  IN ItemsOf(stored) = ItemsOf(seen) /\ Groups(stored) = Groups(seen) => stored = seen

\* A save stores what was on the screen for its year, as long as nothing has been written
\* for a later year before.
SavedShows ==
  [][SaveAnswered /\ forward' => \A c \in {Call1} : StoresSeen(c.tab, c.year, c.seen)']_osvars

\* "변경 적용 학년도를 지정한 뒤 신설·학과명 변경·폐지를 하면 그 학년도부터 조회에 반영됩니다"
\* (InternalOrgManager.tsx): the same for every year.
SavedShowsForYear ==
  [][SaveAnswered => \A c \in {Call1} : StoresSeen(c.tab, c.year, c.seen)']_osvars
=============================================================================
