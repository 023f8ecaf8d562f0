------------------------------- MODULE OrgTree -------------------------------
(***************************************************************************)
(* The internal organisation: series with their departments                *)
(* (internal-org.service.ts) and office groups with their offices          *)
(* (office-org.service.ts).  Both keep a live row per node and version     *)
(* rows per school year (org-versioning.service.ts, the same algorithm as  *)
(* the strategic plan's), but take whether a node exists in a year from    *)
(* its live row, and what it is called and where it hangs from the version *)
(* that covers the year.                                                   *)
(*                                                                         *)
(* An action is a whole request.  The display order is left out.           *)
(***************************************************************************)
EXTENDS ItemVersions, FiniteSets

CONSTANTS
  Series, Departments,  \* primary keys; one series is Uncategorized
  Uncategorized,        \* the system series
  Groups, Offices,      \* rows of ir_sp_department with and without isCategory
  Names,
  MaxWrites             \* bound: versioned writes

Heads == Series \cup Groups
OrgNodes == Heads \cup Departments \cup Offices

\* Keys of different tables, or of rows of different kinds.
ASSUME OrgAssumption ==
  /\ Uncategorized \in Series /\ MaxWrites \in Nat /\ NULL \notin OrgNodes
  /\ Series \cap Groups = {} /\ Heads \cap (Departments \cup Offices) = {} /\ Departments \cap Offices = {}

VARIABLES
  row,       \* live row of each node, or NULL
  versions,  \* its version rows
  log,       \* ir_org_change_log: entries with a payload to go back to
  writes,    \* versioned writes so far: the next versionId
  latest,    \* history: the latest year a request was for
  forward    \* history: no request was for an earlier year, none was a rollback

ovars == <<row, versions, log, writes, latest, forward>>

Row == [name : Names \cup {"uncategorized"}, up : Heads \cup {NULL}, from : Years, abolished : YearOrNull]
ASSUME OrgRowAssumption == NULL \notin Row

Kept == {n \in OrgNodes : row[n] # NULL}

-----------------------------------------------------------------------------
(* resolveAt(year)                                                         *)

\* The years the live row claims.
Span(n) == {y \in Years : n \in Kept /\ ActiveAt(row[n].from, row[n].abolished, y)}
Exists(n, y) == y \in Span(n)

\* What is shown of a node: the payload that covers the year, or the live row.
Resolved(n, y) ==
  LET overlay == OverlayPayload(versions[n], y)
  IN CHOOSE r \in IF overlay = {} THEN {row[n]} ELSE overlay : TRUE

ChildrenAt(p, y) == {n \in Departments \cup Offices : Exists(n, y) /\ Resolved(n, y).up = p}

-----------------------------------------------------------------------------

\* What every request ends in for each node it writes: the live row is saved, its
\* payload becomes the version from y on, before is logged.  new maps the nodes
\* that are written to their new rows.
Slip_CommitForgetsBefore(new, y, type, undo) ==
  /\ writes < MaxWrites
  /\ row' = [n \in OrgNodes |-> IF n \in DOMAIN new THEN new[n] ELSE row[n]]
  /\ versions' = [n \in OrgNodes |->
       IF n \in DOMAIN new
       THEN WriteVersion(versions[n], writes + 1, y, type[n], new[n], new[n])
       ELSE versions[n]]
  /\ log' = log \cup {[node |-> n, year |-> y, before |-> Resolved(n, y)] : n \in DOMAIN new \cap Kept}
  /\ writes' = writes + 1
  /\ latest' = y
  /\ forward' = (forward /\ ~undo /\ y >= latest)

Commit(new, y, type, undo) ==
  /\ writes < MaxWrites
  /\ row' = [n \in OrgNodes |-> IF n \in DOMAIN new THEN new[n] ELSE row[n]]
  /\ versions' = [n \in OrgNodes |->
       IF n \in DOMAIN new
       THEN WriteVersion(versions[n], writes + 1, y, type[n], new[n], IF n \in Kept THEN Resolved(n, y) ELSE new[n])
       ELSE versions[n]]
  /\ log' = log \cup {[node |-> n, year |-> y, before |-> IF undo THEN row[n] ELSE Resolved(n, y)] :
                        n \in DOMAIN new \cap Kept}
  /\ writes' = writes + 1
  /\ latest' = y
  /\ forward' = (forward /\ ~undo /\ y >= latest)

CommitOne(n, new, y, type) == Commit([m \in {n} |-> new], y, [m \in {n} |-> type], FALSE)

NewRow(name, up, y) == [name |-> name, up |-> up, from |-> y, abolished |-> NULL]

NameTaken(kind, name, y) == \E n \in kind : Exists(n, y) /\ Resolved(n, y).name = name

-----------------------------------------------------------------------------
(* Series and departments                                                  *)

CreateSeries(s, name, y) ==
  /\ s \in Series \ Kept
  /\ ~NameTaken(Series, name, y)
  /\ CommitOne(s, NewRow(name, NULL, y), y, "create")

UpdateSeries(s, name, y) ==
  /\ s \in Series \ {Uncategorized} /\ Exists(s, y)
  /\ ~NameTaken(Series \ {s}, name, y)
  /\ CommitOne(s, [row[s] EXCEPT !.name = name], y, "update")

CreateDepartment(d, s, name, y) ==
  /\ d \in Departments \ Kept
  /\ s \in Series /\ Exists(s, y)
  /\ CommitOne(d, NewRow(name, s, y), y, "create")

\* A department may be moved to a series that exists in that year.
MayMove(d, s, y) == d \in Departments /\ Exists(d, y) /\ s \in Series /\ (s # row[d].up => Exists(s, y))

UpdateDepartment(d, s, name, y) ==
  /\ MayMove(d, s, y)
  /\ CommitOne(d, [row[d] EXCEPT !.up = s, !.name = name], y, "update")

\* reorder moves those that are not where they shall be, one after the other.
Reorder(to, y) ==
  /\ \A d \in DOMAIN to : MayMove(d, to[d], y) /\ to[d] # row[d].up
  /\ Commit([d \in DOMAIN to |-> [row[d] EXCEPT !.up = to[d]]], y, [d \in DOMAIN to |-> "update"], FALSE)

\* Departments that are in the series in that year move to the system series first.
Slip_AbolishSeries(s, y) ==
  /\ s \in Series \ {Uncategorized} /\ Exists(s, y)
  /\ CommitOne(s, [row[s] EXCEPT !.abolished = y], y, "abolish")

AbolishSeries(s, y) ==
  LET moved == ChildrenAt(s, y)
  IN /\ s \in Series \ {Uncategorized} /\ Exists(s, y)
     /\ Commit([n \in moved \cup {s} |-> IF n = s THEN [row[s] EXCEPT !.abolished = y]
                                                  ELSE [row[n] EXCEPT !.up = Uncategorized]],
               y, [n \in moved \cup {s} |-> IF n = s THEN "abolish" ELSE "update"], FALSE)

AbolishDepartment(d, y) ==
  /\ d \in Departments /\ Exists(d, y)
  /\ CommitOne(d, [row[d] EXCEPT !.abolished = y], y, "abolish")

\* rollback for the year of the entry: everything of the payload but effectiveFrom.
Rollback(e) ==
  LET old == row[e.node]
  IN /\ e \in log
     /\ Commit([n \in {e.node} |-> [e.before EXCEPT !.from = old.from]], e.year, [n \in {e.node} |-> "rollback"], TRUE)

-----------------------------------------------------------------------------
(* Offices                                                                 *)

GroupOk(g, y) == g # NULL => g \in Groups /\ Exists(g, y)

CreateOffice(o, g, name, y) ==
  /\ o \in (Groups \cup Offices) \ Kept
  /\ o \in Groups => g = NULL
  /\ GroupOk(g, y)
  /\ ~NameTaken(IF o \in Groups THEN Groups ELSE Offices, name, y)
  /\ CommitOne(o, NewRow(name, g, y), y, "create")

\* updateOffice, to which reorder comes down for each office: the name is not compared.
UpdateOffice(o, g, name, y) ==
  /\ o \in Groups \cup Offices /\ Exists(o, y)
  /\ o \in Groups => g = NULL
  /\ g # row[o].up => GroupOk(g, y)
  /\ CommitOne(o, [row[o] EXCEPT !.name = name, !.up = g], y, "update")

\* A group must be empty in that year.
AbolishOffice(o, y) ==
  /\ o \in Groups \cup Offices /\ Exists(o, y)
  /\ o \in Groups => ChildrenAt(o, y) = {}
  /\ CommitOne(o, [row[o] EXCEPT !.abolished = y], y, "abolish")

-----------------------------------------------------------------------------

\* Seeded nodes have no version row; an existing table is backfilled to MinYear.
SeedRow(name, up) == NewRow(name, up, MinYear)

OrgInit ==
  /\ \E s \in Series \ {Uncategorized}, g \in Groups, name \in Names :
       row \in {[n \in OrgNodes |->
                   IF n = Uncategorized THEN SeedRow("uncategorized", NULL)
                   ELSE IF n \in seeded THEN SeedRow(name, IF n \in Departments THEN s
                                                       ELSE IF n \in Offices THEN g ELSE NULL)
                   ELSE NULL] : seeded \in {{}, {s, g} \cup Departments \cup Offices}}
  /\ versions = [n \in OrgNodes |-> {}]
  /\ log = {} /\ writes = 0 /\ latest = MinYear /\ forward = TRUE

AcademicNext ==
  \/ \E s \in Series, name \in Names, y \in Years : CreateSeries(s, name, y) \/ UpdateSeries(s, name, y)
  \/ \E d \in Departments, s \in Series, name \in Names, y \in Years :
       CreateDepartment(d, s, name, y) \/ UpdateDepartment(d, s, name, y)
  \/ \E D \in (SUBSET Departments) \ {{}} : \E to \in [D -> Series], y \in Years : Reorder(to, y)
  \/ \E s \in Series, y \in Years : AbolishSeries(s, y)
  \/ \E d \in Departments, y \in Years : AbolishDepartment(d, y)
  \/ \E e \in log : e.node \in Series \cup Departments /\ Rollback(e)

OfficeNext ==
  \/ \E o \in Groups \cup Offices, g \in Groups \cup {NULL}, name \in Names, y \in Years :
       CreateOffice(o, g, name, y) \/ UpdateOffice(o, g, name, y)
  \/ \E o \in Groups \cup Offices, y \in Years : AbolishOffice(o, y)
  \/ \E e \in log : e.node \in Groups \cup Offices /\ Rollback(e)

-----------------------------------------------------------------------------

OrgTypeOK ==
  /\ row \in [OrgNodes -> Row \cup {NULL}]
  /\ \A n \in OrgNodes : \A v \in versions[n] :
       v.payload \in Row /\ v.from \in Years /\ v.to \in YearOrNull /\ (IsOpen(v) \/ v.from <= v.to)
  /\ \A e \in log : e.node \in Kept /\ e.year \in Years /\ e.before \in Row

\* In the tree of every year a department is under a series, and an office with a
\* group under a group, that exists in that year; getTree hides a department whose
\* series does not.  For administrators who work forward through the years.
ChildHasHead ==
  forward => \A n \in Departments \cup Offices, y \in Years :
    Exists(n, y) /\ (n \in Departments \/ Resolved(n, y).up # NULL) => Exists(Resolved(n, y).up, y)

\* An edit for a year leaves the trees of the years before it as they were, when
\* administrators work forward.
OrgPastKept ==
  [][forward' => \A n \in OrgNodes, y \in Years :
       y < latest' /\ n \in Kept => Exists(n, y)' = Exists(n, y)
                                    /\ (Exists(n, y) => Resolved(n, y)' = Resolved(n, y))]_ovars

\* Whatever was edited, backdated or rolled back: the last year shows the live row.
LastYearIsLive ==
  \A n \in OrgNodes : Exists(n, MaxYear) => Resolved(n, MaxYear) = row[n]
=============================================================================
