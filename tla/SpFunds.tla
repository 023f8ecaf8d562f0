------------------------------ MODULE SpFunds -------------------------------
(***************************************************************************)
(* The fund sources of the strategic plan: ir_sp_fund_source, their        *)
(* version rows and the change log, under the administrator's operations,  *)
(* the rollback of a logged change, the full revision and a restart of the *)
(* server (whose start-up hook re-aligns the live rows).                   *)
(*                                                                         *)
(* An action is one whole request: the live row, the version rows and the  *)
(* log entry it writes one after the other.                                *)
(***************************************************************************)
EXTENDS ItemVersions

CONSTANTS Funds,       \* the fundSourceIds the table can generate
          Names,       \* fund names
          MaxWrites    \* bound: versioned writes in a behaviour

ASSUME WritesAssumption == MaxWrites \in Nat
\* A change log entry without a fund holds NULL in its place.
ASSUME FundsAssumption == NULL \notin Funds

VARIABLES row,         \* row[f]: the live row of f, NULL when not in the table
          versions,    \* versions[f]: the version rows of lineage f
          log,         \* ir_sp_change_log
          writes       \* versioned writes so far: the next versionId

vars == <<row, versions, log, writes>>

Row == [name: Names, from: Years, abolished: YearOrNull, active: BOOLEAN]

ASSUME RowAssumption == NULL \notin Row

LogEntry ==
  [id: Nat, fund: Funds, year: Years, type: ChangeTypes, before: Row \cup {NULL}]

\* The entry of a full revision names no fund, so it cannot be rolled back.
RevisionEntry == [id: Nat, fund: {NULL}, year: Years, type: {"revise"}, before: {NULL}]

Stored == {f \in Funds : row[f] # NULL}
Live == {f \in Stored : row[f].abolished = NULL}

\* uq_sp_fund_source_name: what the table accepts as the name of f.
NameFree(f, name) == \A g \in Stored \ {f} : row[g].name # name

TypeOK ==
  /\ row \in [Funds -> Row \cup {NULL}]
  /\ versions \in [Funds -> SUBSET Version(Row)]
  /\ log \subseteq LogEntry \cup RevisionEntry
  /\ writes \in Nat

\* Seeded funds start in the first year and have no version row yet.
Seeded(name) == [name |-> name, from |-> MinYear, abolished |-> NULL, active |-> TRUE]

Init ==
  /\ row \in [Funds -> {Seeded(n) : n \in Names} \cup {NULL}]
  /\ \A f \in Stored : NameFree(f, row[f].name)
  /\ versions = [f \in Funds |-> {}]
  /\ log = {}
  /\ writes = 0

-----------------------------------------------------------------------------

CanWrite == writes < MaxWrites

\* What every request ends in: save the row, writeVersion, recordChange.  The
\* payload of a row is the row itself.
Commit(f, new, y, type, payload, before) ==
  /\ CanWrite
  /\ row' = [row EXCEPT ![f] = new]
  /\ versions' = [versions EXCEPT
                    ![f] = WriteVersion(@, writes + 1, y, type, payload, before)]
  /\ log' = log \cup {[id |-> writes + 1, fund |-> f, year |-> y, type |-> type,
                       before |-> before]}
  /\ writes' = writes + 1

\* A new fund, or the abolished one of that name brought back.
CreateFund(f, name, y) ==
  /\ f \in Stored => row[f].name = name /\ row[f].abolished # NULL
  /\ NameFree(f, name)
  /\ LET new == [name |-> name, from |-> y, abolished |-> NULL, active |-> TRUE]
     IN Commit(f, new, y, "create", new, NULL)

Slip_RenameFundVersionsOldRow(f, name, y) ==
  /\ f \in Stored
  /\ NameFree(f, name)
  /\ Commit(f, [row[f] EXCEPT !.name = name], y, "update", row[f], row[f])

\* updateNode: no look at abolishedFrom.
RenameFund(f, name, y) ==
  /\ f \in Stored
  /\ NameFree(f, name)
  /\ LET new == [row[f] EXCEPT !.name = name]
     IN Commit(f, new, y, "update", new, row[f])

Abolished(r, y) == [r EXCEPT !.abolished = y, !.active = FALSE]

\* abolishNode: no look at abolishedFrom either.
AbolishFund(f, y) ==
  /\ f \in Stored
  /\ Commit(f, Abolished(row[f], y), y, "abolish", row[f], row[f])

\* rollback: every field of the payload comes back but effectiveFrom.
RollbackFund(e) ==
  LET f == e.fund
      new == [row[f] EXCEPT !.name = e.before.name,
                            !.active = e.before.active,
                            !.abolished = e.before.abolished]
  IN /\ e \in log
     /\ e.before # NULL
     /\ f \in Stored
     /\ NameFree(f, e.before.name)
     /\ Commit(f, new, e.year, "rollback", new, row[f])

\* fullRevise('fund'): abolish every live fund, then log the revision.
FullReviseFunds(y) ==
  /\ CanWrite
  /\ row' = [f \in Funds |-> IF f \in Live THEN Abolished(row[f], y) ELSE row[f]]
  /\ versions' = [f \in Funds |->
       IF f \in Live
       THEN WriteVersion(versions[f], writes + 1, y, "abolish", row[f], row[f])
       ELSE versions[f]]
  /\ log' = log \cup {[id |-> writes + 1, fund |-> NULL, year |-> y, type |-> "revise",
                       before |-> NULL]}
                \cup {[id |-> writes + 1, fund |-> f, year |-> y, type |-> "abolish",
                       before |-> row[f]] : f \in Live}
  /\ writes' = writes + 1

\* updateFundSource without a name: the flag goes straight to the live row.
SetFundActive(f, active) ==
  /\ f \in Stored
  /\ row' = [row EXCEPT ![f].active = active]
  /\ UNCHANGED <<versions, log, writes>>

\* syncFundLiveIntervals() of the start-up hook.
LiveFromOpen(r, vs) ==
  LET open == First(OpenRows(vs))
  IN IF open = {} THEN r
     ELSE [r EXCEPT !.from = (CHOOSE v \in open : TRUE).from,
                    !.abolished = NULL,
                    !.active = TRUE]

Restart ==
  /\ row' = [f \in Funds |-> IF f \in Stored THEN LiveFromOpen(row[f], versions[f]) ELSE NULL]
  /\ UNCHANGED <<versions, log, writes>>

Next ==
  \/ \E f \in Funds, name \in Names, y \in Years :
       CreateFund(f, name, y) \/ RenameFund(f, name, y)
  \/ \E f \in Funds, y \in Years : AbolishFund(f, y)
  \/ \E e \in log : RollbackFund(e)
  \/ \E y \in Years : FullReviseFunds(y)
  \/ \E f \in Funds, active \in BOOLEAN : SetFundActive(f, active)
  \/ Restart

Spec == Init /\ [][Next]_vars

\* The administrator who never edits an abolished fund and never rolls back.
EditNext ==
  \/ \E f \in Funds, name \in Names, y \in Years :
       CreateFund(f, name, y) \/ (f \in Live /\ RenameFund(f, name, y))
  \/ \E f \in Funds, y \in Years : f \in Live /\ AbolishFund(f, y)
  \/ \E y \in Years : FullReviseFunds(y)
  \/ \E f \in Funds, active \in BOOLEAN : SetFundActive(f, active)
  \/ Restart

-----------------------------------------------------------------------------
(* What a query sees: listFundSources(year) shows a fund under the name of *)
(* the first covering row, else under the live name.  {} is "not listed".  *)

Active(f, y) == ActiveInYear(versions[f], y, row[f].from, row[f].abolished)

Shown(f, y) ==
  IF f \notin Stored \/ ~Active(f, y) THEN {}
  ELSE LET overlay == OverlayPayload(versions[f], y)
       IN IF overlay = {} THEN {row[f].name} ELSE {p.name : p \in overlay}

ShownTable == [f \in Funds |-> [y \in Years |-> Shown(f, y)]]

-----------------------------------------------------------------------------
(* Properties                                                              *)

\* A lineage never has two rows in force "until further notice": writeVersion
\* closes or removes the open row before it inserts the next one.
AtMostOneOpen ==
  \A f \in Funds : \A v, w \in OpenRows(versions[f]) : v = w

\* The two ways to read the current plan agree on the name: the open version
\* row (getTree with a year) carries what the live row (getTree without) says.
OpenMatchesRow ==
  \A f \in Funds : \A v \in OpenRows(versions[f]) :
    f \in Stored /\ v.payload.name = row[f].name

\* A live fund is in force in some open row, unless it was never edited since
\* the seed, and then its live interval starts in the first year: no sequence
\* of creations, rollbacks and revisions leaves a live fund without a row.
LiveIsBacked ==
  \A f \in Live :
    OpenRows(versions[f]) # {} \/ (versions[f] = {} /\ row[f].from = MinYear)

\* The three together: however a fund is edited, rolled back, revised and the
\* server restarted, its version rows and its live row tell one story.
RowsAgree == AtMostOneOpen /\ OpenMatchesRow /\ LiveIsBacked

\* And every year in them, the computed ends of closed rows included, is one of
\* the plan (closeCurrentVersion, closeDate).
FundsSound == TypeOK /\ RowsAgree

\* The archive only grows: a closed row is never changed, reopened or removed,
\* whatever later or backdated write follows.
ClosedRowsKept ==
  [][\A f \in Funds : \A v \in versions[f] : ~IsOpen(v) => v \in versions'[f]]_vars

\* An edit shows in the year it was made for, also when it is backdated under
\* rows written before it for later years: the first covering row is the new one.
EditShowsInItsYear ==
  [][\A f \in Funds, y \in Years :
       (\/ \E name \in Names : CreateFund(f, name, y) \/ RenameFund(f, name, y)
        \/ \E e \in log : e.fund = f /\ e.year = y /\ RollbackFund(e))
       => Shown(f, y)' = {row'[f].name}]_vars

-----------------------------------------------------------------------------
\* What the store is as a timeline: every entry the log gains is an edit of it,
\* for the year the entry names.
Journal ==
  {[id |-> e.id, fund |-> e.fund, year |-> e.year] : e \in {d \in log : d.fund # NULL}}

Timeline == INSTANCE FundTimeline WITH shown <- ShownTable, edits <- Journal
=============================================================================
