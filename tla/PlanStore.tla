------------------------------ MODULE PlanStore ------------------------------
(***************************************************************************)
(* The browser of a department: the client store of the strategic plan     *)
(* (useStrategicPlanStore.ts) and what its screens send.  An edit shows at *)
(* once and is saved by a timer of its own; a change of the school year    *)
(* shows the year at once and fetches its entries; completing a task and   *)
(* copying last year's budgets are requests of their own.  Nothing orders  *)
(* timers, requests and answers.                                           *)
(*                                                                         *)
(* One task, one input of each kind.  A value is the number of the edit    *)
(* that typed it and the year it was typed for; 0 is what was there.       *)
(***************************************************************************)
EXTENDS Absent, Naturals, FiniteSets

CONSTANTS
  Years,        \* school years on offer
  Cells,        \* inputs on the screen, of those in AllCells
  MaxEdits,     \* bound: edits
  MaxLoads,     \* bound: changes of year and reloads
  MaxLocks,     \* bound: completions and re-openings
  MaxFailures   \* bound: requests that fail on the way

\* The kinds of input: what blocks them, and whether the timer has the value
\* typed or takes it from the screen when it fires.
AllCells == [text   |-> [lock |-> "eval",   drawn |-> FALSE],  \* setEvaluationField
             rows   |-> [lock |-> "eval",   drawn |-> TRUE],   \* setEvaluationData
             ir     |-> [lock |-> NULL,     drawn |-> TRUE],   \* setIrEvalField
             amount |-> [lock |-> "budget", drawn |-> FALSE],  \* setBudgetField
             result |-> [lock |-> "eval",   drawn |-> FALSE]]  \* setKpiResult

ASSUME PlanStoreAssumption ==
  /\ Years \subseteq Nat /\ Cells \subseteq DOMAIN AllCells
  /\ MaxEdits \in Nat /\ MaxLoads \in Nat /\ MaxLocks \in Nat /\ MaxFailures \in Nat

LockKinds == {"budget", "eval"}
Numbers == {"amount", "result"}

VARIABLES
  stored,     \* server: year -> cell -> value
  completed,  \* server: year -> kinds completed
  year,       \* the year on screen
  draft,      \* the inputs on screen: cell -> value
  locks,      \* the completions on screen
  timers,     \* saveTimers: key -> the edit that waits, or NULL
  inflight,   \* saves sent and not answered
  loads,      \* fetches of a year's entries under way
  asked,      \* completions under way
  copy,       \* copyPreviousYearBudgets under way, or NULL
  typed,      \* history: the edits made
  heard,      \* history: edits stored, refused or reported as failed
  failures,
  begun       \* loads and completions asked for so far

pvars == <<stored, completed, year, draft, locks, timers, inflight, loads, asked, copy,
           typed, heard, failures, begun>>

Entry == [year : Years, edit : 0..MaxEdits]
Edit == [cell : Cells, year : Years, value : Entry, valid : BOOLEAN]

PlanStoreTypeOK ==
  /\ stored \in [Years -> [Cells -> Entry]]
  /\ completed \in [Years -> SUBSET LockKinds]
  /\ year \in Years /\ draft \in [Cells -> Entry] /\ locks \subseteq LockKinds
  /\ timers \in [Cells \X Years -> Edit \cup {NULL}]
  /\ inflight \subseteq [cell : Cells, year : Years, value : Entry, edit : 1..MaxEdits]
  /\ heard \subseteq 1..MaxEdits /\ failures \in 0..MaxFailures

-----------------------------------------------------------------------------
(* Typing                                                                  *)

Blocked(c) == AllCells[c].lock \in locks

Slip_SaveKey(c, y) == <<c, CHOOSE z \in Years : \A o \in Years : z <= o>>

\* `budget:${year}:...`: every input has a timer of its own for every year.
SaveKey(c, y) == <<c, y>>

\* The input changes on screen and its timer starts again with the new edit.
Type(c, valid) ==
  LET n == Cardinality(typed) + 1
      e == [cell |-> c, year |-> year, value |-> [year |-> year, edit |-> n], valid |-> valid]
  IN /\ n <= MaxEdits
     /\ ~Blocked(c)
     /\ valid \/ c \in Numbers
     /\ draft' = [draft EXCEPT ![c] = e.value]
     /\ timers' = [timers EXCEPT ![SaveKey(c, year)] = e]
     /\ typed' = typed \cup {e}
     /\ UNCHANGED <<stored, completed, year, locks, inflight, loads, asked, copy, heard, failures, begun>>

Slip_Sent(e) == [cell |-> e.cell, year |-> year, edit |-> e.value.edit, value |-> e.value]

\* The request of a timer that fires: for the year of the edit, but rows and
\* the IR overlay are taken from the screen as it is now.
Sent(e) == [cell |-> e.cell, year |-> e.year, edit |-> e.value.edit,
            value |-> IF AllCells[e.cell].drawn THEN draft[e.cell] ELSE e.value]

\* A timer fires; a number that cannot be read is reported and not sent.
Fire(k) ==
  /\ timers[k] # NULL
  /\ timers' = [timers EXCEPT ![k] = NULL]
  /\ IF timers[k].valid
     THEN inflight' = inflight \cup {Sent(timers[k])} /\ UNCHANGED heard
     ELSE heard' = heard \cup {timers[k].value.edit} /\ UNCHANGED inflight
  /\ UNCHANGED <<stored, completed, year, draft, locks, loads, asked, copy, typed, failures, begun>>

\* The server refuses to change what the department has completed.
Accepts(c, y) == AllCells[c].lock \notin completed[y] \/ c = "result"

\* The server handles a save, and the answer or the error reaches the screen.
HandleSave(r) ==
  /\ r \in inflight
  /\ inflight' = inflight \ {r}
  /\ heard' = heard \cup {r.edit}
  /\ stored' = IF Accepts(r.cell, r.year)
               THEN [stored EXCEPT ![r.year][r.cell] = r.value] ELSE stored
  /\ UNCHANGED <<completed, year, draft, locks, timers, loads, asked, copy, typed, failures, begun>>

\* A save fails on the way; the screen says so and does not try again.
LoseSave(r) ==
  /\ r \in inflight /\ failures < MaxFailures
  /\ failures' = failures + 1
  /\ inflight' = inflight \ {r}
  /\ heard' = heard \cup {r.edit}
  /\ UNCHANGED <<stored, completed, year, draft, locks, timers, loads, asked, copy, typed, begun>>

-----------------------------------------------------------------------------
(* The year on screen                                                      *)

Shown(y) == [draft |-> stored[y], locks |-> completed[y]]

\* setYear(): the year changes at once, its tree and then its entries are fetched.
SetYear(y) ==
  /\ begun.loads < MaxLoads
  /\ begun' = [begun EXCEPT !.loads = @ + 1]
  /\ y # year
  /\ year' = y
  /\ loads' = loads \cup {[id |-> begun.loads, year |-> y, at |-> "tree", answer |-> NULL]}
  /\ UNCHANGED <<stored, completed, draft, locks, timers, inflight, asked, copy, typed, heard, failures>>

\* load(), when the page opens again: the latest tree says which year to show.
Reload(y) ==
  /\ begun.loads < MaxLoads
  /\ begun' = [begun EXCEPT !.loads = @ + 1]
  /\ loads' = loads \cup {[id |-> begun.loads, year |-> y, at |-> "latest", answer |-> NULL]}
  /\ UNCHANGED <<stored, completed, year, draft, locks, timers, inflight, asked, copy, typed, heard, failures>>

\* The tree arrives, or fails to: loadEntries() asks for the entries either
\* way, except in load(), which gives up.
TreeArrives(l, fails) ==
  /\ l \in loads /\ l.at \in {"tree", "latest"}
  /\ failures' = IF fails THEN failures + 1 ELSE failures
  /\ failures' <= MaxFailures
  /\ year' = IF l.at = "latest" /\ ~fails THEN l.year ELSE year
  /\ loads' = (loads \ {l}) \cup
                (IF l.at = "latest" /\ fails THEN {} ELSE {[l EXCEPT !.at = "entries"]})
  /\ UNCHANGED <<stored, completed, draft, locks, timers, inflight, asked, copy, typed, heard, begun>>

\* The server reads the evaluations, the budgets and the completions of the year.
ReadEntries(l) ==
  /\ l \in loads /\ l.at = "entries"
  /\ loads' = (loads \ {l}) \cup {[l EXCEPT !.at = "answer", !.answer = Shown(l.year)]}
  /\ UNCHANGED <<stored, completed, year, draft, locks, timers, inflight, asked, copy, typed, heard,
                 failures, begun>>

\* The answer replaces what the screen shows, whatever year that is of by now.
ShowEntries(l) ==
  /\ l \in loads /\ l.at = "answer"
  /\ loads' = loads \ {l}
  /\ draft' = l.answer.draft /\ locks' = l.answer.locks
  /\ UNCHANGED <<stored, completed, year, timers, inflight, asked, copy, typed, heard, failures, begun>>

LoseEntries(l) ==
  /\ l \in loads /\ l.at \in {"entries", "answer"}
  /\ failures < MaxFailures
  /\ failures' = failures + 1
  /\ loads' = loads \ {l}
  /\ UNCHANGED <<stored, completed, year, draft, locks, timers, inflight, asked, copy, typed, heard, begun>>

-----------------------------------------------------------------------------
(* Completing a task, and last year's budgets                              *)

\* setWriteLock(), by the button shown: timers that run are left running.
AskLock(kind) ==
  /\ begun.locks < MaxLocks
  /\ begun' = [begun EXCEPT !.locks = @ + 1]
  /\ asked' = asked \cup {[id |-> begun.locks, year |-> year, kind |-> kind, done |-> kind \notin locks,
                                at |-> "sent"]}
  /\ UNCHANGED <<stored, completed, year, draft, locks, timers, inflight, loads, copy, typed, heard, failures>>

Toggled(kinds, a) == IF a.done THEN kinds \cup {a.kind} ELSE kinds \ {a.kind}

SaveLock(a) ==
  /\ a \in asked /\ a.at = "sent"
  /\ completed' = [completed EXCEPT ![a.year] = Toggled(@, a)]
  /\ asked' = (asked \ {a}) \cup {[a EXCEPT !.at = "saved"]}
  /\ UNCHANGED <<stored, year, draft, locks, timers, inflight, loads, copy, typed, heard, failures, begun>>

ShowLock(a) ==
  /\ a \in asked /\ a.at = "saved"
  /\ locks' = Toggled(locks, a)
  /\ asked' = asked \ {a}
  /\ UNCHANGED <<stored, completed, year, draft, timers, inflight, loads, copy, typed, heard, failures, begun>>

Preceding == year - 1

\* copyPreviousYearBudgets(): the year is the one on screen.
StartCopy ==
  /\ copy = NULL /\ "amount" \in Cells /\ Preceding \in Years
  /\ copy' = [year |-> year, at |-> "fetch", amount |-> NULL, next |-> NULL]
  /\ UNCHANGED <<stored, completed, year, draft, locks, timers, inflight, loads, asked, typed, heard,
                 failures, begun>>

\* Last year's amount has arrived: nothing is copied into what the screen shows
\* as completed, nor an amount of a fund that is abolished.
TakeCopy(usable) ==
  /\ copy # NULL /\ copy.at = "fetch"
  /\ copy' = IF usable /\ "budget" \notin locks
             THEN LET amount == [stored[copy.year - 1]["amount"] EXCEPT !.year = copy.year]
                  IN [copy EXCEPT !.at = "save", !.amount = amount,
                                  !.next = [draft EXCEPT !["amount"] = amount]]
             ELSE NULL
  /\ UNCHANGED <<stored, completed, year, draft, locks, timers, inflight, loads, asked, typed, heard,
                 failures, begun>>

\* The amount is saved or refused; saved, the budgets on screen become those
\* they were when the copy was taken.
EndCopy ==
  /\ copy # NULL /\ copy.at = "save"
  /\ copy' = NULL
  /\ IF Accepts("amount", copy.year)
     THEN /\ stored' = [stored EXCEPT ![copy.year]["amount"] = copy.amount]
          /\ draft' = [draft EXCEPT !["amount"] = copy.next["amount"]]
     ELSE UNCHANGED <<stored, draft>>
  /\ UNCHANGED <<completed, year, locks, timers, inflight, loads, asked, typed, heard, failures, begun>>

-----------------------------------------------------------------------------

PlanStoreInit ==
  /\ stored = [y \in Years |-> [c \in Cells |-> [year |-> y, edit |-> 0]]]
  /\ completed = [y \in Years |-> {}]
  /\ year \in Years /\ draft = stored[year] /\ locks = completed[year]
  /\ timers = [k \in Cells \X Years |-> NULL]
  /\ inflight = {} /\ loads = {} /\ asked = {} /\ copy = NULL
  /\ typed = {} /\ heard = {} /\ failures = 0 /\ begun = [loads |-> 0, locks |-> 0]

\* What the browser and the server do by themselves.
Proceed ==
  \/ \E k \in Cells \X Years : Fire(k)
  \/ \E r \in inflight : HandleSave(r)
  \/ \E l \in loads : TreeArrives(l, FALSE) \/ ReadEntries(l) \/ ShowEntries(l)
  \/ \E a \in asked : SaveLock(a) \/ ShowLock(a)
  \/ \E usable \in BOOLEAN : TakeCopy(usable)
  \/ EndCopy

PlanStoreNext ==
  \/ Proceed
  \/ \E c \in Cells, valid \in BOOLEAN : Type(c, valid)
  \/ \E y \in Years : SetYear(y) \/ Reload(y)
  \/ \E kind \in LockKinds : AskLock(kind)
  \/ StartCopy
  \/ \E r \in inflight : LoseSave(r)
  \/ \E l \in loads : TreeArrives(l, TRUE) \/ LoseEntries(l)

\* Timers fire and requests are answered; people do as they like.
PlanStoreFair ==
  /\ WF_pvars(\E k \in Cells \X Years : Fire(k))
  /\ WF_pvars(\E r \in inflight : HandleSave(r))

-----------------------------------------------------------------------------
(* Properties                                                              *)

OfYear(c) == \A y \in Years : stored[y][c].year = y

\* However years are switched, reloaded and copied while timers run and answers
\* are late, a text, an amount or a result is stored for the year it was typed
\* for only: the timer captures both.
TypedKeepsYear == \A c \in Cells : ~AllCells[c].drawn => OfYear(c)

\* EvaluationView.tsx:1137 says beside the school year: "what you type is saved
\* automatically".  The rows of a year and the IR overlay are stored for it only.
DrawnKeepsYear == \A c \in Cells : AllCells[c].drawn => OfYear(c)

Retyped(n) == \E e, f \in typed : /\ e.value.edit = n /\ f.value.edit > n
                                  /\ f.cell = e.cell /\ f.year = e.year

\* Every edit reaches the server or an error message, unless its own input was
\* typed again for the same year: no other input, no change of year and no
\* completion takes its timer away.
EditArrives ==
  \A n \in 1..MaxEdits : Cardinality(typed) >= n ~> n \in heard \/ Retyped(n)
=============================================================================
