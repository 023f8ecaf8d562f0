---------------------------- MODULE FundTimeline ----------------------------
(***************************************************************************)
(* What the versioned store of fund sources promises, without rows: a      *)
(* table of what each year's query lists, and the edits made so far, each  *)
(* FOR a year.  The years before that year are history to the edit, and it *)
(* does not reach them.                                                    *)
(***************************************************************************)
EXTENDS Integers

CONSTANTS Funds, Names, MinYear, MaxYear

VARIABLES shown,     \* shown[f][y]: the name f is listed under in year y, or {}
          edits      \* the edits made, each with its fund and year

vars == <<shown, edits>>

Years == MinYear..MaxYear
Edit == [id: Nat, fund: Funds, year: Years]

Init == /\ shown \in [Funds -> [Years -> SUBSET Names]]
        /\ \A f \in Funds, x, y \in Years : shown[f][x] = shown[f][y]
        /\ edits = {}

\* One request: an edit of each of these funds for year y, new in the journal.
Request(funds, y) ==
  /\ edits \subseteq edits'
  /\ edits' \ edits \subseteq Edit
  /\ {e.fund : e \in edits' \ edits} = funds
  /\ \A e \in edits' \ edits : e.year = y
  /\ \A f \in Funds, x \in Years : f \notin funds \/ x < y => shown'[f][x] = shown[f][x]

\* f is created or renamed for year y.
Publish(f, name, y) == Request({f}, y) /\ shown'[f][y] = {name}

\* The funds are abolished for year y: no name is in force any more in the last
\* year.  (Rows of years after an earlier, backdated edit may still list them.)
Withdraw(abolished, y) ==
  /\ Request(abolished, y)
  /\ \A f \in abolished : shown'[f][MaxYear] = {}

Next == \E y \in Years :
          \/ \E f \in Funds, name \in Names : Publish(f, name, y)
          \/ \E abolished \in (SUBSET Funds) \ {{}} : Withdraw(abolished, y)

Spec == Init /\ [][Next]_vars
=============================================================================
