----------------------------- MODULE MCSpFunds ------------------------------
(***************************************************************************)
(* Small instances of SpFunds for TLC, with a note of whether all requests *)
(* so far were those of an administrator with discipline.                  *)
(***************************************************************************)
EXTENDS SpFunds, TLC

VARIABLE disciplined   \* history: only steps of EditNext so far

Symmetry == Permutations(Funds) \cup Permutations(Names)

MCInit == Init /\ disciplined = TRUE

MCSpec == MCInit /\ [][Next /\ disciplined' = (disciplined /\ EditNext)]_<<vars, disciplined>>

\* As long as nobody edits an abolished fund or rolls back, the store implements
\* the timeline of FundTimeline: an edit shows in the year it was made for, and
\* reaches no earlier year and no other fund; a restart reaches none at all.
ImplementsTimeline ==
  Timeline!Init /\ [][disciplined' => [Timeline!Next]_(Timeline!vars)]_<<vars, disciplined>>
=============================================================================
