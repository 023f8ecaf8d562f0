------------------------------ MODULE AlimiBatch ------------------------------
(***************************************************************************)
(* The public-disclosure batch (modules/alimi): startBatch guards a run    *)
(* with a flag of the process and an advisory lock of the database, the    *)
(* run asks the public API year by year, university by university and      *)
(* operation by operation, and whatever happens ends with a status, a log  *)
(* entry and the lock given back.                                          *)
(* A call of startBatch is cut at its awaits.  What the run stores is the  *)
(* subject of AlimiIngest; here an answer is stored or fails.              *)
(***************************************************************************)
EXTENDS Absent, Naturals, FiniteSets

CONSTANTS
  Procs,        \* server processes on one database
  Calls,        \* calls of startBatch, manual or by the monthly timer
  UnivCount,    \* number of universities the API lists
  Ops,          \* number of statistics operations selected
  Lookback,     \* ALIMI_YEAR_LOOKBACK
  Concurrency,  \* universities asked at once
  MaxAttempts,  \* of getWithRetry
  MaxLost       \* bound: database sessions that die under a run

ASSUME Assumption ==
  /\ {UnivCount, Concurrency, MaxAttempts} \subseteq Nat \ {0}
  /\ {Ops, Lookback, MaxLost} \subseteq Nat
  /\ NULL \notin Calls

VARIABLES
  call,    \* per call: where it stands and its local variables
  lock,    \* the call whose database session holds the advisory lock
  active,  \* activeBatch of each process
  status,  \* batchStatus of each process
  lost     \* sessions that died while they held the lock, so far

bvars == <<call, lock, active, status, lost>>

-----------------------------------------------------------------------------

Phases == {"checking", "universities", "departments", "statistics", "finalizing"}

\* Running: from the lock to the release.
Running(c) == call[c].pc \in Phases \cup {"saving", "releasing"}

\* The local variables of a call: at is the process it came to, offset counts the
\* years looked back, attempt the tries of the request for the universities, op
\* the operations done, asked the universities that have answered, inflight those
\* on the wire.  Of warnings it matters whether there are any.
Idle == [pc |-> "idle", at |-> NULL, offset |-> 0, attempt |-> 1, op |-> 0,
         asked |-> 0, inflight |-> {}, warned |-> FALSE, statsFailures |-> 0]

\* The locals that are not needed any more are dropped.
Forget(c, pc) == [Idle EXCEPT !.pc = pc, !.at = call[c].at]

InitialStatus == [state |-> "idle", phase |-> "idle", total |-> 0]

Smaller(a, b) == IF a < b THEN a ELSE b

\* The next round of at most Concurrency universities after the first n.
Round(n) == (n + 1)..Smaller(n + Concurrency, UnivCount)

Move(c, new) == call' = [call EXCEPT ![c] = new]

SetStatus(c, new) == status' = [status EXCEPT ![call[c].at] = new]

Shown(c) == status[call[c].at]

-----------------------------------------------------------------------------
(* startBatch                                                              *)

\* Refused at once when this process knows of a batch; then connects.
StartBatch(c, p) ==
  /\ call[c].pc = "idle"
  /\ active[p] = NULL
  /\ Move(c, [Idle EXCEPT !.pc = "locking", !.at = p])
  /\ UNCHANGED <<lock, active, status, lost>>

\* What pg_try_advisory_lock finds; a mistake would be not to look.
Slip_LockIsFree == TRUE
LockIsFree == lock = NULL

\* pg_try_advisory_lock answers true; the status is replaced and the run
\* proceeds to its first request before anything else is scheduled.
AcquireLock(c) ==
  /\ call[c].pc = "locking"
  /\ LockIsFree
  /\ lock' = c
  /\ Move(c, [call[c] EXCEPT !.pc = "checking"])
  /\ active' = [active EXCEPT ![call[c].at] = c]
  /\ SetStatus(c, [InitialStatus EXCEPT !.state = "running", !.phase = "checking",
                                        !.total = Lookback + 1])
  /\ UNCHANGED lost

\* Somebody else has the lock, or the database cannot be reached.
Refuse(c) ==
  /\ call[c].pc = "locking"
  /\ Move(c, Idle)
  /\ UNCHANGED <<lock, active, status, lost>>

-----------------------------------------------------------------------------
(* executeLatestAvailableBatch                                             *)

\* The catch block: from any phase, a request or a statement threw.
Fail(c) ==
  /\ call[c].pc \in Phases
  /\ call[c].inflight = {}
  /\ Move(c, Forget(c, "saving"))
  /\ SetStatus(c, [Shown(c) EXCEPT !.state = "failed", !.phase = "done"])
  /\ UNCHANGED <<lock, active, lost>>

\* getWithRetry, shown for the list of universities: status 429 or 5xx, and
\* attempts are left.  The requests of the rounds below go through the same loop
\* and are shown by their outcome.
Retry(c) ==
  /\ call[c].pc = "checking"
  /\ call[c].attempt < MaxAttempts
  /\ Move(c, [call[c] EXCEPT !.attempt = @ + 1])
  /\ UNCHANGED <<lock, active, status, lost>>

YearsLeft(c) == call[c].offset < Lookback

\* The university list of a candidate year is empty: one year further back,
\* or nothing is published at all.
NoData(c) ==
  LET back == call[c].offset + 1
  IN /\ call[c].pc = "checking"
     /\ IF YearsLeft(c)
        THEN /\ Move(c, [call[c] EXCEPT !.offset = back, !.attempt = 1])
             /\ SetStatus(c, [Shown(c) EXCEPT !.phase = "checking", !.total = Lookback + 1])
        ELSE /\ Move(c, Forget(c, "saving"))
             /\ SetStatus(c, [Shown(c) EXCEPT !.state = "no_data", !.phase = "done", !.total = Lookback + 1])
     /\ UNCHANGED <<lock, active, lost>>

YearFound(c) ==
  /\ call[c].pc = "checking"
  /\ Move(c, [call[c] EXCEPT !.pc = "universities", !.attempt = 1])
  /\ SetStatus(c, [Shown(c) EXCEPT !.phase = "universities", !.total = UnivCount])
  /\ UNCHANGED <<lock, active, lost>>

\* The master rows are written; the first universities are asked for their
\* departments.
UniversitiesSynced(c) ==
  /\ call[c].pc = "universities"
  /\ Move(c, [call[c] EXCEPT !.pc = "departments", !.inflight = Round(0)])
  /\ SetStatus(c, [Shown(c) EXCEPT !.phase = "departments", !.total = UnivCount])
  /\ UNCHANGED <<lock, active, lost>>

\* syncOne and ingestOne end, the error caught: a warning, never an exception.
\* Only ingestOne reports progress itself.
Answer(c, u, ok) ==
  LET stats == call[c].pc = "statistics"
  IN /\ u \in call[c].inflight
     /\ Move(c, [call[c] EXCEPT !.inflight = @ \ {u},
                                !.asked = @ + 1,
                                !.warned = @ \/ ~ok,
                                !.statsFailures = IF stats /\ ~ok THEN @ + 1 ELSE @])
     /\ SetStatus(c, [Shown(c) EXCEPT !.total = IF stats THEN Ops * UnivCount ELSE @])
     /\ UNCHANGED <<lock, active, lost>>

\* Promise.all of a round has settled and universities are left.
NextRound(c) ==
  /\ call[c].pc \in {"departments", "statistics"}
  /\ call[c].inflight = {}
  /\ call[c].asked < (IF call[c].pc = "statistics" /\ call[c].op = Ops THEN 0 ELSE UnivCount)
  /\ Move(c, [call[c] EXCEPT !.inflight = Round(call[c].asked)])
  /\ SetStatus(c, IF call[c].pc = "departments"
                  THEN [Shown(c) EXCEPT !.total = UnivCount]
                  ELSE Shown(c))
  /\ UNCHANGED <<lock, active, lost>>

\* All departments are in; ingestStats announces its total and starts.
DepartmentsDone(c) ==
  /\ call[c].pc = "departments"
  /\ call[c].inflight = {} /\ call[c].asked = UnivCount
  /\ Move(c, [call[c] EXCEPT !.pc = "statistics", !.asked = 0, !.op = 0,
                             !.inflight = IF Ops = 0 THEN {} ELSE Round(0)])
  /\ SetStatus(c, [Shown(c) EXCEPT !.phase = "statistics", !.total = Ops * UnivCount])
  /\ UNCHANGED <<lock, active, lost>>

\* One operation has gone through all universities.
OperationDone(c) ==
  /\ call[c].pc = "statistics"
  /\ call[c].inflight = {} /\ call[c].op < Ops /\ call[c].asked = UnivCount
  /\ Move(c, [call[c] EXCEPT !.op = @ + 1, !.asked = 0,
                             !.inflight = IF call[c].op + 1 < Ops THEN Round(0) ELSE {}])
  /\ UNCHANGED <<lock, active, status, lost>>

\* Every call of a positive total has failed; the total is read back from the
\* shared status.
Slip_AllFailed(c) == Shown(c).total > 0 /\ call[c].statsFailures > Shown(c).total
AllFailed(c) == Shown(c).total > 0 /\ call[c].statsFailures >= Shown(c).total

\* All statistics have been asked for.
StatisticsDone(c) ==
  /\ call[c].pc = "statistics" /\ call[c].inflight = {} /\ call[c].op = Ops
  /\ IF AllFailed(c)
     THEN /\ Move(c, Forget(c, "saving"))
          /\ SetStatus(c, [Shown(c) EXCEPT !.state = "failed", !.phase = "done"])
     ELSE /\ Move(c, [call[c] EXCEPT !.pc = "finalizing"])
          /\ SetStatus(c, [Shown(c) EXCEPT !.phase = "finalizing"])
  /\ UNCHANGED <<lock, active, lost>>

Finalize(c) ==
  /\ call[c].pc = "finalizing"
  /\ Move(c, [call[c] EXCEPT !.pc = "saving"])
  /\ SetStatus(c, [Shown(c) EXCEPT
       !.state = IF call[c].warned THEN "completed_with_warnings" ELSE "completed",
       !.phase = "done"])
  /\ UNCHANGED <<lock, active, lost>>

\* saveBatchLog: the entry is written, or the error only goes to the console.
SaveBatchLog(c) ==
  /\ call[c].pc = "saving"
  /\ Move(c, Forget(c, "releasing"))
  /\ UNCHANGED <<lock, active, status, lost>>

\* A mistake would be to give the lock back only after a success.
Slip_LockAfter(c) == IF lock = c /\ Shown(c).state # "failed" THEN NULL ELSE lock
LockAfter(c) == IF lock = c THEN NULL ELSE lock

\* The finally block of startBatch.  If pg_advisory_unlock cannot be sent the
\* session is gone, and its lock with it.
ReleaseBatchLock(c) ==
  /\ call[c].pc = "releasing"
  /\ lock' = LockAfter(c)
  /\ active' = [active EXCEPT ![call[c].at] = NULL]
  /\ Move(c, Idle)
  /\ UNCHANGED <<status, lost>>

-----------------------------------------------------------------------------
(* Faults                                                                  *)

\* The session that holds the lock breaks; the run does not notice.
Disconnect(c) ==
  /\ lock = c
  /\ lock' = NULL
  /\ lost < MaxLost
  /\ lost' = lost + 1
  /\ UNCHANGED <<call, active, status>>

\* A process dies and comes back: its calls, flag and status are gone, its
\* sessions end.
Crash(p) ==
  /\ \E c \in Calls : call[c].at = p
  /\ call' = [c \in Calls |-> IF call[c].at = p THEN Idle ELSE call[c]]
  /\ lock' = IF lock # NULL /\ call[lock].at = p THEN NULL ELSE lock
  /\ active' = [active EXCEPT ![p] = NULL]
  /\ status' = [status EXCEPT ![p] = InitialStatus]
  /\ UNCHANGED lost

-----------------------------------------------------------------------------

BatchInit ==
  /\ call = [c \in Calls |-> Idle]
  /\ lock = NULL
  /\ active = [p \in Procs |-> NULL]
  /\ status = [p \in Procs |-> InitialStatus]
  /\ lost = 0

\* What the event loop does for a call once it is accepted.
Step(c) ==
  \/ AcquireLock(c) \/ Refuse(c)
  \/ Fail(c) \/ NoData(c) \/ YearFound(c) \/ UniversitiesSynced(c)
  \/ Retry(c)
  \/ \E u \in 1..UnivCount, ok \in BOOLEAN : Answer(c, u, ok)
  \/ NextRound(c) \/ DepartmentsDone(c) \/ OperationDone(c) \/ StatisticsDone(c)
  \/ Finalize(c)
  \/ SaveBatchLog(c)
  \/ ReleaseBatchLock(c)

BatchNext ==
  \/ \E c \in Calls : Step(c) \/ Disconnect(c)
  \/ \E p \in Procs : Crash(p) \/ \E c \in Calls : StartBatch(c, p)

\* Requests time out after 30 s and awaits resolve, so an accepted call goes on
\* unless its process dies.  Nobody has to start a batch and nothing has to break.
BatchFair == \A c \in Calls : WF_bvars(Step(c))

-----------------------------------------------------------------------------

BatchTypeOK ==
  /\ \A c \in Calls :
       /\ call[c].pc \in {"idle", "locking", "saving", "releasing"} \cup Phases
       /\ call[c].at \in Procs \cup {NULL}
       /\ call[c].offset \in 0..Lookback /\ call[c].attempt \in 1..MaxAttempts
       /\ call[c].op \in 0..Ops /\ call[c].asked \in 0..UnivCount
       /\ call[c].inflight \subseteq 1..UnivCount
       /\ call[c].warned \in BOOLEAN /\ call[c].statsFailures \in 0..(Ops * UnivCount)
  /\ lock \in Calls \cup {NULL}
  /\ active \in [Procs -> Calls \cup {NULL}]
  /\ status \in [Procs -> [state : {"idle", "running", "no_data", "failed", "completed",
                                    "completed_with_warnings"},
                           phase : {"idle", "done"} \cup Phases,
                           total : Nat]]
  /\ lost \in 0..MaxLost

\* Over all processes one batch runs at a time ("the batch is already running",
\* alimi.service.ts:1568): two overlap only after a session that held the lock
\* has died.
OneBatch ==
  \A c, d \in Calls : Running(c) /\ Running(d) /\ c # d => lost > 0

\* The status never says "running" when nothing runs: the client polls until it
\* changes, so a stale one would be polled forever.
RunningIsReal ==
  \A p \in Procs :
    status[p].state = "running" =>
      \E c \in Calls : call[c].at = p /\ call[c].pc \in Phases

\* The final status tells what happened to the calls of the run: "completed"
\* without a single failure, "with warnings" only when some statistics arrived
\* (or none were asked for).
HonestStatus ==
  \A c \in Calls :
    call[c].pc = "saving" /\ lost = 0 =>
      /\ Shown(c).state = "completed" => ~call[c].warned
      /\ Shown(c).state \in {"completed", "completed_with_warnings"} =>
           Ops = 0 \/ call[c].statsFailures < Ops * UnivCount
      /\ Shown(c).phase = "done"

\* The two together: the status is true while a run lasts and when it is over.
StatusIsTrue == RunningIsReal /\ HonestStatus

\* A started batch ends, with the lock given back: retries are bounded, every error
\* is caught and whoever crashes loses the session that holds the lock.
BatchEnds ==
  \A c \in Calls : call[c].pc # "idle" \/ lock = c ~> call[c].pc = "idle" /\ lock # c
=============================================================================
