---------------------------- MODULE Alimi_proofs ----------------------------
(***************************************************************************)
(* Theorems about the public-disclosure batch.                             *)
(* - A run (BatchInv): whoever is in a phase of a run holds the lock, up   *)
(*   to the sessions lost with it; a status "running" has a run behind it; *)
(*   and what a run has counted so far (Counted) makes its final status    *)
(*   true.  StepLock, StepTypes and StepEndsStatus say what one step of a  *)
(*   call may do to the lock, its locals and the status.                   *)
(* - Its jobs (IngestInv): a job that looks for a metric owns the open     *)
(*   promise of its name, and nobody else does; a job about to insert has  *)
(*   found nothing under the category cached now.  Frame says what a step  *)
(*   of one job leaves alone, and FrameKeepsIngest that this suffices.     *)
(***************************************************************************)
EXTENDS MCAlimi, FiniteSetTheorems, WellFoundedInduction, TLAPS

LEMMA Sizes ==
  /\ UnivCount \in Nat /\ UnivCount >= 1 /\ Concurrency \in Nat /\ Concurrency >= 1
  /\ MaxAttempts \in Nat /\ MaxAttempts >= 1 /\ 1 \in 1..MaxAttempts
  /\ Ops \in Nat /\ Lookback \in Nat /\ MaxLost \in Nat /\ NULL \notin Calls
BY Assumption

USE Sizes

-----------------------------------------------------------------------------
(* The locals of a call.                                                   *)

Pcs == {"idle", "locking", "saving", "releasing"} \cup Phases

CallRecord ==
  [pc : Pcs, at : Procs \cup {NULL}, offset : 0..Lookback, attempt : 1..MaxAttempts,
   op : 0..Ops, asked : 0..UnivCount, inflight : SUBSET (1..UnivCount),
   warned : BOOLEAN, statsFailures : 0..(Ops * UnivCount)]

\* A university on the wire has not been counted as asked, and only statistics calls
\* that were asked for have failed.
Counted(r) ==
  /\ r.asked + Cardinality(r.inflight) <= UnivCount
  /\ r.pc = "departments" => r.statsFailures = 0
  /\ r.pc \in {"locking", "checking", "universities"} => r.asked = 0 /\ r.statsFailures = 0
  /\ r.pc \notin {"departments", "statistics"} => r.inflight = {}
  /\ r.pc = "statistics" =>
       /\ r.statsFailures <= r.op * UnivCount + r.asked
       /\ r.op = Ops => r.asked = 0 /\ r.inflight = {}

CallOK(r) == r \in CallRecord /\ Counted(r) /\ (r.pc # "idle" => r.at \in Procs)

StatusRecord ==
  [state : {"idle", "running", "no_data", "failed", "completed", "completed_with_warnings"},
   phase : {"idle", "done"} \cup Phases,
   total : Nat]

\* Products of the two counts, which the solver does not do by itself.
LEMMA Products ==
  /\ Ops * UnivCount \in Nat
  /\ 0 * UnivCount = 0
  /\ Ops # 0 => Ops * UnivCount > 0
  /\ \A k \in Nat : /\ k * UnivCount \in Nat
                    /\ (k + 1) * UnivCount = k * UnivCount + UnivCount
                    /\ k <= Ops => k * UnivCount <= Ops * UnivCount
<1>1. Ops \in Nat /\ UnivCount \in Nat
  OBVIOUS
<1>2. \A k \in Nat, n \in Nat :
        k * n \in Nat /\ (k + 1) * n = k * n + n /\ 0 * n = 0
  BY SMT
<1>3. \A k, m, n \in Nat : k <= m => k * n <= m * n
  BY SMT
<1>4. Ops # 0 => 1 * UnivCount <= Ops * UnivCount /\ 1 * UnivCount = UnivCount
  BY <1>1, <1>3
<1> QED
  BY <1>1, <1>2, <1>3, <1>4

LEMMA IdleIsOK ==
  ASSUME NEW p \in Procs \cup {NULL}, NEW pc \in Pcs,
         pc # "idle" => p \in Procs, pc # "statistics" 
  PROVE  CallOK([Idle EXCEPT !.pc = pc, !.at = p]) /\ CallOK(Idle)
<1> DEFINE new == [Idle EXCEPT !.pc = pc, !.at = p]
<1>1. Cardinality({}) = 0
  BY FS_EmptySet
<1>2. 0 \in 0..(Ops * UnivCount) /\ 0 \in 0..Lookback /\ 0 \in 0..Ops /\ 0 \in 0..UnivCount
  BY Products
<1>3. Idle \in CallRecord
  BY <1>2 DEF CallRecord, Idle, Pcs
<1>4. /\ Idle.pc = "idle" /\ Idle.asked = 0 /\ Idle.inflight = {} /\ Idle.statsFailures = 0
  BY DEF Idle
<1>5. /\ new \in CallRecord /\ new.pc = pc /\ new.at = p
      /\ new.asked = 0 /\ new.inflight = {} /\ new.statsFailures = 0
  BY <1>3, <1>4 DEF CallRecord
<1> HIDE DEF new
<1>6. Counted(new) /\ Counted(Idle)
  BY <1>1, <1>4, <1>5 DEF Counted
<1> QED
  BY <1>3, <1>4, <1>5, <1>6 DEF CallOK, new

LEMMA RoundSize ==
  ASSUME NEW n \in 0..UnivCount
  PROVE  /\ Round(n) \in SUBSET (1..UnivCount)
         /\ Cardinality(Round(n)) \in Nat
         /\ n + Cardinality(Round(n)) <= UnivCount
<1> DEFINE last == Smaller(n + Concurrency, UnivCount)
<1>1. last \in Nat /\ n <= last /\ last <= UnivCount
  BY DEF Smaller
<1> HIDE DEF last
<1>2. Cardinality((n + 1)..last) = IF n + 1 > last THEN 0 ELSE last - (n + 1) + 1
  BY <1>1, FS_Interval
<1>3. Round(n) = (n + 1)..last
  BY DEF Round, last
<1> QED
  BY <1>1, <1>2, <1>3

LEMMA InflightSize ==
  ASSUME NEW r \in CallRecord
  PROVE  /\ IsFiniteSet(r.inflight) /\ Cardinality(r.inflight) \in Nat
         /\ \A u \in r.inflight : Cardinality(r.inflight \ {u}) = Cardinality(r.inflight) - 1
<1>1. r.inflight \in SUBSET (1..UnivCount)
  BY DEF CallRecord
<1>2. IsFiniteSet(1..UnivCount)
  BY FS_Interval
<1> QED
  BY <1>1, <1>2, FS_Subset, FS_CardinalityType, FS_RemoveElement

\* What a step of an accepted call makes of its locals.
Becomes(c, new) == Move(c, new) /\ CallOK(new) /\ (new = Idle \/ new.at = call[c].at)

LEMMA StepMoves ==
  ASSUME NEW c \in Calls, CallOK(call[c]), Step(c)
  PROVE  \E new : Becomes(c, new)
<1> DEFINE r == call[c]
<1>1. /\ r \in CallRecord /\ Counted(r) /\ (r.pc # "idle" => r.at \in Procs)
      /\ r.at \in Procs \cup {NULL} /\ r.op \in Nat /\ r.op <= Ops /\ r.asked \in 0..UnivCount
      /\ r.statsFailures \in Nat
  <2>1. 0..(Ops * UnivCount) \subseteq Nat
    BY Products
  <2> QED
    BY <2>1 DEF CallOK, CallRecord
<1>2. ASSUME NEW pc \in {"saving", "releasing"}, r.pc # "idle", Move(c, Forget(c, pc))
      PROVE  \E new : Becomes(c, new)
  <2>1. CallOK([Idle EXCEPT !.pc = pc, !.at = call[c].at])
    BY <1>1, <1>2, IdleIsOK DEF Pcs
  <2>2. [Idle EXCEPT !.pc = pc, !.at = call[c].at].at = call[c].at
    BY DEF Idle
  <2> QED
    BY <1>2, <2>1, <2>2 DEF Becomes, Forget
<1>3. ASSUME Move(c, Idle) PROVE \E new : Becomes(c, new)
  BY <1>3, IdleIsOK DEF Becomes, Pcs
<1>4. CASE AcquireLock(c)
  <2>1. CallOK([r EXCEPT !.pc = "checking"])
    BY <1>1, <1>4 DEF AcquireLock, CallOK, CallRecord, Counted, Pcs, Phases
  <2>2. [r EXCEPT !.pc = "checking"].at = r.at
    BY <1>1 DEF CallRecord
  <2> QED
    BY <1>4, <2>1, <2>2 DEF AcquireLock, Becomes
<1>5. CASE Refuse(c)
  BY <1>3, <1>5 DEF Refuse
<1>6. CASE Fail(c)
  BY <1>2, <1>6 DEF Fail, Phases
<1>7. CASE Retry(c)
  <2> DEFINE new == [r EXCEPT !.attempt = @ + 1]
  <2>1. CallOK(new) /\ new.at = r.at
    BY <1>1, <1>7 DEF Retry, CallOK, CallRecord, Counted, Pcs, Phases
  <2> QED
    BY <1>7, <2>1 DEF Retry, Becomes
<1>8. CASE NoData(c)
  <2> DEFINE new == [r EXCEPT !.offset = r.offset + 1, !.attempt = 1]
  <2>1. CASE YearsLeft(c)
    <3>1. new \in CallRecord
      <4>1. r.offset + 1 \in 0..Lookback
        BY <1>1, <2>1 DEF YearsLeft, CallRecord
      <4> QED
        BY <1>1, <4>1 DEF CallRecord
    <3>3. Counted(new) /\ new.at = r.at /\ new.pc = r.pc
      BY <1>1 DEF CallRecord, Counted
    <3>4. CallOK(new) /\ new.at = r.at
      <4> HIDE DEF new
      <4> QED
        BY <1>1, <3>1, <3>3 DEF CallOK
    <3>2. Move(c, new)
      BY <1>8, <2>1 DEF NoData
    <3> QED
      BY <3>2, <3>4 DEF Becomes
  <2>2. CASE ~YearsLeft(c)
    BY <1>2, <1>8, <2>2 DEF NoData
  <2> QED
    BY <2>1, <2>2
<1>9. CASE YearFound(c)
  <2> DEFINE new == [r EXCEPT !.pc = "universities", !.attempt = 1]
  <2>1. r.pc = "checking" /\ Move(c, new)
    BY <1>9 DEF YearFound
  <2>2. new \in CallRecord
    BY <1>1 DEF CallRecord, Pcs, Phases
  <2>3. Counted(new) /\ new.at = r.at
    BY <1>1, <2>1 DEF CallRecord, Counted
  <2> HIDE DEF new
  <2> QED
    BY <1>1, <2>1, <2>2, <2>3 DEF Becomes, CallOK
<1>10. CASE UniversitiesSynced(c)
  <2> DEFINE new == [r EXCEPT !.pc = "departments", !.inflight = Round(0)]
  <2>1. CallOK(new) /\ new.at = r.at
    BY <1>1, <1>10, RoundSize DEF UniversitiesSynced, CallOK, CallRecord, Counted, Pcs, Phases
  <2> QED
    BY <1>10, <2>1 DEF UniversitiesSynced, Becomes
<1>11. ASSUME NEW u \in 1..UnivCount, NEW ok \in BOOLEAN, Answer(c, u, ok)
       PROVE  \E new : Becomes(c, new)
  <2> DEFINE stats == r.pc = "statistics"
             new == [r EXCEPT !.inflight = @ \ {u}, !.asked = @ + 1, !.warned = @ \/ ~ok,
                              !.statsFailures = IF stats /\ ~ok THEN @ + 1 ELSE @]
  <2>1. u \in r.inflight /\ Move(c, new)
    BY <1>11 DEF Answer
  <2>2. /\ Cardinality(r.inflight) \in Nat
        /\ Cardinality(r.inflight \ {u}) = Cardinality(r.inflight) - 1
        /\ Cardinality(r.inflight \ {u}) \in Nat
    <3>1. IsFiniteSet(r.inflight) /\ IsFiniteSet(r.inflight \ {u})
      BY <1>1, InflightSize, FS_Subset
    <3> QED
      BY <1>1, <2>1, <3>1, InflightSize, FS_CardinalityType
  <2>3. /\ r.asked + 1 \in 0..UnivCount
        /\ r.asked + 1 + Cardinality(r.inflight \ {u}) <= UnivCount
    BY <1>1, <2>2 DEF CallRecord, Counted
  <2>4. stats => r.op < Ops /\ r.statsFailures <= r.op * UnivCount + r.asked
    BY <1>1, <2>1 DEF CallRecord, Counted
  <2>5. stats => r.statsFailures + 1 \in 0..(Ops * UnivCount)
    <3>1. stats => (r.op + 1) * UnivCount = r.op * UnivCount + UnivCount
                   /\ (r.op + 1) * UnivCount <= Ops * UnivCount
                   /\ r.op * UnivCount \in Nat
      <4>1. stats => r.op + 1 \in Nat /\ r.op + 1 <= Ops
        BY <1>1, <2>4
      <4> QED
        BY <1>1, <4>1, Products
    <3> QED
      BY <1>1, <2>3, <2>4, <3>1, Products DEF CallRecord
  <2>6. /\ new.pc = r.pc /\ new.at = r.at /\ new.inflight = r.inflight \ {u} /\ new.op = r.op
        /\ new.asked = r.asked + 1
        /\ new.statsFailures = IF stats /\ ~ok THEN r.statsFailures + 1 ELSE r.statsFailures
        /\ new.statsFailures \in 0..(Ops * UnivCount)
    BY <1>1, <2>5 DEF CallRecord
  <2>7. new \in CallRecord
    BY <1>1, <2>3, <2>5 DEF CallRecord
  <2> HIDE DEF new
  <2>8. r.pc \notin {"locking", "checking", "universities"}
    BY <1>1, <2>1 DEF Counted
  <2>9. r.op * UnivCount \in Nat
    BY <1>1, Products
  <2>10. stats => new.statsFailures <= new.op * UnivCount + new.asked
    BY <1>1, <2>4, <2>6, <2>9 DEF CallRecord
  <2>11. Counted(new)
    BY <1>1, <2>3, <2>4, <2>6, <2>8, <2>10 DEF Counted
  <2> QED
    BY <1>1, <2>1, <2>6, <2>7, <2>11 DEF Becomes, CallOK
<1>12. CASE NextRound(c)
  <2> DEFINE new == [r EXCEPT !.inflight = Round(r.asked)]
  <2>1. /\ r.pc \in {"departments", "statistics"} /\ r.asked \in 0..UnivCount
        /\ ~(r.pc = "statistics" /\ r.op = Ops) /\ Move(c, new)
    BY <1>1, <1>12 DEF NextRound, CallRecord
  <2>2. new \in CallRecord
    BY <1>1, <2>1, RoundSize DEF CallRecord
  <2>3. Counted(new) /\ new.at = r.at /\ new.pc = r.pc
    BY <1>1, <2>1, RoundSize DEF CallRecord, Counted
  <2> HIDE DEF new
  <2> QED
    BY <1>1, <2>1, <2>2, <2>3 DEF Becomes, CallOK
<1>13. CASE DepartmentsDone(c)
  <2> DEFINE wire == IF Ops = 0 THEN {} ELSE Round(0)
             new == [r EXCEPT !.pc = "statistics", !.asked = 0, !.op = 0, !.inflight = wire]
  <2>1. r.pc = "departments" /\ Move(c, new)
    BY <1>13 DEF DepartmentsDone
  <2>2. wire \in SUBSET (1..UnivCount) /\ Cardinality(wire) <= UnivCount
        /\ (Ops = 0 => wire = {}) /\ Cardinality(wire) \in Nat
    BY RoundSize, FS_EmptySet
  <2> HIDE DEF wire
  <2>3. new \in CallRecord
    <3>1. 0 \in 0..Ops /\ 0 \in 0..UnivCount /\ "statistics" \in Pcs
      BY DEF Pcs, Phases
    <3> QED
      BY <1>1, <2>2, <3>1 DEF CallRecord
  <2>4. /\ new.at = r.at /\ new.pc = "statistics" /\ new.asked = 0 /\ new.op = 0
        /\ new.inflight = wire /\ new.statsFailures = 0
    BY <1>1, <2>1 DEF CallRecord, Counted
  <2> HIDE DEF new
  <2>5. Counted(new)
    BY <2>2, <2>4, Products DEF Counted
  <2> QED
    BY <1>1, <2>1, <2>3, <2>4, <2>5 DEF Becomes, CallOK
<1>14. CASE OperationDone(c)
  <2> DEFINE wire == IF r.op + 1 < Ops THEN Round(0) ELSE {}
             new == [r EXCEPT !.op = @ + 1, !.asked = 0, !.inflight = wire]
  <2>1. /\ r.pc = "statistics" /\ r.op < Ops /\ r.asked = UnivCount /\ Move(c, new)
    BY <1>14 DEF OperationDone
  <2>2. wire \in SUBSET (1..UnivCount) /\ Cardinality(wire) <= UnivCount
        /\ (r.op + 1 = Ops => wire = {}) /\ Cardinality(wire) \in Nat
    BY RoundSize, FS_EmptySet
  <2> HIDE DEF wire
  <2>3. new \in CallRecord
    <3>1. r.op + 1 \in 0..Ops /\ 0 \in 0..UnivCount
      BY <1>1, <2>1
    <3> QED
      BY <1>1, <2>2, <3>1 DEF CallRecord
  <2>4. (r.op + 1) * UnivCount = r.op * UnivCount + UnivCount /\ r.op * UnivCount \in Nat
    BY <1>1, Products
  <2>5. r.statsFailures <= (r.op + 1) * UnivCount + 0
    BY <1>1, <2>1, <2>4 DEF CallRecord, Counted
  <2>6. Counted(new) /\ new.at = r.at /\ new.pc = r.pc
    BY <1>1, <2>1, <2>2, <2>5 DEF CallRecord, Counted
  <2> HIDE DEF new
  <2> QED
    BY <1>1, <2>1, <2>3, <2>6 DEF Becomes, CallOK
<1>15. CASE StatisticsDone(c)
  <2> DEFINE new == [r EXCEPT !.pc = "finalizing"]
  <2>1. CASE AllFailed(c)
    BY <1>2, <1>15, <2>1 DEF StatisticsDone
  <2>2. CASE ~AllFailed(c)
    <3>1. CallOK(new) /\ new.at = r.at
      BY <1>1, <1>15 DEF StatisticsDone, CallOK, CallRecord, Counted, Pcs, Phases
    <3>2. Move(c, new)
      BY <1>15, <2>2 DEF StatisticsDone
    <3> QED
      BY <3>1, <3>2 DEF Becomes
  <2> QED
    BY <2>1, <2>2
<1>16. CASE Finalize(c)
  <2> DEFINE new == [r EXCEPT !.pc = "saving"]
  <2>1. CallOK(new) /\ new.at = r.at
    BY <1>1, <1>16 DEF Finalize, CallOK, CallRecord, Counted, Pcs, Phases
  <2> QED
    BY <1>16, <2>1 DEF Finalize, Becomes
<1>17. CASE SaveBatchLog(c)
  BY <1>2, <1>17 DEF SaveBatchLog
<1>18. CASE ReleaseBatchLock(c)
  BY <1>3, <1>18 DEF ReleaseBatchLock
<1> QED
  BY <1>4, <1>5, <1>6, <1>7, <1>8, <1>9, <1>10, <1>11, <1>12, <1>13, <1>14, <1>15, <1>16,
     <1>17, <1>18 DEF Step

-----------------------------------------------------------------------------
(* Types.                                                                  *)

BatchTypes ==
  /\ call \in [Calls -> CallRecord]
  /\ \A c \in Calls : CallOK(call[c])
  /\ lock \in Calls \cup {NULL}
  /\ active \in [Procs -> Calls \cup {NULL}]
  /\ status \in [Procs -> StatusRecord]
  /\ lost \in 0..MaxLost

LEMMA TypesImply == BatchTypes => BatchTypeOK
BY DEF BatchTypes, BatchTypeOK, CallRecord, StatusRecord, Pcs

\* What a step may do to the status.
LEMMA StepStatus ==
  ASSUME BatchTypes, NEW c \in Calls, Step(c), call[c].at \in Procs
  PROVE  \/ status' = status
         \/ \E s \in StatusRecord : SetStatus(c, s)
<1> DEFINE s == status[call[c].at]
<1>1. s \in StatusRecord /\ s.state \in {"idle", "running", "no_data", "failed", "completed",
                                         "completed_with_warnings"}
  BY DEF BatchTypes, StatusRecord
<1> HIDE DEF s
<1>2. CASE AcquireLock(c)
  <2> DEFINE new == [InitialStatus EXCEPT !.state = "running", !.phase = "checking",
                                          !.total = Lookback + 1]
  <2>1. new \in StatusRecord
    <3>1. InitialStatus \in StatusRecord /\ Lookback + 1 \in Nat
      BY DEF InitialStatus, StatusRecord
    <3> QED
      BY <3>1 DEF StatusRecord, Phases
  <2>2. SetStatus(c, new)
    BY <1>2 DEF AcquireLock
  <2> QED
    BY <2>1, <2>2
<1>3. CASE Refuse(c) \/ Retry(c) \/ OperationDone(c) \/ SaveBatchLog(c) \/ ReleaseBatchLock(c)
  BY <1>3 DEF Refuse, Retry, OperationDone, SaveBatchLog, ReleaseBatchLock
<1>4. ASSUME NEW state \in {"no_data", "failed", "completed", "completed_with_warnings"},
             NEW total \in Nat
      PROVE  /\ [s EXCEPT !.state = state, !.phase = "done"] \in StatusRecord
             /\ [s EXCEPT !.state = state, !.phase = "done", !.total = total] \in StatusRecord
  BY <1>1 DEF StatusRecord
<1>5. ASSUME NEW phase \in Phases, NEW total \in Nat
      PROVE  /\ [s EXCEPT !.phase = phase] \in StatusRecord
             /\ [s EXCEPT !.phase = phase, !.total = total] \in StatusRecord
             /\ [s EXCEPT !.total = total] \in StatusRecord
  BY <1>1 DEF StatusRecord
<1>6. UnivCount \in Nat /\ Ops * UnivCount \in Nat /\ Lookback + 1 \in Nat /\ s.total \in Nat
  BY <1>1, Products DEF StatusRecord
<1>7. CASE Fail(c)
  BY <1>4, <1>6, <1>7 DEF Fail, Shown, s
<1>8. CASE NoData(c)
  BY <1>4, <1>5, <1>6, <1>8 DEF NoData, Shown, s, Phases
<1>9. CASE YearFound(c)
  BY <1>5, <1>6, <1>9 DEF YearFound, Shown, s, Phases
<1>10. CASE UniversitiesSynced(c)
  BY <1>5, <1>6, <1>10 DEF UniversitiesSynced, Shown, s, Phases
<1>11. ASSUME NEW u \in 1..UnivCount, NEW ok \in BOOLEAN, Answer(c, u, ok)
       PROVE  \E new \in StatusRecord : SetStatus(c, new)
  <2> DEFINE total == IF call[c].pc = "statistics" THEN Ops * UnivCount ELSE s.total
  <2>1. total \in Nat
    BY <1>6
  <2>2. [s EXCEPT !.total = total] \in StatusRecord
    <3> HIDE DEF total
    <3> QED
      BY <2>1, <1>1 DEF StatusRecord
  <2>3. SetStatus(c, [s EXCEPT !.total = total])
    BY <1>11 DEF Answer, Shown, s
  <2> QED
    BY <2>2, <2>3
<1>12. CASE NextRound(c)
  <2>1. SetStatus(c, [s EXCEPT !.total = UnivCount]) \/ SetStatus(c, s)
    BY <1>12 DEF NextRound, Shown, s
  <2> QED
    BY <1>1, <1>5, <1>6, <2>1 DEF Phases
<1>13. CASE DepartmentsDone(c)
  BY <1>5, <1>6, <1>13 DEF DepartmentsDone, Shown, s, Phases
<1>14. CASE StatisticsDone(c)
  BY <1>4, <1>5, <1>6, <1>14 DEF StatisticsDone, Shown, s, Phases
<1>15. CASE Finalize(c)
  <2>1. PICK state \in {"completed", "completed_with_warnings"} :
          SetStatus(c, [s EXCEPT !.state = state, !.phase = "done"])
    BY <1>15 DEF Finalize, Shown, s
  <2> QED
    BY <1>4, <1>6, <2>1
<1> QED
  BY <1>2, <1>3, <1>7, <1>8, <1>9, <1>10, <1>11, <1>12, <1>13, <1>14, <1>15 DEF Step

\* What it does to the lock, and whether the call runs.
Acquires(c) == AcquireLock(c) /\ lock = NULL /\ lock' = c /\ ~Running(c)
Gives(c) == ReleaseBatchLock(c) /\ lock' = (IF lock = c THEN NULL ELSE lock) /\ call'[c].pc = "idle"
Stays(c) == lock' = lock /\ Running(c) /\ call'[c].pc \in Phases \cup {"saving", "releasing"}
Leaves(c) == Refuse(c) /\ lock' = lock /\ status' = status /\ ~Running(c) /\ call'[c].pc = "idle"

LEMMA StepLock ==
  ASSUME BatchTypes, NEW c \in Calls, Step(c)
  PROVE  /\ lost' = lost /\ call[c].pc # "idle"
         /\ Acquires(c) \/ Gives(c) \/ Stays(c) \/ Leaves(c)
<1>1. call[c] \in CallRecord /\ Counted(call[c])
  BY DEF BatchTypes, CallOK
<1>2. \A new : Move(c, new) => call'[c] = new
  BY DEF Move, BatchTypes
<1>3. \A pc : Forget(c, pc).pc = pc
  BY DEF Forget, Idle
<1>4. Idle.pc = "idle"
  BY DEF Idle
<1>5. CASE AcquireLock(c)
  BY <1>5 DEF AcquireLock, LockIsFree, Acquires, Running, Phases
<1>6. CASE Refuse(c)
  BY <1>2, <1>4, <1>6 DEF Refuse, Leaves, Running, Phases
<1>7. CASE ReleaseBatchLock(c)
  BY <1>2, <1>4, <1>7 DEF ReleaseBatchLock, LockAfter, Gives
<1>8. CASE Fail(c) \/ SaveBatchLog(c)
  BY <1>2, <1>3, <1>8 DEF Fail, SaveBatchLog, Stays, Running, Phases
<1>9. CASE NoData(c)
  <2>1. \/ Move(c, Forget(c, "saving"))
        \/ Move(c, [call[c] EXCEPT !.offset = call[c].offset + 1, !.attempt = 1])
    BY <1>9 DEF NoData
  <2>2. [call[c] EXCEPT !.offset = call[c].offset + 1, !.attempt = 1].pc = call[c].pc
    BY <1>1 DEF CallRecord
  <2>3. call'[c].pc \in {"checking", "saving"}
    BY <1>2, <1>3, <1>9, <2>1, <2>2 DEF NoData
  <2> QED
    BY <1>9, <2>3 DEF NoData, Stays, Running, Phases
<1>10. CASE StatisticsDone(c)
  <2>1. \/ Move(c, Forget(c, "saving"))
        \/ Move(c, [call[c] EXCEPT !.pc = "finalizing"])
    BY <1>10 DEF StatisticsDone
  <2>2. [call[c] EXCEPT !.pc = "finalizing"].pc = "finalizing"
    BY <1>1 DEF CallRecord
  <2>3. call'[c].pc \in {"finalizing", "saving"}
    BY <1>2, <1>3, <2>1, <2>2
  <2> QED
    BY <1>10, <2>3 DEF StatisticsDone, Stays, Running, Phases
<1>11. CASE Retry(c)
  BY <1>1, <1>2, <1>11 DEF Retry, Stays, Running, Phases, CallRecord
<1>12. CASE YearFound(c)
  BY <1>1, <1>2, <1>12 DEF YearFound, Stays, Running, Phases, CallRecord
<1>13. CASE UniversitiesSynced(c)
  BY <1>1, <1>2, <1>13 DEF UniversitiesSynced, Stays, Running, Phases, CallRecord
<1>14. ASSUME NEW u \in 1..UnivCount, NEW ok \in BOOLEAN, Answer(c, u, ok)
       PROVE  lost' = lost /\ call[c].pc # "idle" /\ Stays(c)
  <2>1. call'[c].pc = call[c].pc /\ call[c].pc \in {"departments", "statistics"}
    BY <1>1, <1>2, <1>14 DEF Answer, Counted, CallRecord
  <2> QED
    BY <1>14, <2>1 DEF Answer, Stays, Running, Phases
<1>15. CASE NextRound(c)
  BY <1>1, <1>2, <1>15 DEF NextRound, Stays, Running, Phases, CallRecord
<1>16. CASE DepartmentsDone(c)
  BY <1>1, <1>2, <1>16 DEF DepartmentsDone, Stays, Running, Phases, CallRecord
<1>17. CASE OperationDone(c)
  BY <1>1, <1>2, <1>17 DEF OperationDone, Stays, Running, Phases, CallRecord
<1>18. CASE Finalize(c)
  BY <1>1, <1>2, <1>18 DEF Finalize, Stays, Running, Phases, CallRecord
<1> QED
  BY <1>5, <1>6, <1>7, <1>8, <1>9, <1>10, <1>11, <1>12, <1>13, <1>14, <1>15, <1>16, <1>17,
     <1>18 DEF Step

\* The two ways a status ends, and the one in which it goes on.
Ends(s, state) == [s EXCEPT !.state = state, !.phase = "done"]
EndsOf(s, state, total) == [s EXCEPT !.state = state, !.phase = "done", !.total = total]
GoesOn(s, phase, total) == [s EXCEPT !.phase = phase, !.total = total]

LEMMA StatusOf ==
  ASSUME NEW s \in StatusRecord, NEW state, NEW phase, NEW total
  PROVE  /\ Ends(s, state).state = state /\ Ends(s, state).phase = "done"
         /\ EndsOf(s, state, total).state = state /\ EndsOf(s, state, total).phase = "done"
         /\ GoesOn(s, phase, total).total = total
BY DEF StatusRecord, Ends, EndsOf, GoesOn

LEMMA InitTypes == BatchInit => BatchTypes
<1> SUFFICES ASSUME BatchInit PROVE BatchTypes
  OBVIOUS
<1>1. CallOK(Idle)
  BY IdleIsOK DEF Pcs
<1>2. \A c \in Calls : call[c] = Idle
  BY DEF BatchInit
<1>3. call \in [Calls -> CallRecord]
  BY <1>1 DEF BatchInit, CallOK
<1>4. InitialStatus \in StatusRecord
  BY DEF InitialStatus, StatusRecord
<1> QED
  BY <1>1, <1>2, <1>3, <1>4 DEF BatchInit, BatchTypes

\* A step of one call changes its locals and the status of its process only.
Others(c) ==
  /\ \A d \in Calls \ {c} : call'[d] = call[d]
  /\ \A p \in Procs \ {call[c].at} : status'[p] = status[p]
  /\ CallOK(call'[c])

LEMMA StepTypes ==
  ASSUME BatchTypes, NEW c \in Calls, Step(c)
  PROVE  BatchTypes' /\ Others(c) /\ call[c].at \in Procs
         /\ (call'[c].pc # "idle" => call'[c].at = call[c].at)
<1>1. call[c].at \in Procs
  BY StepLock DEF BatchTypes, CallOK
<1>2. PICK new : Becomes(c, new)
  BY StepMoves DEF BatchTypes
<1>3. /\ new \in CallRecord /\ CallOK(new) /\ call' = [call EXCEPT ![c] = new]
      /\ new = Idle \/ new.at = call[c].at
  BY <1>2 DEF Becomes, Move, CallOK
<1>4. /\ call' \in [Calls -> CallRecord] /\ call'[c] = new
      /\ \A d \in Calls \ {c} : call'[d] = call[d]
  BY <1>3 DEF BatchTypes
<1>5. \A d \in Calls : CallOK(call'[d])
  BY <1>3, <1>4 DEF BatchTypes
<1>6. /\ status' \in [Procs -> StatusRecord]
      /\ \A p \in Procs \ {call[c].at} : status'[p] = status[p]
  BY <1>1, StepStatus DEF SetStatus, BatchTypes
<1>7. lost' = lost /\ lock' \in Calls \cup {NULL}
  BY StepLock DEF Acquires, Gives, Stays, Leaves, BatchTypes
<1>8. active' \in [Procs -> Calls \cup {NULL}]
  <2>1. \/ active' = active
        \/ active' = [active EXCEPT ![call[c].at] = c]
        \/ active' = [active EXCEPT ![call[c].at] = NULL]
    BY DEF Step, AcquireLock, Refuse, Fail, NoData, YearFound, UniversitiesSynced, Retry, Answer,
           NextRound, DepartmentsDone, OperationDone, StatisticsDone, Finalize, SaveBatchLog,
           ReleaseBatchLock
  <2> QED
    BY <1>1, <2>1 DEF BatchTypes
<1>9. Idle.pc = "idle"
  BY DEF Idle
<1> QED
  BY <1>1, <1>3, <1>4, <1>5, <1>6, <1>7, <1>8, <1>9 DEF BatchTypes, Others

-----------------------------------------------------------------------------
(* One batch, and a true status.                                           *)

LockInv ==
  /\ \A c \in Calls : lock = c => Running(c)
  /\ lost = 0 => \A c \in Calls : Running(c) => lock = c

\* As long as no session was lost, what the final status will say is already so.
Honest(r, s) ==
  /\ r.pc = "statistics" => s.total = Ops * UnivCount
  /\ r.pc = "finalizing" => Ops = 0 \/ r.statsFailures < Ops * UnivCount
  /\ r.pc = "saving" =>
       /\ s.state = "completed" => ~r.warned
       /\ s.state \in {"completed", "completed_with_warnings"} =>
            Ops = 0 \/ r.statsFailures < Ops * UnivCount
       /\ s.phase = "done"

AllHonest == lost = 0 => \A c \in Calls : Honest(call[c], status[call[c].at])

BatchInv == BatchTypes /\ LockInv /\ RunningIsReal /\ AllHonest

LEMMA StepKeepsLock ==
  ASSUME BatchTypes, LockInv, NEW c \in Calls, Step(c)
  PROVE  LockInv'
<1>1. /\ \A d \in Calls \ {c} : call'[d] = call[d]
      /\ lost' = lost /\ lost \in 0..MaxLost
  BY StepTypes, StepLock DEF Others, BatchTypes
<1>2. \A d \in Calls \ {c} : Running(d)' <=> Running(d)
  BY <1>1 DEF Running
<1>3. CASE Acquires(c)
  <2>1. Running(c)'
    BY <1>3, StepTypes DEF Acquires, AcquireLock, Move, Running, BatchTypes, Phases, CallRecord
  <2> QED
    BY <1>1, <1>2, <1>3, <2>1 DEF Acquires, LockInv
<1>4. CASE Gives(c)
  <2>1. ~Running(c)'
    BY <1>4 DEF Gives, Running, Phases
  <2> QED
    BY <1>1, <1>2, <1>4, <2>1 DEF Gives, LockInv
<1>5. CASE Stays(c)
  <2>1. Running(c)'
    BY <1>5 DEF Stays, Running
  <2> QED
    BY <1>1, <1>2, <1>5, <2>1 DEF Stays, LockInv
<1>6. CASE Leaves(c)
  <2>1. ~Running(c)'
    BY <1>6 DEF Leaves, Running, Phases
  <2> QED
    BY <1>1, <1>2, <1>6, <2>1 DEF Leaves, LockInv
<1> QED
  BY <1>3, <1>4, <1>5, <1>6, StepLock

\* Whoever leaves the phases of a run ends the status "running" of its process.
LEMMA StepEndsStatus ==
  ASSUME BatchTypes, NEW c \in Calls, Step(c)
  PROVE  \/ call'[c].pc \in Phases
         \/ status' = status /\ call[c].pc \notin Phases
         \/ status'[call[c].at].state # "running"
<1> DEFINE s == status[call[c].at]
<1>1. /\ call[c] \in CallRecord /\ call[c].at \in Procs /\ s \in StatusRecord
      /\ \A new : Move(c, new) => call'[c] = new
      /\ \A new : SetStatus(c, new) => status'[call[c].at] = new
  BY StepTypes DEF BatchTypes, CallOK, Move, SetStatus
<1>2. \A state : Ends(s, state).state = state
  BY <1>1, StatusOf
<1>3. \A state, total : EndsOf(s, state, total).state = state
  BY <1>1, StatusOf
<1> HIDE DEF s
<1>4. CASE AcquireLock(c)
  BY <1>1, <1>4 DEF AcquireLock, CallRecord, Phases
<1>5. CASE Refuse(c) \/ SaveBatchLog(c) \/ ReleaseBatchLock(c)
  BY <1>5 DEF Refuse, SaveBatchLog, ReleaseBatchLock, Phases
<1>6. CASE Fail(c)
  <2>1. SetStatus(c, Ends(s, "failed"))
    BY <1>6 DEF Fail, Shown, s, Ends
  <2> QED
    BY <1>1, <1>2, <2>1
<1>7. CASE NoData(c)
  <2>1. CASE YearsLeft(c)
    BY <1>1, <1>7, <2>1 DEF NoData, CallRecord, Phases
  <2>2. CASE ~YearsLeft(c)
    <3>1. SetStatus(c, EndsOf(s, "no_data", Lookback + 1))
      BY <1>7, <2>2 DEF NoData, Shown, s, EndsOf
    <3> QED
      BY <1>1, <1>3, <3>1
  <2> QED
    BY <2>1, <2>2
<1>8. CASE StatisticsDone(c)
  <2>1. CASE AllFailed(c)
    <3>1. SetStatus(c, Ends(s, "failed"))
      BY <1>8, <2>1 DEF StatisticsDone, Shown, s, Ends
    <3> QED
      BY <1>1, <1>2, <3>1
  <2>2. CASE ~AllFailed(c)
    BY <1>1, <1>8, <2>2 DEF StatisticsDone, CallRecord, Phases
  <2> QED
    BY <2>1, <2>2
<1>9. CASE Finalize(c)
  <2>1. PICK state \in {"completed", "completed_with_warnings"} :
          SetStatus(c, Ends(s, state))
    BY <1>9 DEF Finalize, Shown, s, Ends
  <2> QED
    BY <1>1, <1>2, <2>1
<1>10. CASE Retry(c)
  BY <1>1, <1>10 DEF Retry, CallRecord, Phases
<1>11. CASE YearFound(c)
  BY <1>1, <1>11 DEF YearFound, CallRecord, Phases
<1>12. CASE UniversitiesSynced(c)
  BY <1>1, <1>12 DEF UniversitiesSynced, CallRecord, Phases
<1>13. CASE \E u \in 1..UnivCount, ok \in BOOLEAN : Answer(c, u, ok)
  <2>1. call[c].pc \in {"departments", "statistics"}
    BY <1>13 DEF BatchTypes, CallOK, Counted, Answer
  <2> QED
    BY <1>1, <1>13, <2>1 DEF Answer, CallRecord, Phases
<1>14. CASE NextRound(c)
  BY <1>1, <1>14 DEF NextRound, CallRecord, Phases
<1>15. CASE DepartmentsDone(c)
  BY <1>1, <1>15 DEF DepartmentsDone, CallRecord, Phases
<1>16. CASE OperationDone(c)
  BY <1>1, <1>16 DEF OperationDone, CallRecord, Phases
<1> QED
  BY <1>4, <1>5, <1>6, <1>7, <1>8, <1>9, <1>10, <1>11, <1>12, <1>13, <1>14, <1>15, <1>16
  DEF Step

LEMMA StepKeepsRunningReal ==
  ASSUME BatchTypes, RunningIsReal, NEW c \in Calls, Step(c)
  PROVE  RunningIsReal'
<1> SUFFICES ASSUME NEW p \in Procs, status'[p].state = "running"
             PROVE  \E d \in Calls : call'[d].at = p /\ call'[d].pc \in Phases
  BY DEF RunningIsReal, Phases
<1>1. /\ \A d \in Calls \ {c} : call'[d] = call[d]
      /\ p # call[c].at => status'[p] = status[p]
      /\ call'[c].pc # "idle" => call'[c].at = call[c].at
  BY StepTypes DEF Others
<1>2. CASE status'[p] = status[p] /\ (p = call[c].at => call[c].pc \notin Phases)
  <2>1. PICK d \in Calls : call[d].at = p /\ call[d].pc \in Phases
    BY <1>2 DEF RunningIsReal
  <2>2. d # c
    BY <1>2, <2>1
  <2> QED
    BY <1>1, <2>1, <2>2
<1>3. CASE p = call[c].at /\ call'[c].pc \in Phases
  BY <1>1, <1>3 DEF Phases
<1> QED
  BY <1>1, <1>2, <1>3, StepEndsStatus

\* What a call does keeps what its final status will say.
LEMMA StepIsHonest ==
  ASSUME BatchTypes, NEW c \in Calls, Step(c), Honest(call[c], status[call[c].at])
  PROVE  Honest(call'[c], status'[call'[c].at])
<1> DEFINE r == call[c]
           s == status[r.at]
           after == status'[r.at]
<1>1. /\ r \in CallRecord /\ Counted(r) /\ r.at \in Procs /\ s \in StatusRecord
      /\ \A new : Move(c, new) => call'[c] = new
      /\ \A new : SetStatus(c, new) => after = new
      /\ status' = status => after = s
      /\ call'[c].pc # "idle" => status'[call'[c].at] = after
  BY StepTypes DEF BatchTypes, CallOK, Move, SetStatus
<1>3. ASSUME call'[c].pc \notin {"statistics", "finalizing", "saving"}
      PROVE  Honest(call'[c], status'[call'[c].at])
  BY <1>3 DEF Honest
<1>4. \A pc : Forget(c, pc).pc = pc /\ Forget(c, pc).warned = FALSE /\ Forget(c, pc).statsFailures = 0
  BY DEF Forget, Idle
<1>5. \A state : Ends(s, state).state = state /\ Ends(s, state).phase = "done"
  BY <1>1, StatusOf
<1>6. \A state, total : EndsOf(s, state, total).state = state /\ EndsOf(s, state, total).phase = "done"
  BY <1>1, StatusOf
<1>7. /\ \A phase, total : GoesOn(s, phase, total).total = total
      /\ \A total : [s EXCEPT !.total = total].total = total
  BY <1>1, StatusOf DEF StatusRecord
<1>8. ASSUME call'[c].pc = "saving", after.state \in {"failed", "no_data"}, after.phase = "done"
      PROVE  Honest(call'[c], status'[call'[c].at])
  BY <1>1, <1>8 DEF Honest
<1> HIDE DEF after, s
<1>9. CASE AcquireLock(c)
  <2>1. call'[c].pc = "checking"
    BY <1>1, <1>9 DEF AcquireLock, CallRecord
  <2> QED
    BY <1>3, <2>1
<1>10. CASE Refuse(c) \/ ReleaseBatchLock(c)
  <2>1. call'[c].pc = "idle"
    BY <1>1, <1>10 DEF Refuse, ReleaseBatchLock, Idle
  <2> QED
    BY <1>3, <2>1
<1>11. CASE Fail(c)
  <2>1. Move(c, Forget(c, "saving")) /\ SetStatus(c, Ends(s, "failed"))
    BY <1>11 DEF Fail, Shown, s, Ends
  <2> QED
    BY <1>1, <1>4, <1>5, <1>8, <2>1
<1>12. CASE Retry(c)
  <2>1. call'[c].pc = "checking"
    BY <1>1, <1>12 DEF Retry, CallRecord
  <2> QED
    BY <1>3, <2>1
<1>13. CASE NoData(c)
  <2>1. CASE YearsLeft(c)
    <3>1. call'[c].pc = "checking"
      BY <1>1, <1>13, <2>1 DEF NoData, CallRecord
    <3> QED
      BY <1>3, <3>1
  <2>2. CASE ~YearsLeft(c)
    <3>1. /\ Move(c, Forget(c, "saving"))
          /\ SetStatus(c, EndsOf(s, "no_data", Lookback + 1))
      BY <1>13, <2>2 DEF NoData, Shown, s, EndsOf
    <3> QED
      BY <1>1, <1>4, <1>6, <1>8, <3>1
  <2> QED
    BY <2>1, <2>2
<1>14. CASE YearFound(c)
  <2>1. call'[c].pc = "universities"
    BY <1>1, <1>14 DEF YearFound, CallRecord
  <2> QED
    BY <1>3, <2>1
<1>15. CASE UniversitiesSynced(c)
  <2>1. call'[c].pc = "departments"
    BY <1>1, <1>15 DEF UniversitiesSynced, CallRecord
  <2> QED
    BY <1>3, <2>1
<1>16. ASSUME NEW u \in 1..UnivCount, NEW ok \in BOOLEAN, Answer(c, u, ok)
       PROVE  Honest(call'[c], status'[call'[c].at])
  <2>1. r.pc \in {"departments", "statistics"} /\ call'[c].pc = r.pc
    BY <1>1, <1>16 DEF Answer, Counted, CallRecord
  <2>2. r.pc = "statistics" => SetStatus(c, [s EXCEPT !.total = Ops * UnivCount])
    BY <1>16 DEF Answer, Shown, s
  <2>3. r.pc = "statistics" => after.total = Ops * UnivCount
    BY <1>1, <1>7, <2>2
  <2> QED
    BY <1>1, <1>3, <2>1, <2>3 DEF Honest
<1>17. CASE NextRound(c)
  <2>1. r.pc \in {"departments", "statistics"} /\ call'[c].pc = r.pc
    BY <1>1, <1>17 DEF NextRound, CallRecord
  <2>2. r.pc = "statistics" => SetStatus(c, s)
    BY <1>17 DEF NextRound, Shown, s
  <2>3. r.pc = "statistics" => after = s
    BY <1>1, <2>2
  <2> QED
    BY <1>1, <1>3, <2>1, <2>3 DEF Honest, s
<1>18. CASE DepartmentsDone(c)
  <2>1. call'[c].pc = "statistics"
    BY <1>1, <1>18 DEF DepartmentsDone, CallRecord
  <2>2. SetStatus(c, GoesOn(s, "statistics", Ops * UnivCount))
    BY <1>18 DEF DepartmentsDone, Shown, s, GoesOn
  <2>3. after.total = Ops * UnivCount
    BY <1>1, <1>7, <2>2
  <2> QED
    BY <1>1, <2>1, <2>3 DEF Honest
<1>19. CASE OperationDone(c)
  <2>1. call'[c].pc = "statistics" /\ r.pc = "statistics" /\ after = s
    BY <1>1, <1>19 DEF OperationDone, CallRecord
  <2> QED
    BY <1>1, <2>1 DEF Honest, s
<1>20. CASE StatisticsDone(c)
  <2>1. CASE AllFailed(c)
    <3>1. /\ Move(c, Forget(c, "saving"))
          /\ SetStatus(c, Ends(s, "failed"))
      BY <1>20, <2>1 DEF StatisticsDone, Shown, s, Ends
    <3> QED
      BY <1>1, <1>4, <1>5, <1>8, <3>1
  <2>2. CASE ~AllFailed(c)
    <3>1. call'[c].pc = "finalizing" /\ call'[c].statsFailures = r.statsFailures
      BY <1>1, <1>20, <2>2 DEF StatisticsDone, CallRecord
    <3>2. s.total = Ops * UnivCount
      BY <1>20 DEF StatisticsDone, Honest, s
    <3>3. r.statsFailures \in 0..(Ops * UnivCount)
      BY <1>1 DEF CallRecord
    <3>4. Ops = 0 \/ r.statsFailures < Ops * UnivCount
      BY <2>2, <3>2, <3>3, Products DEF AllFailed, Shown, s
    <3> QED
      BY <3>1, <3>4 DEF Honest
  <2> QED
    BY <2>1, <2>2
<1>21. CASE Finalize(c)
  <2>1. /\ call'[c].pc = "saving" /\ call'[c].statsFailures = r.statsFailures
        /\ (call'[c].warned <=> r.warned)
    BY <1>1, <1>21 DEF Finalize, CallRecord
  <2>2. Ops = 0 \/ r.statsFailures < Ops * UnivCount
    BY <1>21 DEF Finalize, Honest
  <2>3. PICK state \in {"completed", "completed_with_warnings"} :
          /\ SetStatus(c, Ends(s, state))
          /\ state = "completed" => ~r.warned
    BY <1>21 DEF Finalize, Shown, s, Ends
  <2>4. after.state = state /\ after.phase = "done"
    BY <1>1, <1>5, <2>3
  <2> QED
    BY <1>1, <2>1, <2>2, <2>3, <2>4 DEF Honest
<1>22. CASE SaveBatchLog(c)
  <2>1. call'[c].pc = "releasing"
    BY <1>1, <1>4, <1>22 DEF SaveBatchLog
  <2> QED
    BY <1>3, <2>1
<1> QED
  BY <1>9, <1>10, <1>11, <1>12, <1>13, <1>14, <1>15, <1>16, <1>17, <1>18, <1>19, <1>20, <1>21,
     <1>22 DEF Step

\* Nobody else speaks for the process of a run that has kept its session.
LEMMA StepKeepsHonest ==
  ASSUME BatchTypes, LockInv, AllHonest, NEW c \in Calls, Step(c)
  PROVE  AllHonest'
<1> SUFFICES ASSUME lost' = 0, NEW d \in Calls
             PROVE  Honest(call'[d], status'[call'[d].at])
  BY DEF AllHonest
<1>1. lost = 0 /\ \A e \in Calls : Honest(call[e], status[call[e].at])
  BY StepLock DEF AllHonest
<1>2. CASE d = c
  BY <1>1, <1>2, StepIsHonest
<1>3. CASE d # c
  <2>1. call'[d] = call[d]
    BY <1>3, StepTypes DEF Others
  <2>2. CASE ~Running(d)
    BY <2>1, <2>2 DEF Running, Honest, Phases
  <2>3. CASE Running(d)
    <3>1. lock = d /\ ~Running(c)
      BY <1>1, <1>3, <2>3 DEF LockInv
    <3>2. ~Acquires(c) /\ ~Stays(c) /\ ~Gives(c)
      BY <3>1 DEF Acquires, Stays, Gives, ReleaseBatchLock, Running
    <3>3. status' = status
      BY <3>2, StepLock DEF Leaves
    <3> QED
      BY <1>1, <2>1, <3>3
  <2> QED
    BY <2>2, <2>3
<1> QED
  BY <1>2, <1>3

LEMMA StartKeepsInv ==
  ASSUME BatchInv, NEW c \in Calls, NEW p \in Procs, StartBatch(c, p)
  PROVE  BatchInv'
<1> DEFINE new == [Idle EXCEPT !.pc = "locking", !.at = p]
<1>1. CallOK(new) /\ new \in CallRecord
  BY IdleIsOK DEF Pcs, CallOK
<1>2. new.pc = "locking" /\ new.at = p
  BY DEF Idle
<1>3. call' = [call EXCEPT ![c] = new] /\ call[c].pc = "idle"
      /\ lock' = lock /\ active' = active /\ status' = status /\ lost' = lost
  BY DEF StartBatch, Move
<1> HIDE DEF new
<1>4. /\ call' \in [Calls -> CallRecord] /\ call'[c] = new
      /\ \A d \in Calls \ {c} : call'[d] = call[d]
  BY <1>1, <1>3 DEF BatchInv, BatchTypes
<1>5. BatchTypes'
  BY <1>1, <1>3, <1>4 DEF BatchInv, BatchTypes
<1>6. \A d \in Calls : Running(d)' <=> Running(d)
  BY <1>2, <1>3, <1>4 DEF Running, Phases
<1>7. LockInv'
  BY <1>3, <1>6 DEF BatchInv, LockInv
<1>8. RunningIsReal'
  <2> SUFFICES ASSUME NEW q \in Procs, status[q].state = "running"
               PROVE  \E d \in Calls : call'[d].at = q /\ call'[d].pc \in Phases
    BY <1>3 DEF RunningIsReal, Phases
  <2>1. PICK d \in Calls : call[d].at = q /\ call[d].pc \in Phases
    BY DEF BatchInv, RunningIsReal
  <2>2. d # c
    BY <1>3, <2>1 DEF Phases
  <2> QED
    BY <1>4, <2>1, <2>2
<1>9. AllHonest'
  BY <1>2, <1>3, <1>4 DEF BatchInv, AllHonest, Honest
<1> QED
  BY <1>5, <1>7, <1>8, <1>9 DEF BatchInv

LEMMA DisconnectKeepsInv ==
  ASSUME BatchInv, NEW c \in Calls, Disconnect(c)
  PROVE  BatchInv'
<1>1. /\ call' = call /\ active' = active /\ status' = status /\ lock' = NULL
      /\ lost \in 0..MaxLost /\ lost' = lost + 1 /\ lost < MaxLost
  BY DEF Disconnect, BatchInv, BatchTypes
<1>2. lost' \in 0..MaxLost /\ lost' # 0
  BY <1>1
<1>3. BatchTypes'
  BY <1>1, <1>2 DEF BatchInv, BatchTypes
<1>4. LockInv' /\ AllHonest'
  BY <1>1, <1>2 DEF LockInv, AllHonest
<1>5. RunningIsReal'
  BY <1>1 DEF BatchInv, RunningIsReal, Phases
<1> QED
  BY <1>3, <1>4, <1>5 DEF BatchInv

LEMMA CrashKeepsInv ==
  ASSUME BatchInv, NEW p \in Procs, Crash(p)
  PROVE  BatchInv'
<1>1. /\ call' = [c \in Calls |-> IF call[c].at = p THEN Idle ELSE call[c]]
      /\ lock' = IF lock # NULL /\ call[lock].at = p THEN NULL ELSE lock
      /\ active' = [active EXCEPT ![p] = NULL]
      /\ status' = [status EXCEPT ![p] = InitialStatus] /\ lost' = lost
  BY DEF Crash
<1>2. CallOK(Idle) /\ Idle \in CallRecord /\ Idle.pc = "idle"
  BY IdleIsOK DEF CallOK, Idle, Pcs
<1>3. InitialStatus \in StatusRecord /\ InitialStatus.state = "idle"
  BY DEF InitialStatus, StatusRecord
<1>4. BatchTypes'
  BY <1>1, <1>2, <1>3 DEF BatchInv, BatchTypes
<1>5. \A c \in Calls : IF call[c].at = p THEN call'[c].pc = "idle" ELSE call'[c] = call[c]
  BY <1>1, <1>2
<1>6. LockInv'
  BY <1>1, <1>5 DEF BatchInv, LockInv, Running, Phases
<1>7. \A q \in Procs : IF q = p THEN status'[q].state = "idle" ELSE status'[q] = status[q]
  BY <1>1, <1>3 DEF BatchInv, BatchTypes
<1>8. RunningIsReal'
  <2> SUFFICES ASSUME NEW q \in Procs, status'[q].state = "running"
               PROVE  \E d \in Calls : call'[d].at = q /\ call'[d].pc \in Phases
    BY DEF RunningIsReal, Phases
  <2>1. q # p /\ status[q].state = "running"
    BY <1>7
  <2>2. PICK d \in Calls : call[d].at = q /\ call[d].pc \in Phases
    BY <2>1 DEF BatchInv, RunningIsReal
  <2> QED
    BY <1>5, <2>1, <2>2
<1>9. AllHonest'
  <2> SUFFICES ASSUME lost = 0, NEW d \in Calls
               PROVE  Honest(call'[d], status'[call'[d].at])
    BY <1>1 DEF AllHonest
  <2>1. CASE call[d].at = p
    BY <1>5, <2>1 DEF Honest
  <2>2. CASE call[d].at # p /\ call[d].pc = "idle"
    BY <1>5, <2>2 DEF Honest
  <2>3. CASE call[d].at # p /\ call[d].pc # "idle"
    <3>1. call'[d] = call[d] /\ call[d].at \in Procs
      BY <1>5, <2>3 DEF BatchInv, BatchTypes, CallOK
    <3>2. status'[call[d].at] = status[call[d].at]
      BY <1>7, <2>3, <3>1
    <3> QED
      BY <3>1, <3>2 DEF BatchInv, AllHonest
  <2> QED
    BY <2>1, <2>2, <2>3
<1> QED
  BY <1>4, <1>6, <1>8, <1>9 DEF BatchInv

LEMMA InitBatch == BatchInit => BatchInv
<1> SUFFICES ASSUME BatchInit PROVE BatchInv
  OBVIOUS
<1>1. BatchTypes
  BY InitTypes
<1>2. \A c \in Calls : call[c].pc = "idle" /\ ~Running(c)
  BY DEF BatchInit, Idle, Running, Phases
<1>3. \A p \in Procs : status[p].state # "running"
  BY DEF BatchInit, InitialStatus
<1>4. lock = NULL
  BY DEF BatchInit
<1> QED
  BY <1>1, <1>2, <1>3, <1>4 DEF BatchInv, LockInv, RunningIsReal, AllHonest, Honest, Phases

LEMMA NextBatch == BatchInv /\ [BatchNext]_bvars => BatchInv'
<1> SUFFICES ASSUME BatchInv, [BatchNext]_bvars PROVE BatchInv'
  OBVIOUS
<1>1. ASSUME NEW c \in Calls, Step(c) PROVE BatchInv'
  BY <1>1, StepTypes, StepKeepsLock, StepKeepsRunningReal, StepKeepsHonest DEF BatchInv
<1>2. CASE UNCHANGED bvars
  BY <1>2 DEF bvars, BatchInv, BatchTypes, LockInv, RunningIsReal, AllHonest, Running, Phases
<1> QED
  BY <1>1, <1>2, StartKeepsInv, DisconnectKeepsInv, CrashKeepsInv DEF BatchNext

LEMMA OneRuns == BatchInv => OneBatch
<1> SUFFICES ASSUME BatchInv, NEW c \in Calls, NEW d \in Calls, Running(c), Running(d), c # d
             PROVE  lost > 0
  BY DEF OneBatch
<1> QED
  BY DEF BatchInv, LockInv, BatchTypes

LEMMA StatusIsHonest == BatchInv => StatusIsTrue
BY DEF BatchInv, AllHonest, Honest, StatusIsTrue, HonestStatus, Shown

-----------------------------------------------------------------------------
(* What the jobs of a run store.                                           *)

JobPcs == {"done", "next", "metric", "category", "create", "find", "insert", "waiting", "write"}
Owning == {"category", "create", "find", "insert"}
Asking == Owning \cup {"metric", "waiting", "write"}

JobRecord == [pc : JobPcs, name : Names \cup {NULL}, dept : Depts \cup {ALL, NULL}, items : Nat]

RunRecord ==
  [phase : {"off", "departments", "statistics"}, cat : Categories \cup {NULL},
   promise : [Names -> MetricIds \cup {NULL, Pending, Rejected}],
   job : [Univs -> JobRecord], crashes : Nat, due : BOOLEAN]

IngestTypes ==
  /\ category \subseteq Categories
  /\ metric \in [MetricIds -> {NULL} \cup MetricRow]
  /\ dept \in [Univs \X Depts -> {"none", "active", "closed"}]
  /\ deptRow \subseteq Univs \X Depts \X MetricIds
  /\ run \in RunRecord
  /\ run.cat \in category \cup {NULL}

\* A job that looks for a metric owns the open promise of its name; when it is about
\* to insert, the category cached by now has no metric of that name.
JobOK(u) ==
  /\ Job(u).pc \in Asking => Job(u).name \in Names /\ Job(u).dept \in Depts \cup {ALL}
  /\ Job(u).pc \in Owning => run.promise[Job(u).name] = Pending
  /\ Job(u).pc = "waiting" => run.promise[Job(u).name] # NULL
  /\ Job(u).pc = "write" => run.promise[Job(u).name] \in MetricIds
  /\ Job(u).pc \in {"find", "insert"} => run.cat # NULL
  /\ Job(u).pc = "insert" => LookUp(run.cat, Job(u).name) = {}
  /\ run.phase = "off" => Job(u).pc = "done"

OneOwner ==
  \A u, v \in Univs :
    Job(u).pc \in Owning /\ Job(v).pc \in Owning /\ Job(u).name = Job(v).name => u = v

IngestInv ==
  /\ IngestTypes
  /\ \A i \in MetricIds : HasDeptRows(i) => metric[i] # NULL
  /\ \A i \in MetricIds : metric[i] # NULL => metric[i].cat \in category
  /\ \A n \in Names : run.promise[n] \in MetricIds => metric[run.promise[n]] # NULL
  /\ \A u \in Univs : JobOK(u)
  /\ OneOwner
  /\ MetricOnce
  /\ ~run.due => run.phase = "off"
  /\ DeptRowsLabelled

\* What a step of the job of u leaves alone.
Frame(u) ==
  /\ run.phase # "off" /\ run'.phase = run.phase /\ run'.due = run.due
  /\ \A v \in Univs \ {u} : run'.job[v] = run.job[v]
  /\ run'.job[u].pc \in Owning =>
       run'.job[u].name = Job(u).name /\ (Job(u).pc \in Owning \/ run.promise[Job(u).name] = NULL)
  /\ \A n \in Names :
       \/ run'.promise[n] = run.promise[n]
       \/ /\ n = Job(u).name /\ run'.promise[n] # NULL
          /\ run.promise[n] = NULL \/ Job(u).pc \in Owning
          /\ run'.promise[n] \in MetricIds => metric'[run'.promise[n]] # NULL
  /\ category \subseteq category'
  /\ \/ run'.cat = run.cat
     \/ run.cat = NULL /\ run'.cat \in category
     \/ run'.cat \in category' \ category
  /\ \A i \in MetricIds :
       IF metric[i] # NULL
       THEN metric'[i] # NULL /\ metric'[i].cat = metric[i].cat /\ metric'[i].name = metric[i].name
       ELSE metric'[i] # NULL =>
              Job(u).pc = "insert" /\ metric'[i].cat = run.cat /\ metric'[i].name = Job(u).name
  /\ \A i, j \in MetricIds :
       metric[i] = NULL /\ metric[j] = NULL /\ metric'[i] # NULL /\ metric'[j] # NULL => i = j
  /\ \A i \in MetricIds : HasDeptRows(i)' => HasDeptRows(i) \/ metric'[i] # NULL

LEMMA FrameKeepsOthers ==
  ASSUME IngestInv, NEW u \in Univs, Frame(u), IngestTypes', NEW v \in Univs, v # u
  PROVE  JobOK(v)'
<1>1. run'.job[v] = run.job[v] /\ JobOK(v) /\ run'.phase = run.phase
  BY DEF Frame, IngestInv
<1>2. /\ Job(v)' = Job(v)
      /\ Job(v).pc \in Asking => Job(v).name \in Names /\ Job(v).dept \in Depts \cup {ALL}
  BY <1>1 DEF Job, JobOK
<1>3. ASSUME Job(v).pc \in Owning
      PROVE  run'.promise[Job(v).name] = Pending
  <2>1. Job(v).name \in Names /\ run.promise[Job(v).name] = Pending
    BY <1>1, <1>2, <1>3 DEF JobOK, Asking
  <2>2. ~(Job(u).pc \in Owning /\ Job(u).name = Job(v).name)
    BY <1>3 DEF IngestInv, OneOwner
  <2> QED
    BY <2>1, <2>2, IngestAssumption DEF Frame
<1>4. ASSUME Job(v).pc \in {"waiting", "write"}
      PROVE  /\ run.promise[Job(v).name] # NULL => run'.promise[Job(v).name] # NULL
             /\ run.promise[Job(v).name] \in MetricIds =>
                  run'.promise[Job(v).name] = run.promise[Job(v).name]
  <2>1. Job(v).name \in Names
    BY <1>2, <1>4 DEF Asking
  <2>2. Job(u).pc \in Owning => run.promise[Job(u).name] = Pending
    BY DEF IngestInv, JobOK
  <2> QED
    BY <2>1, <2>2, IngestAssumption DEF Frame
<1>5. ASSUME Job(v).pc \in {"find", "insert"}
      PROVE  run.cat # NULL /\ run.cat \in category /\ run'.cat # NULL
             /\ (run'.cat = run.cat \/ run'.cat \in category' \ category)
  <2>1. run.cat # NULL /\ run.cat \in category
    BY <1>1, <1>5 DEF JobOK, IngestInv, IngestTypes
  <2>2. category' \subseteq Categories /\ NULL \notin category' \ category
    <3>1. NULL \notin Categories
      BY IngestAssumption DEF Categories
    <3> QED
      BY <3>1 DEF IngestTypes
  <2> QED
    BY <2>1, <2>2 DEF Frame
<1>6. ASSUME Job(v).pc = "insert", NEW i \in MetricIds, metric'[i] # NULL,
             metric'[i].cat = run'.cat, metric'[i].name = Job(v).name
      PROVE  FALSE
  <2>1. LookUp(run.cat, Job(v).name) = {} /\ Job(v).pc \in Owning
    BY <1>1, <1>6 DEF JobOK, Owning
  <2>2. CASE metric[i] # NULL
    <3>1. metric[i].cat \in category /\ metric[i].cat = run'.cat /\ metric[i].name = Job(v).name
      BY <1>6, <2>2 DEF Frame, IngestInv
    <3> QED
      BY <1>5, <1>6, <2>1, <2>2, <3>1 DEF LookUp
  <2>3. CASE metric[i] = NULL
    <3>1. Job(u).pc \in Owning /\ Job(u).name = Job(v).name
      BY <1>6, <2>3 DEF Frame, Owning
    <3> QED
      BY <2>1, <3>1 DEF IngestInv, OneOwner
  <2> QED
    BY <2>2, <2>3
<1>7. Job(v).pc = "insert" => (LookUp(run.cat, Job(v).name) = {})'
  BY <1>2, <1>6 DEF LookUp
<1> QED
  BY <1>1, <1>2, <1>3, <1>4, <1>5, <1>7 DEF JobOK

LEMMA FrameKeepsIngest ==
  ASSUME IngestInv, NEW u \in Univs, Frame(u), IngestTypes', JobOK(u)'
  PROVE  IngestInv'
<1>1. \A v \in Univs : JobOK(v)'
  BY FrameKeepsOthers
<1>2. \A i \in MetricIds : HasDeptRows(i)' => metric'[i] # NULL
  BY DEF IngestInv, Frame
<1>3. \A i \in MetricIds : metric'[i] # NULL => metric'[i].cat \in category'
  <2> SUFFICES ASSUME NEW i \in MetricIds, metric'[i] # NULL
               PROVE  metric'[i].cat \in category'
    OBVIOUS
  <2>1. CASE metric[i] # NULL
    BY <2>1 DEF IngestInv, Frame
  <2>2. CASE metric[i] = NULL
    BY <2>2 DEF IngestInv, IngestTypes, Frame, JobOK
  <2> QED
    BY <2>1, <2>2
<1>4. \A n \in Names : run'.promise[n] \in MetricIds => metric'[run'.promise[n]] # NULL
  BY DEF IngestInv, Frame
<1>5. OneOwner'
  <2>1. ASSUME NEW v \in Univs, v # u, run'.job[u].pc \in Owning, Job(v).pc \in Owning
        PROVE  run'.job[u].name # Job(v).name
    <3>1. run.promise[Job(v).name] = Pending
      BY <2>1 DEF IngestInv, JobOK
    <3>2. run'.job[u].name = Job(u).name /\ (Job(u).pc \in Owning \/ run.promise[Job(u).name] = NULL)
      BY <2>1 DEF Frame
    <3> QED
      BY <2>1, <3>1, <3>2, IngestAssumption DEF IngestInv, OneOwner
  <2>2. \A v \in Univs \ {u} : run'.job[v] = Job(v)
    BY DEF Frame, Job
  <2> QED
    BY <2>1, <2>2 DEF IngestInv, OneOwner, Job
<1>6. MetricOnce'
  <2> SUFFICES ASSUME NEW i \in MetricIds, NEW j \in MetricIds, i # j, metric'[i] # NULL,
                      metric'[j] # NULL, metric'[i].cat = metric'[j].cat,
                      metric'[i].name = metric'[j].name
               PROVE  FALSE
    BY DEF MetricOnce
  <2>1. ASSUME NEW k \in MetricIds, NEW l \in MetricIds, metric[k] # NULL, metric[l] = NULL,
               metric'[k] # NULL, metric'[l] # NULL, metric'[k].cat = metric'[l].cat,
               metric'[k].name = metric'[l].name
        PROVE  FALSE
    <3>1. Job(u).pc = "insert" /\ metric[k].cat = run.cat /\ metric[k].name = Job(u).name
      BY <2>1 DEF Frame
    <3> QED
      BY <2>1, <3>1 DEF IngestInv, JobOK, LookUp
  <2>2. CASE metric[i] # NULL /\ metric[j] # NULL
    BY <2>2 DEF IngestInv, MetricOnce, Frame
  <2>3. CASE metric[i] = NULL /\ metric[j] = NULL
    BY <2>3 DEF Frame
  <2> QED
    BY <2>1, <2>2, <2>3
<1>7. run'.due /\ run'.due = TRUE
  BY DEF IngestInv, IngestTypes, RunRecord, Frame
<1> QED
  BY <1>1, <1>2, <1>3, <1>4, <1>5, <1>6, <1>7 DEF IngestInv, DeptRowsLabelled

\* What a step of the job of u makes of the run.
Sets(u, new, promise, cat) ==
  /\ run' \in RunRecord /\ run'.phase = run.phase /\ run'.due = run.due
  /\ run'.promise = promise /\ run'.cat = cat
  /\ run'.job[u] = new /\ \A v \in Univs \ {u} : run'.job[v] = run.job[v]

LEMMA SetJobSets ==
  ASSUME run \in RunRecord, NEW u \in Univs, NEW new \in JobRecord, SetJob(u, new)
  PROVE  Sets(u, new, run.promise, run.cat)
<1>1. run' = [run EXCEPT !.job[u] = new]
  BY DEF SetJob
<1>2. run.job \in [Univs -> JobRecord]
  BY DEF RunRecord
<1>3. run'.job = [run.job EXCEPT ![u] = new] /\ run'.promise = run.promise /\ run'.cat = run.cat
      /\ run'.phase = run.phase /\ (run'.due <=> run.due) /\ run'.crashes = run.crashes
  BY <1>1 DEF RunRecord
<1>4. run' \in RunRecord
  BY <1>1, <1>2 DEF RunRecord
<1> QED
  BY <1>2, <1>3, <1>4 DEF Sets, RunRecord

\* A step that neither promises nor registers anything.
LEMMA QuietStep ==
  ASSUME IngestInv, NEW u \in Univs, NEW new \in JobRecord, Job(u).pc # "done", SetJob(u, new),
         new.pc \notin Owning, UNCHANGED <<category, metric>>,
         dept' \in [Univs \X Depts -> {"none", "active", "closed"}],
         deptRow' \subseteq Univs \X Depts \X MetricIds,
         \A i \in MetricIds : HasDeptRows(i)' => HasDeptRows(i) \/ metric[i] # NULL
  PROVE  /\ IngestTypes' /\ Frame(u) /\ Job(u)' = new
         /\ run'.promise = run.promise /\ run.phase # "off" /\ run'.phase = run.phase
<1>1. Sets(u, new, run.promise, run.cat)
  BY SetJobSets DEF IngestInv, IngestTypes
<1>2. run.phase # "off"
  BY DEF IngestInv, JobOK
<1>3. IngestTypes'
  BY <1>1 DEF IngestInv, IngestTypes, Sets
<1>4. Frame(u)
  BY <1>1, <1>2 DEF Frame, Sets, IngestInv, IngestTypes
<1> QED
  BY <1>1, <1>2, <1>3, <1>4 DEF Sets, Job

LEMMA JobType ==
  ASSUME IngestInv, NEW u \in Univs
  PROVE  Job(u) \in JobRecord /\ JobOK(u) /\ IdleJob \in JobRecord /\ IdleJob.pc = "done"
BY DEF IngestInv, IngestTypes, RunRecord, Job, IdleJob, JobRecord, JobPcs

\* The steps that go through the items of an answer.
LEMMA ItemStep ==
  ASSUME IngestInv, NEW u \in Univs, NEW d \in Depts \cup {ALL}, NEW n \in Names,
         NEW state \in {"active", "closed"}, NEW hit \in BOOLEAN, NEW isMetric \in BOOLEAN,
         Job(u).pc = "next", hit => d \in Depts,
         dept' = IF hit THEN [dept EXCEPT ![<<u, d>>] = state] ELSE dept,
         SetJob(u, IF isMetric
                   THEN [pc |-> "metric", name |-> n, dept |-> d, items |-> Job(u).items + 1]
                   ELSE [Job(u) EXCEPT !.items = @ + 1]),
         UNCHANGED <<category, metric, deptRow>>
  PROVE  IngestTypes' /\ Frame(u) /\ JobOK(u)'
<1> DEFINE new == IF isMetric
                  THEN [pc |-> "metric", name |-> n, dept |-> d, items |-> Job(u).items + 1]
                  ELSE [Job(u) EXCEPT !.items = @ + 1]
<1>1. Job(u) \in JobRecord /\ Job(u).items + 1 \in Nat
  BY JobType DEF JobRecord
<1>2. new \in JobRecord
  BY <1>1 DEF JobRecord, JobPcs
<1>3. \/ new.pc = "metric" /\ new.name = n /\ new.dept = d
      \/ new.pc = "next"
  BY <1>1 DEF JobRecord
<1>4. SetJob(u, new)
  OBVIOUS
<1> HIDE DEF new
<1>5. new.pc \notin Owning /\ new.pc # "done"
  BY <1>3 DEF Owning
<1>6. dept' \in [Univs \X Depts -> {"none", "active", "closed"}]
  BY DEF IngestInv, IngestTypes
<1>7. deptRow' \subseteq Univs \X Depts \X MetricIds
  BY DEF IngestInv, IngestTypes
<1>8. \A i \in MetricIds : HasDeptRows(i)' <=> HasDeptRows(i)
  BY DEF HasDeptRows
<1>9. IngestTypes' /\ Frame(u) /\ Job(u)' = new /\ run.phase # "off" /\ run'.phase = run.phase
  BY <1>2, <1>4, <1>5, <1>6, <1>7, <1>8, QuietStep
<1>10. JobOK(u)'
  BY <1>3, <1>9 DEF JobOK, Asking, Owning
<1> QED
  BY <1>9, <1>10

LEMMA MajorItemStep ==
  ASSUME IngestInv, NEW u \in Univs, NEW d \in Depts, NEW n \in Names, NEW isActive \in BOOLEAN,
         MajorItem(u, d, n, isActive)
  PROVE  IngestTypes' /\ Frame(u) /\ JobOK(u)'
<1> DEFINE state == IF isActive THEN "active" ELSE "closed"
<1>1. state \in {"active", "closed"} /\ d \in Depts \cup {ALL} /\ TRUE \in BOOLEAN
  OBVIOUS
<1>2. dept' = IF TRUE THEN [dept EXCEPT ![<<u, d>>] = state] ELSE dept
  BY DEF MajorItem
<1>3. /\ Job(u).pc = "next" /\ UNCHANGED <<category, metric, deptRow>>
      /\ SetJob(u, IF isActive
                   THEN [pc |-> "metric", name |-> n, dept |-> d, items |-> Job(u).items + 1]
                   ELSE [Job(u) EXCEPT !.items = @ + 1])
  BY DEF MajorItem
<1> HIDE DEF state
<1> QED
  BY <1>1, <1>2, <1>3, ItemStep

LEMMA StatsItemStep ==
  ASSUME IngestInv, NEW u \in Univs, NEW d \in Depts \cup {ALL}, NEW n \in Names,
         NEW hasSeries \in BOOLEAN, StatsItem(u, d, n, hasSeries)
  PROVE  IngestTypes' /\ Frame(u) /\ JobOK(u)'
<1> DEFINE hit == d # ALL /\ hasSeries
<1>1. hit \in BOOLEAN /\ (hit => d \in Depts) /\ "active" \in {"active", "closed"} /\ TRUE \in BOOLEAN
  OBVIOUS
<1>2. dept' = IF hit THEN [dept EXCEPT ![<<u, d>>] = "active"] ELSE dept
  BY DEF StatsItem
<1>3. /\ Job(u).pc = "next" /\ UNCHANGED <<category, metric, deptRow>>
      /\ SetJob(u, IF TRUE
                   THEN [pc |-> "metric", name |-> n, dept |-> d, items |-> Job(u).items + 1]
                   ELSE [Job(u) EXCEPT !.items = @ + 1])
  BY DEF StatsItem
<1> HIDE DEF hit
<1> QED
  BY <1>1, <1>2, <1>3, ItemStep

LEMMA EndStep ==
  ASSUME IngestInv, NEW u \in Univs, Job(u).pc # "done", SetJob(u, IdleJob),
         dept' \in [Univs \X Depts -> {"none", "active", "closed"}],
         UNCHANGED <<category, metric, deptRow>>
  PROVE  IngestTypes' /\ Frame(u) /\ JobOK(u)'
<1>1. IdleJob \in JobRecord /\ IdleJob.pc = "done" /\ IdleJob.pc \notin Owning
  BY JobType DEF Owning
<1>2. deptRow' \subseteq Univs \X Depts \X MetricIds
  BY DEF IngestInv, IngestTypes
<1>3. \A i \in MetricIds : HasDeptRows(i)' <=> HasDeptRows(i)
  BY DEF HasDeptRows
<1>4. IngestTypes' /\ Frame(u) /\ Job(u)' = IdleJob /\ run.phase # "off" /\ run'.phase = run.phase
  BY <1>1, <1>2, <1>3, QuietStep
<1> QED
  BY <1>1, <1>4 DEF JobOK, Asking, Owning

LEMMA CloseOthersStep ==
  ASSUME IngestInv, NEW u \in Univs, NEW codes \in SUBSET Depts, CloseOthers(u, codes)
  PROVE  IngestTypes' /\ Frame(u) /\ JobOK(u)'
<1>1. dept' \in [Univs \X Depts -> {"none", "active", "closed"}]
  BY DEF CloseOthers, IngestInv, IngestTypes
<1> QED
  BY <1>1, EndStep DEF CloseOthers

LEMMA JobEndsStep ==
  ASSUME IngestInv, NEW u \in Univs, JobEnds(u)
  PROVE  IngestTypes' /\ Frame(u) /\ JobOK(u)'
BY EndStep DEF JobEnds, IngestInv, IngestTypes

\* The steps about a metric.  The name of the job and what the promise of it is.
LEMMA AskingJob ==
  ASSUME IngestInv, NEW u \in Univs, Job(u).pc \in Asking
  PROVE  /\ Job(u) \in JobRecord /\ JobOK(u) /\ Job(u).name \in Names
         /\ Job(u).dept \in Depts \cup {ALL} /\ run \in RunRecord
         /\ run.promise[Job(u).name] \in MetricIds \cup {NULL, Pending, Rejected}
         /\ run.phase # "off"
BY JobType DEF IngestInv, IngestTypes, RunRecord, JobOK, Asking, Owning

\* Every other field of the job stays.
LEMMA MovedJob ==
  ASSUME NEW j \in JobRecord, NEW pc \in JobPcs
  PROVE  LET new == [j EXCEPT !.pc = pc]
         IN new \in JobRecord /\ new.pc = pc /\ new.name = j.name /\ new.dept = j.dept
BY DEF JobRecord

LEMMA AwakeStep ==
  ASSUME IngestInv, NEW u \in Univs, Awake(u)
  PROVE  IngestTypes' /\ Frame(u) /\ JobOK(u)'
<1> DEFINE new == [Job(u) EXCEPT !.pc = "write"]
<1>1. /\ Job(u).pc = "waiting" /\ run.promise[Job(u).name] # Pending
      /\ UNCHANGED <<category, metric, dept, deptRow>>
  BY DEF Awake
<1>2. /\ Job(u) \in JobRecord /\ Job(u).name \in Names /\ Job(u).dept \in Depts \cup {ALL}
      /\ run.promise[Job(u).name] \in MetricIds \cup {NULL, Pending, Rejected}
      /\ run.promise[Job(u).name] # NULL
  BY <1>1, AskingJob DEF Asking, JobOK
<1>3. CASE run.promise[Job(u).name] = Rejected
  <2>1. SetJob(u, IdleJob)
    BY <1>3 DEF Awake
  <2> QED
    BY <1>1, <2>1, EndStep DEF IngestInv, IngestTypes
<1>4. CASE run.promise[Job(u).name] # Rejected
  <2>1. SetJob(u, new)
    BY <1>4 DEF Awake
  <2>2. new \in JobRecord /\ new.pc = "write" /\ new.name = Job(u).name /\ new.dept = Job(u).dept
    BY <1>2, MovedJob DEF JobPcs
  <2> HIDE DEF new
  <2>3. \A i \in MetricIds : HasDeptRows(i)' <=> HasDeptRows(i)
    BY <1>1 DEF HasDeptRows
  <2>4. /\ dept' \in [Univs \X Depts -> {"none", "active", "closed"}]
        /\ deptRow' \subseteq Univs \X Depts \X MetricIds
    BY <1>1 DEF IngestInv, IngestTypes
  <2>5. /\ IngestTypes' /\ Frame(u) /\ Job(u)' = new /\ run'.promise = run.promise
        /\ run.phase # "off" /\ run'.phase = run.phase
    BY <1>1, <2>1, <2>2, <2>3, <2>4, QuietStep DEF Owning
  <2>6. JobOK(u)'
    BY <1>1, <1>2, <1>4, <2>2, <2>5 DEF JobOK, Asking, Owning
  <2> QED
    BY <2>5, <2>6
<1> QED
  BY <1>3, <1>4

LEMMA UpsertRawStep ==
  ASSUME IngestInv, NEW u \in Univs, UpsertRaw(u)
  PROVE  IngestTypes' /\ Frame(u) /\ JobOK(u)'
<1> DEFINE id == run.promise[Job(u).name]
           new == [Job(u) EXCEPT !.pc = "next", !.name = NULL, !.dept = NULL]
<1>1. /\ Job(u).pc = "write" /\ SetJob(u, new) /\ UNCHANGED <<category, metric, dept>>
      /\ deptRow' = IF Job(u).dept = ALL THEN deptRow ELSE deptRow \cup {<<u, Job(u).dept, id>>}
  BY DEF UpsertRaw
<1>2. /\ Job(u) \in JobRecord /\ Job(u).name \in Names /\ Job(u).dept \in Depts \cup {ALL}
      /\ id \in MetricIds /\ metric[id] # NULL
  BY <1>1, AskingJob DEF Asking, JobOK, IngestInv
<1>3. new \in JobRecord /\ new.pc = "next"
  BY <1>2 DEF JobRecord, JobPcs
<1> HIDE DEF new, id
<1>4. deptRow' \subseteq Univs \X Depts \X MetricIds
  BY <1>1, <1>2 DEF IngestInv, IngestTypes
<1>5. \A i \in MetricIds : HasDeptRows(i)' => HasDeptRows(i) \/ metric[i] # NULL
  BY <1>1, <1>2 DEF HasDeptRows
<1>6. dept' \in [Univs \X Depts -> {"none", "active", "closed"}]
  BY <1>1 DEF IngestInv, IngestTypes
<1>7. IngestTypes' /\ Frame(u) /\ Job(u)' = new /\ run.phase # "off" /\ run'.phase = run.phase
  BY <1>1, <1>3, <1>4, <1>5, <1>6, QuietStep DEF Owning
<1> QED
  BY <1>3, <1>7 DEF JobOK, Asking, Owning

LEMMA AskMetricStep ==
  ASSUME IngestInv, NEW u \in Univs, AskMetric(u)
  PROVE  IngestTypes' /\ Frame(u) /\ JobOK(u)'
<1> DEFINE n == Job(u).name
           p == run.promise[n]
           pc == IF p = NULL THEN "category" ELSE IF p = Pending THEN "waiting" ELSE "write"
           job == IF p = Rejected THEN IdleJob ELSE [Job(u) EXCEPT !.pc = pc]
           promise == [run.promise EXCEPT ![n] = IF p = NULL THEN Pending ELSE p]
<1>1. /\ Job(u).pc = "metric" /\ UNCHANGED <<category, metric, dept, deptRow>>
      /\ run' = [run EXCEPT !.promise[n] = IF p = NULL THEN Pending ELSE p, !.job[u] = job]
  BY DEF AskMetric, Job
<1>2. /\ Job(u) \in JobRecord /\ n \in Names /\ Job(u).dept \in Depts \cup {ALL} /\ run \in RunRecord
      /\ p \in MetricIds \cup {NULL, Pending, Rejected} /\ run.phase # "off"
  BY <1>1, AskingJob DEF Asking
<1>3. /\ p = NULL => pc = "category"
      /\ p = Pending => pc = "waiting"
      /\ p \in MetricIds => pc = "write"
      /\ pc \in JobPcs
  BY IngestAssumption DEF JobPcs
<1> HIDE DEF pc
<1>12. /\ [Job(u) EXCEPT !.pc = pc] \in JobRecord
       /\ [Job(u) EXCEPT !.pc = pc].pc = pc /\ [Job(u) EXCEPT !.pc = pc].name = Job(u).name
       /\ [Job(u) EXCEPT !.pc = pc].dept = Job(u).dept
  BY <1>2, <1>3, MovedJob
<1>4. /\ job \in JobRecord
      /\ p = Rejected => job.pc = "done"
      /\ p # Rejected => job.pc = pc /\ job.name = n /\ job.dept = Job(u).dept
  BY <1>2, <1>12, JobType
<1> HIDE DEF job
<1>5. /\ promise \in [Names -> MetricIds \cup {NULL, Pending, Rejected}]
      /\ promise[n] = IF p = NULL THEN Pending ELSE p
      /\ \A m \in Names \ {n} : promise[m] = run.promise[m]
  BY <1>2 DEF RunRecord
<1>6. /\ run' \in RunRecord /\ run'.phase = run.phase /\ run'.due = run.due /\ run'.cat = run.cat
      /\ run'.promise = promise
      /\ run'.job[u] = job /\ \A v \in Univs \ {u} : run'.job[v] = run.job[v]
  BY <1>1, <1>2, <1>4 DEF RunRecord
<1> HIDE DEF promise
<1>7. IngestTypes'
  BY <1>1, <1>6 DEF IngestInv, IngestTypes
<1>8. \A i \in MetricIds : HasDeptRows(i)' <=> HasDeptRows(i)
  BY <1>1 DEF HasDeptRows
<1>9. job.pc \in Owning => p = NULL /\ job.name = n
  BY <1>2, <1>3, <1>4, IngestAssumption DEF Owning
<1>10. Frame(u)
  <2>1. \A m \in Names : \/ run'.promise[m] = run.promise[m]
                         \/ m = n /\ run.promise[m] = NULL /\ run'.promise[m] = Pending
    BY <1>5, <1>6
  <2> QED
    BY <1>1, <1>2, <1>6, <1>8, <1>9, <2>1, IngestAssumption DEF Frame
<1>11. JobOK(u)'
  <2>1. Job(u)' = job /\ run'.promise[n] = (IF p = NULL THEN Pending ELSE p)
    BY <1>5, <1>6 DEF Job
  <2> QED
    BY <1>2, <1>3, <1>4, <1>6, <2>1, IngestAssumption DEF JobOK, Asking, Owning
<1> QED
  BY <1>7, <1>10, <1>11

LEMMA FindCategoryStep ==
  ASSUME IngestInv, NEW u \in Univs, FindCategory(u)
  PROVE  IngestTypes' /\ Frame(u) /\ JobOK(u)'
<1>1. Job(u).pc = "category" /\ UNCHANGED <<category, metric, dept, deptRow>>
  BY DEF FindCategory
<1>2. /\ Job(u) \in JobRecord /\ Job(u).name \in Names /\ Job(u).dept \in Depts \cup {ALL}
      /\ run \in RunRecord /\ run.phase # "off" /\ run.promise[Job(u).name] = Pending
      /\ run.cat \in category \cup {NULL} /\ category \subseteq Categories
  BY <1>1, AskingJob DEF Asking, Owning, JobOK, IngestInv, IngestTypes
<1>3. PICK pc \in {"find", "create"}, cat \in category \cup {NULL} :
        /\ run' = [run EXCEPT !.cat = cat, !.job[u].pc = pc]
        /\ pc = "find" => cat # NULL
        /\ cat = run.cat \/ (run.cat = NULL /\ cat \in category)
  <2>1. CASE run.cat # NULL
    <3>1. run' = [run EXCEPT !.job[u] = [Job(u) EXCEPT !.pc = "find"]]
      BY <2>1 DEF FindCategory, SetJob
    <3>2. run' = [run EXCEPT !.cat = run.cat, !.job[u].pc = "find"]
      BY <1>2, <3>1 DEF Job, RunRecord
    <3> QED
      BY <1>2, <2>1, <3>2
  <2>2. CASE run.cat = NULL /\ category = {}
    <3>1. run' = [run EXCEPT !.job[u] = [Job(u) EXCEPT !.pc = "create"]]
      BY <2>2 DEF FindCategory, SetJob
    <3>2. run' = [run EXCEPT !.cat = run.cat, !.job[u].pc = "create"]
      BY <1>2, <3>1 DEF Job, RunRecord
    <3> QED
      BY <1>2, <2>2, <3>2
  <2>3. CASE run.cat = NULL /\ category # {}
    <3>1. PICK c \in category : run' = [run EXCEPT !.cat = c, !.job[u].pc = "find"]
      BY <2>3 DEF FindCategory
    <3> QED
      BY <1>2, <2>3, <3>1, IngestAssumption
  <2> QED
    BY <2>1, <2>2, <2>3
<1> DEFINE job == [Job(u) EXCEPT !.pc = pc]
<1>10. pc \in JobPcs
  BY DEF JobPcs
<1>4. job \in JobRecord /\ job.pc = pc /\ job.name = Job(u).name /\ job.dept = Job(u).dept
  BY <1>2, <1>10, MovedJob
<1>5. /\ run' \in RunRecord /\ run'.phase = run.phase /\ run'.due = run.due /\ run'.cat = cat
      /\ run'.promise = run.promise
      /\ run'.job[u] = job /\ \A v \in Univs \ {u} : run'.job[v] = run.job[v]
  BY <1>2, <1>3, <1>4 DEF RunRecord, Job
<1> HIDE DEF job
<1>6. IngestTypes'
  BY <1>1, <1>5 DEF IngestInv, IngestTypes
<1>7. \A i \in MetricIds : HasDeptRows(i)' <=> HasDeptRows(i)
  BY <1>1 DEF HasDeptRows
<1>8. Frame(u)
  BY <1>1, <1>2, <1>3, <1>4, <1>5, <1>7 DEF Frame, Owning
<1>9. JobOK(u)'
  <2>1. Job(u)' = job
    BY <1>5 DEF Job
  <2> QED
    BY <1>2, <1>3, <1>4, <1>5, <2>1 DEF JobOK, Asking, Owning
<1> QED
  BY <1>6, <1>8, <1>9

\* A job that owns a promise goes on; it may keep the promise, or a category.
LEMMA OwnerMoves ==
  ASSUME IngestInv, NEW u \in Univs, Job(u).pc \in Owning, NEW pc \in JobPcs,
         NEW promise \in [Names -> MetricIds \cup {NULL, Pending, Rejected}],
         NEW cat \in Categories \cup {NULL},
         run' = [run EXCEPT !.cat = cat, !.promise = promise, !.job[u].pc = pc]
  PROVE  Sets(u, [Job(u) EXCEPT !.pc = pc], promise, cat)
<1> DEFINE job == [Job(u) EXCEPT !.pc = pc]
<1>1. Job(u) \in JobRecord /\ run \in RunRecord
  BY JobType DEF IngestInv, IngestTypes
<1>2. job \in JobRecord
  BY <1>1, MovedJob
<1>3. run' = [run EXCEPT !.cat = cat, !.promise = promise, !.job[u] = job]
  BY <1>1 DEF Job, RunRecord
<1> HIDE DEF job
<1>4. /\ run' \in RunRecord /\ run'.phase = run.phase /\ (run'.due <=> run.due)
      /\ run'.promise = promise /\ run'.cat = cat
      /\ run'.job[u] = job /\ \A v \in Univs \ {u} : run'.job[v] = run.job[v]
  <2>1. /\ run'.job = [run.job EXCEPT ![u] = job] /\ run'.promise = promise /\ run'.cat = cat
        /\ run'.phase = run.phase /\ (run'.due <=> run.due) /\ run'.crashes = run.crashes
    BY <1>1, <1>3 DEF RunRecord
  <2> DEFINE jobs == [run.job EXCEPT ![u] = job]
  <2>2. jobs \in [Univs -> JobRecord]
    BY <1>1, <1>2 DEF RunRecord
  <2>3. run' = [run EXCEPT !.cat = cat, !.promise = promise, !.job = jobs]
    BY <1>1, <1>3 DEF RunRecord
  <2> HIDE DEF jobs
  <2>4. run' \in RunRecord
    BY <1>1, <2>2, <2>3 DEF RunRecord
  <2> QED
    BY <1>1, <2>1, <2>4 DEF RunRecord
<1>5. run'.due = run.due
  BY <1>1, <1>4 DEF RunRecord
<1> QED
  BY <1>4, <1>5 DEF Sets, job

LEMMA CreateCategoryStep ==
  ASSUME IngestInv, NEW u \in Univs, CreateCategory(u)
  PROVE  IngestTypes' /\ Frame(u) /\ JobOK(u)'
<1> DEFINE job == [Job(u) EXCEPT !.pc = "find"]
<1>1. Job(u).pc = "create" /\ UNCHANGED <<metric, dept, deptRow>>
  BY DEF CreateCategory
<1>2. PICK c \in Categories \ category :
        category' = category \cup {c} /\ run' = [run EXCEPT !.cat = c, !.job[u].pc = "find"]
  BY DEF CreateCategory
<1>3. /\ Job(u) \in JobRecord /\ Job(u).name \in Names /\ Job(u).dept \in Depts \cup {ALL}
      /\ run \in RunRecord /\ run.phase # "off" /\ run.promise[Job(u).name] = Pending
      /\ category \subseteq Categories /\ c # NULL
  BY <1>1, AskingJob, IngestAssumption DEF Asking, Owning, JobOK, IngestInv, IngestTypes
<1>4. "find" \in JobPcs
  BY DEF JobPcs
<1>5. run' = [run EXCEPT !.cat = c, !.promise = run.promise, !.job[u].pc = "find"]
  BY <1>2, <1>3 DEF RunRecord
<1>6. run.promise \in [Names -> MetricIds \cup {NULL, Pending, Rejected}]
  BY <1>3 DEF RunRecord
<1>7. Sets(u, job, run.promise, c)
  BY <1>1, <1>4, <1>5, <1>6, OwnerMoves DEF Owning
<1>8. job.pc = "find" /\ job.name = Job(u).name /\ job.dept = Job(u).dept
  BY <1>3, <1>4, MovedJob
<1> HIDE DEF job
<1>9. IngestTypes'
  BY <1>1, <1>2, <1>3, <1>7 DEF IngestInv, IngestTypes, Sets
<1>10. \A i \in MetricIds : HasDeptRows(i)' <=> HasDeptRows(i)
  BY <1>1 DEF HasDeptRows
<1>11. Frame(u)
  <2>1. category \subseteq category' /\ c \in category' \ category
    BY <1>2
  <2> QED
    BY <1>1, <1>3, <1>7, <1>8, <1>10, <2>1 DEF Frame, Owning, Sets
<1>12. JobOK(u)'
  <2>1. Job(u)' = job /\ run'.promise = run.promise /\ run'.cat = c /\ run'.phase = run.phase
    BY <1>7 DEF Job, Sets
  <2> QED
    BY <1>3, <1>8, <2>1 DEF JobOK, Asking, Owning
<1> QED
  BY <1>9, <1>11, <1>12

\* It keeps the promise with the id of a metric and goes on to write.
LEMMA OwnerKeepsPromise ==
  ASSUME IngestInv, NEW u \in Univs, Job(u).pc \in {"find", "insert"}, NEW i \in MetricIds,
         run' = [run EXCEPT !.promise[Job(u).name] = i, !.job[u].pc = "write"],
         UNCHANGED <<category, dept, deptRow>>,
         metric' \in [MetricIds -> {NULL} \cup MetricRow], metric'[i] # NULL,
         \A k \in MetricIds :
           IF metric[k] # NULL
           THEN metric'[k] # NULL /\ metric'[k].cat = metric[k].cat /\ metric'[k].name = metric[k].name
           ELSE metric'[k] # NULL => /\ Job(u).pc = "insert" /\ k = i
                                     /\ metric'[k].cat = run.cat /\ metric'[k].name = Job(u).name
  PROVE  IngestTypes' /\ Frame(u) /\ JobOK(u)'
<1> DEFINE job == [Job(u) EXCEPT !.pc = "write"]
           promise == [run.promise EXCEPT ![Job(u).name] = i]
<1>1. /\ Job(u) \in JobRecord /\ Job(u).name \in Names /\ Job(u).dept \in Depts \cup {ALL}
      /\ run \in RunRecord /\ run.phase # "off" /\ run.promise[Job(u).name] = Pending
      /\ run.cat \in Categories \cup {NULL} /\ Job(u).pc \in Owning
  BY AskingJob DEF Asking, Owning, JobOK, RunRecord
<1>2. "write" \in JobPcs
  BY DEF JobPcs
<1>3. run' = [run EXCEPT !.cat = run.cat, !.promise = promise, !.job[u].pc = "write"]
  BY <1>1 DEF RunRecord
<1>4. /\ promise \in [Names -> MetricIds \cup {NULL, Pending, Rejected}]
      /\ promise[Job(u).name] = i /\ \A n \in Names \ {Job(u).name} : promise[n] = run.promise[n]
  BY <1>1 DEF RunRecord
<1> HIDE DEF promise
<1>5. Sets(u, job, promise, run.cat)
  BY <1>1, <1>2, <1>3, <1>4, OwnerMoves
<1>6. job.pc = "write" /\ job.name = Job(u).name /\ job.dept = Job(u).dept
  BY <1>1, <1>2, MovedJob
<1> HIDE DEF job
<1>7. IngestTypes'
  BY <1>1, <1>5 DEF IngestInv, IngestTypes, Sets
<1>8. \A k \in MetricIds : HasDeptRows(k)' <=> HasDeptRows(k)
  BY DEF HasDeptRows
<1>10. Frame(u)
  <2>1. i # NULL
    BY IngestAssumption
  <2>2. \A n \in Names : \/ run'.promise[n] = run.promise[n]
                         \/ n = Job(u).name /\ run'.promise[n] = i
    BY <1>4, <1>5 DEF Sets
  <2> QED
    BY <1>1, <1>5, <1>6, <1>8, <2>1, <2>2 DEF Frame, Owning, Sets
<1>11. JobOK(u)'
  <2>1. Job(u)' = job /\ run'.promise[Job(u).name] = i /\ run'.phase = run.phase
    BY <1>4, <1>5 DEF Job, Sets
  <2> QED
    BY <1>1, <1>6, <2>1 DEF JobOK, Asking, Owning
<1> QED
  BY <1>7, <1>10, <1>11

LEMMA FindMetricStep ==
  ASSUME IngestInv, NEW u \in Univs, FindMetric(u)
  PROVE  IngestTypes' /\ Frame(u) /\ JobOK(u)'
<1> DEFINE found == LookUp(run.cat, Job(u).name)
<1>1. Job(u).pc = "find" /\ UNCHANGED <<category, dept, deptRow>>
  BY DEF FindMetric
<1>2. /\ Job(u) \in JobRecord /\ Job(u).name \in Names /\ Job(u).dept \in Depts \cup {ALL}
      /\ run \in RunRecord /\ run.phase # "off" /\ run.promise[Job(u).name] = Pending
      /\ run.cat # NULL
  BY <1>1, AskingJob DEF Asking, Owning, JobOK
<1>3. CASE found = {}
  <2> DEFINE job == [Job(u) EXCEPT !.pc = "insert"]
  <2>1. "insert" \in JobPcs
    BY DEF JobPcs
  <2>2. job \in JobRecord /\ job.pc = "insert" /\ job.name = Job(u).name /\ job.dept = Job(u).dept
    BY <1>2, <2>1, MovedJob
  <2>3. SetJob(u, job) /\ UNCHANGED metric
    BY <1>3 DEF FindMetric
  <2> HIDE DEF job
  <2>4. Sets(u, job, run.promise, run.cat)
    BY <1>2, <2>2, <2>3, SetJobSets
  <2>5. IngestTypes'
    BY <1>1, <2>3, <2>4 DEF IngestInv, IngestTypes, Sets
  <2>6. \A k \in MetricIds : HasDeptRows(k)' <=> HasDeptRows(k)
    BY <1>1 DEF HasDeptRows
  <2>7. Frame(u)
    BY <1>1, <1>2, <2>2, <2>3, <2>4, <2>6 DEF Frame, Owning, Sets
  <2>8. JobOK(u)'
    <3>1. Job(u)' = job /\ run'.promise = run.promise /\ run'.cat = run.cat /\ run'.phase = run.phase
      BY <2>4 DEF Job, Sets
    <3>2. (LookUp(run.cat, Job(u).name) = {})'
      BY <1>3, <2>2, <2>3, <3>1 DEF LookUp
    <3> QED
      BY <1>2, <2>2, <3>1, <3>2 DEF JobOK, Asking, Owning
  <2> QED
    BY <2>5, <2>7, <2>8
<1>4. CASE found # {}
  <2>1. PICK i \in found :
          /\ metric' = IF Job(u).dept # ALL THEN [metric EXCEPT ![i] = WithDeptSuffix(@)] ELSE metric
          /\ run' = [run EXCEPT !.promise[Job(u).name] = i, !.job[u].pc = "write"]
    BY <1>4 DEF FindMetric
  <2>2. i \in MetricIds /\ metric[i] # NULL /\ metric[i] \in MetricRow
    BY <2>1 DEF LookUp, IngestInv, IngestTypes
  <2>3. /\ WithDeptSuffix(metric[i]) \in MetricRow
        /\ WithDeptSuffix(metric[i]).cat = metric[i].cat /\ WithDeptSuffix(metric[i]).name = metric[i].name
    BY <2>2 DEF WithDeptSuffix, MetricRow, Suffixes
  <2>4. WithDeptSuffix(metric[i]) # NULL
    BY <2>3, IngestAssumption
  <2>5. /\ metric' \in [MetricIds -> {NULL} \cup MetricRow] /\ metric'[i] # NULL
        /\ metric'[i].cat = metric[i].cat /\ metric'[i].name = metric[i].name
        /\ \A k \in MetricIds \ {i} : metric'[k] = metric[k]
    BY <2>1, <2>2, <2>3, <2>4 DEF IngestInv, IngestTypes
  <2> QED
    BY <1>1, <2>1, <2>2, <2>5, OwnerKeepsPromise
<1> QED
  BY <1>3, <1>4

\* A free row has a first one.
LEMMA FirstFree ==
  ASSUME NEW S \in SUBSET MetricIds, S # {}
  PROVE  Min(S) \in S
<1> DEFINE R == {p \in Nat \X Nat : p[1] < p[2]}
<1>1. S \subseteq Nat /\ S # {}
  BY DEF MetricIds
<1>2. IsWellFoundedOn(R, Nat)
  <2>1. R = OpToRel(<, Nat)
    BY Zenon DEF OpToRel
  <2> QED
    BY <2>1, NatLessThanWellFounded
<1>3. PICK x \in S : \A y \in S : <<y, x>> \notin R
  <2> HIDE DEF R
  <2> QED
    BY <1>1, <1>2, WFMin
<1>4. \A y \in S : x <= y
  <2> SUFFICES ASSUME NEW y \in S, y < x PROVE FALSE
    BY <1>1
  <2>1. <<y, x>> \in R
    BY <1>1
  <2> QED
    BY <1>3, <2>1
<1> QED
  BY <1>4 DEF Min

LEMMA InsertMetricStep ==
  ASSUME IngestInv, NEW u \in Univs, InsertMetric(u)
  PROVE  IngestTypes' /\ Frame(u) /\ JobOK(u)'
<1> DEFINE free == {i \in MetricIds : metric[i] = NULL}
           id == Min(free)
           row == [cat |-> run.cat, name |-> Job(u).name,
                   suffix |-> IF Job(u).dept # ALL THEN "dept" ELSE ""]
<1>1. /\ Job(u).pc = "insert" /\ UNCHANGED <<category, dept, deptRow>> /\ free # {}
      /\ metric' = [metric EXCEPT ![id] = row]
      /\ run' = [run EXCEPT !.promise[Job(u).name] = id, !.job[u].pc = "write"]
  BY DEF InsertMetric
<1>2. /\ Job(u).name \in Names /\ run.cat # NULL /\ run.cat \in Categories
  BY <1>1, AskingJob DEF Asking, Owning, JobOK, RunRecord
<1>3. free \in SUBSET MetricIds
  OBVIOUS
<1>4. id \in MetricIds /\ metric[id] = NULL
  <2>1. id \in free
    BY <1>1, <1>3, FirstFree
  <2> QED
    BY <2>1
<1>5. row \in MetricRow /\ row.cat = run.cat /\ row.name = Job(u).name
  BY <1>2 DEF MetricRow, Suffixes
<1> HIDE DEF row, id, free
<1>6. row # NULL
  BY <1>5, IngestAssumption
<1>7. /\ metric' \in [MetricIds -> {NULL} \cup MetricRow] /\ metric'[id] = row
      /\ \A k \in MetricIds \ {id} : metric'[k] = metric[k]
  BY <1>1, <1>4, <1>5 DEF IngestInv, IngestTypes
<1> QED
  BY <1>1, <1>4, <1>5, <1>6, <1>7, OwnerKeepsPromise

LEMMA JobFailsStep ==
  ASSUME IngestInv, NEW u \in Univs, JobFails(u)
  PROVE  IngestTypes' /\ Frame(u) /\ JobOK(u)'
<1> DEFINE promise == IF Job(u).pc \in Owning
                      THEN [run.promise EXCEPT ![Job(u).name] = Rejected] ELSE run.promise
<1>1. /\ Job(u).pc \in {"next", "category", "create", "find", "insert", "write"}
      /\ UNCHANGED <<category, metric, dept, deptRow>>
      /\ run' = [run EXCEPT !.job[u] = IdleJob, !.promise = promise]
  BY DEF JobFails, Owning
<1>2. /\ Job(u) \in JobRecord /\ IdleJob \in JobRecord /\ IdleJob.pc = "done"
      /\ run \in RunRecord /\ run.phase # "off"
      /\ Job(u).pc \in Owning => Job(u).name \in Names
  BY <1>1, JobType DEF IngestInv, IngestTypes, JobOK, Asking
<1>3. /\ promise \in [Names -> MetricIds \cup {NULL, Pending, Rejected}]
      /\ \A n \in Names : \/ promise[n] = run.promise[n]
                          \/ n = Job(u).name /\ promise[n] = Rejected /\ Job(u).pc \in Owning
  BY <1>2 DEF RunRecord
<1> HIDE DEF promise
<1>4. Sets(u, IdleJob, promise, run.cat)
  <2>1. /\ run' \in RunRecord /\ run'.phase = run.phase /\ (run'.due <=> run.due)
        /\ run'.promise = promise /\ run'.cat = run.cat
        /\ run'.job[u] = IdleJob /\ \A v \in Univs \ {u} : run'.job[v] = run.job[v]
    BY <1>1, <1>2, <1>3 DEF RunRecord
  <2>2. run'.due = run.due
    BY <1>2, <2>1 DEF RunRecord
  <2> QED
    BY <2>1, <2>2 DEF Sets
<1>5. IngestTypes'
  BY <1>1, <1>4 DEF IngestInv, IngestTypes, Sets
<1>6. \A k \in MetricIds : HasDeptRows(k)' <=> HasDeptRows(k)
  BY <1>1 DEF HasDeptRows
<1>7. Frame(u)
  BY <1>1, <1>2, <1>3, <1>4, <1>6, IngestAssumption DEF Frame, Owning, Sets
<1>8. JobOK(u)'
  <2>1. Job(u)' = IdleJob /\ run'.phase = run.phase
    BY <1>4 DEF Job, Sets
  <2> QED
    BY <1>2, <2>1 DEF JobOK, Asking, Owning
<1> QED
  BY <1>5, <1>7, <1>8

LEMMA JobStepKeepsInv ==
  ASSUME IngestInv, NEW u \in Univs, JobStep(u)
  PROVE  IngestInv'
<1>1. IngestTypes' /\ Frame(u) /\ JobOK(u)'
  BY MajorItemStep, CloseOthersStep, StatsItemStep, AskMetricStep, FindCategoryStep,
     CreateCategoryStep, FindMetricStep, InsertMetricStep, AwakeStep, UpsertRawStep, JobFailsStep,
     JobEndsStep DEF JobStep
<1> QED
  BY <1>1, FrameKeepsIngest

-----------------------------------------------------------------------------
(* The steps of the whole run.                                             *)

LEMMA StartedRun ==
  ASSUME run \in RunRecord, NEW p \in {"departments", "statistics"}, StartPhase(p)
  PROVE  /\ run' \in RunRecord /\ run'.phase = p /\ run'.cat = NULL /\ run'.due = TRUE
         /\ \A n \in Names : run'.promise[n] = NULL
         /\ \A u \in Univs : run'.job[u].pc = "next"
<1> DEFINE job == [IdleJob EXCEPT !.pc = "next"]
<1>1. run.crashes \in Nat
  BY DEF RunRecord
<1>2. job \in JobRecord /\ job.pc = "next"
  BY DEF IdleJob, JobRecord, JobPcs
<1>3. run' = [Off(run.crashes, TRUE) EXCEPT !.phase = p, !.job = [u \in Univs |-> job]]
  BY DEF StartPhase
<1> HIDE DEF job
<1> QED
  BY <1>1, <1>2, <1>3 DEF Off, RunRecord

\* Empty caches and jobs that own nothing leave the registry to speak for itself.
LEMMA FreshRun ==
  ASSUME IngestInv, run' \in RunRecord, run'.cat = NULL,
         \A n \in Names : run'.promise[n] = NULL,
         \/ run'.phase = "off" /\ \A u \in Univs : run'.job[u].pc = "done"
         \/ run'.phase # "off" /\ run'.due = TRUE /\ \A u \in Univs : run'.job[u].pc = "next",
         UNCHANGED <<category, dept, deptRow>>,
         metric' \in [MetricIds -> {NULL} \cup MetricRow],
         \A i \in MetricIds :
           IF metric[i] # NULL
           THEN metric'[i] # NULL /\ metric'[i].cat = metric[i].cat /\ metric'[i].name = metric[i].name
           ELSE metric'[i] = NULL,
         DeptRowsLabelled'
  PROVE  IngestInv'
<1>1. IngestTypes'
  BY DEF IngestInv, IngestTypes
<1>2. \A i \in MetricIds : HasDeptRows(i)' <=> HasDeptRows(i)
  BY DEF HasDeptRows
<1>3. \A u \in Univs : Job(u)'.pc \in {"next", "done"}
  BY DEF Job
<1>4. \A u \in Univs : JobOK(u)'
  BY <1>3 DEF JobOK, Asking, Owning, Job
<1>5. OneOwner'
  BY <1>3 DEF OneOwner, Owning
<1>6. MetricOnce'
  BY DEF IngestInv, MetricOnce
<1>7. \A n \in Names : run'.promise[n] \notin MetricIds
  BY IngestAssumption
<1> QED
  BY <1>1, <1>2, <1>4, <1>5, <1>6, <1>7 DEF IngestInv

LEMMA StartSyncKeepsInv ==
  ASSUME IngestInv, StartSync
  PROVE  IngestInv'
<1>1. StartPhase("departments") /\ UNCHANGED <<category, metric, dept, deptRow>> /\ run \in RunRecord
  BY DEF StartSync, IngestInv, IngestTypes
<1>2. /\ run' \in RunRecord /\ run'.phase = "departments" /\ run'.cat = NULL /\ run'.due = TRUE
      /\ \A n \in Names : run'.promise[n] = NULL
      /\ \A u \in Univs : run'.job[u].pc = "next"
  BY <1>1, StartedRun
<1>3. DeptRowsLabelled'
  BY <1>2 DEF DeptRowsLabelled
<1>4. metric' \in [MetricIds -> {NULL} \cup MetricRow]
  BY <1>1 DEF IngestInv, IngestTypes
<1> QED
  BY <1>1, <1>2, <1>3, <1>4, FreshRun

LEMMA LabelKeepsInv ==
  ASSUME IngestInv, Label
  PROVE  IngestInv'
<1>1. /\ metric' = Labelled /\ UNCHANGED <<category, dept, deptRow>> /\ run \in RunRecord
      /\ run.crashes \in Nat
  BY DEF Label, IngestInv, IngestTypes, RunRecord
<1>2. \A r \in MetricRow : /\ WithDeptSuffix(r) \in MetricRow /\ HasDeptSuffix(WithDeptSuffix(r))
                           /\ WithDeptSuffix(r).cat = r.cat /\ WithDeptSuffix(r).name = r.name
                           /\ WithDeptSuffix(r) # NULL
  BY IngestAssumption DEF WithDeptSuffix, HasDeptSuffix, MetricRow, Suffixes
<1>3. \A i \in MetricIds : metric[i] # NULL => metric[i] \in MetricRow
  BY DEF IngestInv, IngestTypes
<1>4. \A i \in MetricIds :
        IF metric[i] # NULL
        THEN /\ metric'[i] \in MetricRow /\ metric'[i] # NULL
             /\ metric'[i].cat = metric[i].cat /\ metric'[i].name = metric[i].name
             /\ HasDeptRows(i) => HasDeptSuffix(metric'[i])
        ELSE metric'[i] = NULL
  BY <1>1, <1>2, <1>3 DEF Labelled
<1>5. metric' \in [MetricIds -> {NULL} \cup MetricRow]
  BY <1>1, <1>4 DEF Labelled
<1>6. \A i \in MetricIds : HasDeptRows(i)' <=> HasDeptRows(i)
  BY <1>1 DEF HasDeptRows
<1>7. DeptRowsLabelled'
  BY <1>4, <1>6 DEF DeptRowsLabelled, IngestInv
<1>8. CASE run.phase = "departments"
  <2>1. StartPhase("statistics")
    BY <1>8 DEF Label
  <2>2. /\ run' \in RunRecord /\ run'.phase = "statistics" /\ run'.cat = NULL /\ run'.due = TRUE
        /\ \A n \in Names : run'.promise[n] = NULL
        /\ \A u \in Univs : run'.job[u].pc = "next"
    BY <1>1, <2>1, StartedRun
  <2> QED
    BY <1>1, <1>4, <1>5, <1>7, <2>2, FreshRun
<1>9. CASE run.phase # "departments"
  <2>1. run' = Off(run.crashes, FALSE)
    BY <1>9 DEF Label
  <2>2. /\ run' \in RunRecord /\ run'.phase = "off" /\ run'.cat = NULL
        /\ \A n \in Names : run'.promise[n] = NULL
        /\ \A u \in Univs : run'.job[u].pc = "done"
    BY <1>1, <2>1 DEF Off, RunRecord, IdleJob, JobRecord, JobPcs
  <2> QED
    BY <1>1, <1>4, <1>5, <1>7, <2>2, FreshRun
<1> QED
  BY <1>8, <1>9

LEMMA ServerDiesKeepsInv ==
  ASSUME IngestInv, ServerDies
  PROVE  IngestInv'
<1>1. /\ run' = Off(run.crashes + 1, TRUE) /\ UNCHANGED <<category, metric, dept, deptRow>>
      /\ run.crashes + 1 \in Nat
  BY DEF ServerDies, IngestInv, IngestTypes, RunRecord
<1>2. /\ run' \in RunRecord /\ run'.phase = "off" /\ run'.cat = NULL /\ (run'.due <=> TRUE)
      /\ \A n \in Names : run'.promise[n] = NULL
      /\ \A u \in Univs : run'.job[u].pc = "done"
  BY <1>1 DEF Off, RunRecord, IdleJob, JobRecord, JobPcs
<1>3. DeptRowsLabelled'
  BY <1>2 DEF DeptRowsLabelled
<1>4. metric' \in [MetricIds -> {NULL} \cup MetricRow]
  BY <1>1 DEF IngestInv, IngestTypes
<1> QED
  BY <1>1, <1>2, <1>3, <1>4, FreshRun

LEMMA InitIngest == IngestInit => IngestInv
<1> SUFFICES ASSUME IngestInit PROVE IngestInv
  OBVIOUS
<1>1. category \subseteq {1} /\ category \subseteq Categories
  BY DEF IngestInit, Categories
<1>2. \/ metric = [i \in MetricIds |-> NULL]
      \/ \E n \in Names : /\ metric = [i \in MetricIds |->
                                IF i = 1 THEN [cat |-> 1, name |-> n, suffix |-> "legacy"] ELSE NULL]
                          /\ 1 \in category
  BY <1>1 DEF IngestInit
<1>3. \A n \in Names : [cat |-> 1, name |-> n, suffix |-> "legacy"] \in MetricRow
  BY DEF MetricRow, Suffixes, Categories
<1>4. metric \in [MetricIds -> {NULL} \cup MetricRow]
  BY <1>2, <1>3
<1>5. \A i \in MetricIds : metric[i] # NULL => i = 1 /\ metric[i].cat = 1 /\ 1 \in category
  BY <1>2
<1>6. MetricOnce
  BY <1>5 DEF MetricOnce
<1>7. /\ run \in RunRecord /\ run.phase = "off" /\ run.cat = NULL
      /\ \A n \in Names : run.promise[n] = NULL
      /\ \A u \in Univs : run.job[u].pc = "done"
  <2>1. run = Off(0, FALSE)
    BY DEF IngestInit
  <2> QED
    BY <2>1 DEF Off, RunRecord, IdleJob, JobRecord, JobPcs
<1>8. deptRow = {} /\ dept \in [Univs \X Depts -> {"none", "active", "closed"}]
  BY DEF IngestInit
<1>9. \A i \in MetricIds : ~HasDeptRows(i)
  BY <1>8 DEF HasDeptRows
<1>10. IngestTypes
  BY <1>1, <1>4, <1>7, <1>8 DEF IngestTypes
<1>11. \A u \in Univs : JobOK(u)
  BY <1>7 DEF JobOK, Job, Asking, Owning
<1>12. OneOwner
  BY <1>7 DEF OneOwner, Job, Owning
<1>13. \A n \in Names : run.promise[n] \notin MetricIds
  BY <1>7, IngestAssumption
<1> QED
  BY <1>5, <1>6, <1>7, <1>9, <1>10, <1>11, <1>12, <1>13 DEF IngestInv, DeptRowsLabelled

LEMMA NextIngest == IngestInv /\ [IngestNext]_ivars => IngestInv'
<1> SUFFICES ASSUME IngestInv, [IngestNext]_ivars PROVE IngestInv'
  OBVIOUS
<1>1. CASE UNCHANGED ivars
  <2>1. UNCHANGED <<category, metric, dept, deptRow, run>>
    BY <1>1 DEF ivars
  <2>2. IngestTypes'
    BY <2>1 DEF IngestInv, IngestTypes
  <2>3. /\ \A i \in MetricIds : HasDeptRows(i)' <=> HasDeptRows(i)
        /\ \A u \in Univs : Job(u)' = Job(u)
        /\ \A c, n : LookUp(c, n)' = LookUp(c, n)
    BY <2>1 DEF HasDeptRows, Job, LookUp
  <2>4. \A u \in Univs : JobOK(u)'
    BY <2>1, <2>3 DEF IngestInv, JobOK
  <2>5. OneOwner' /\ MetricOnce' /\ DeptRowsLabelled'
    BY <2>1, <2>3 DEF IngestInv, OneOwner, MetricOnce, DeptRowsLabelled
  <2> QED
    BY <2>1, <2>2, <2>3, <2>4, <2>5 DEF IngestInv
<1> QED
  BY <1>1, StartSyncKeepsInv, JobStepKeepsInv, LabelKeepsInv, ServerDiesKeepsInv DEF IngestNext

LEMMA IngestIsSound == IngestInv => IngestTypeOK /\ MetricsTellRows
BY DEF IngestInv, IngestTypes, RunRecord, IngestTypeOK, MetricsTellRows

-----------------------------------------------------------------------------
(* The two scenes together.                                                *)

AlimiInv == BatchInv /\ IngestInv

LEMMA AlimiHolds == AlimiSpec => []AlimiInv
<1>1. AlimiInit => AlimiInv
  BY InitBatch, InitIngest DEF AlimiInit, AlimiInv
<1>2. AlimiInv /\ [AlimiNext]_<<scene, bvars, ivars>> => AlimiInv'
  <2> SUFFICES ASSUME AlimiInv, [AlimiNext]_<<scene, bvars, ivars>>
               PROVE  AlimiInv'
    OBVIOUS
  <2>1. [BatchNext]_bvars /\ [IngestNext]_ivars
    BY DEF AlimiNext
  <2> QED
    BY <2>1, NextBatch, NextIngest DEF AlimiInv
<1> QED
  BY <1>1, <1>2, PTL DEF AlimiSpec

\* Over all processes one batch runs at a time, as long as no session is lost with the lock
\* in it, and every variable of the batch and of its jobs stays in its set (the advisory
\* lock of alimi-batch.service.ts, and the tables alimi.service.ts writes).
THEOREM BatchRunsAlone == AlimiSpec => []OneSoundBatch
<1>1. AlimiInv => OneSoundBatch
  BY TypesImply, OneRuns, IngestIsSound DEF AlimiInv, OneSoundBatch, BatchInv
<1> QED
  BY <1>1, AlimiHolds, PTL

\* A run that ends says "completed" only if nothing went wrong on the way, and a run whose
\* statistics all failed does not say so (the final status of runBatch).
THEOREM StatusStaysTrue == AlimiSpec => []StatusIsTrue
<1>1. AlimiInv => StatusIsTrue
  BY StatusIsHonest DEF AlimiInv
<1> QED
  BY <1>1, AlimiHolds, PTL

\* However the jobs of a phase find, create, share and reject the promises of metricLocks,
\* a name of a category is registered once, and between runs the metrics with rows about
\* departments say so in their names (ensureMetric, syncDeptLevelMetricNames).
THEOREM MetricsStayTold == AlimiSpec => []MetricsTellRows
<1>1. AlimiInv => MetricsTellRows
  BY IngestIsSound DEF AlimiInv
<1> QED
  BY <1>1, AlimiHolds, PTL
=============================================================================
