-------------------------- MODULE JobPipelineProofs --------------------------
(***************************************************************************)
(* Theorems about DailyRun and the JobPipeline that drives it, for any     *)
(* number of workers, schedulers, models and any bounds.  About the runs   *)
(* of a day: their safety, and that they implement DailyQuota while        *)
(* nothing overlaps.  About the pipeline: its types, one stream entry per  *)
(* prompt and day, the exclusion the scheduler lock gives, that its        *)
(* workers execute DailyRun, and that a job is done in full while nobody   *)
(* fails.  About AiCall, the call of a model inside an execution: when its *)
(* failure is final, whom it blames, whom it asks, and that it keeps the   *)
(* promise (CallPromise) an execution relies on.                           *)
(***************************************************************************)
EXTENDS JobPipeline, AiCall, FiniteSetTheorems, TLAPS

(***************************************************************************)
(* Type correctness                                                        *)
(***************************************************************************)
LEMMA RowTypes ==
    /\ AbsentRow \in Row /\ NewRow \in Row
    /\ NoSnap \in [Models -> Row]
    /\ IdleExecutor \in Executor
BY DEF AbsentRow, NewRow, NoSnap, IdleExecutor, Row, Executor, Status, Time,
       NoTime, NoRun, PC, Mode, Outcome

\* An executor works on a model of the prompt from acquire_lock to release_lock.
HasCur(x) == x.pc \in {"calling", "record", "extract", "release"} => x.cur \in Models
CurIsModel == \A e \in Executors : HasCur(ex[e])

TInv == TypeOK /\ CurIsModel

LEMMA TypeInit == Init => TInv
BY RowTypes DEF Init, TInv, TypeOK, CurIsModel, HasCur, IdleExecutor

\* What a step of one executor has to show: the other executors keep their state.
LEMMA OneExecutor ==
    ASSUME TInv, NEW e \in Executors, NEW x \in Executor, HasCur(x),
           ex' = [ex EXCEPT ![e] = x],
           rows' \in [Models -> Row], runs' \in [Models -> Seq(RunStatus)],
           now' \in Nat, starts' \in Nat
    PROVE  TInv'
BY DEF TInv, TypeOK, CurIsModel, HasCur

LEMMA TypeStep == TInv /\ [Next]_vars => TInv'
<1> SUFFICES ASSUME TInv, [Next]_vars PROVE TInv'
  OBVIOUS
<1> USE RowTypes
<1>t. /\ rows \in [Models -> Row] /\ runs \in [Models -> Seq(RunStatus)]
      /\ now \in Nat /\ starts \in Nat /\ ex \in [Executors -> Executor]
      /\ \A e \in Executors : HasCur(ex[e])
  BY DEF TInv, TypeOK, CurIsModel
<1>1. ASSUME NEW e \in Executors, NEW md \in Mode, NEW T \in SUBSET Models, Start(e, md, T)
      PROVE  TInv'
  <2> DEFINE x == [IdleExecutor EXCEPT !.pc = "insert", !.mode = md, !.targets = T,
                                       !.snap = rows]
  <2>1. x \in Executor /\ HasCur(x)
    BY <1>t DEF HasCur, Executor, PC, IdleExecutor
  <2> QED
    <3>1. ex' = [ex EXCEPT ![e] = x] /\ starts' = starts + 1
      BY <1>1 DEF Start
    <3>2. rows' = rows /\ runs' = runs /\ now' = now
      BY <1>1 DEF Start
    <3>3. starts' \in Nat
      BY <1>t, <3>1
    <3> QED
      BY <1>t, <2>1, <3>1, <3>2, <3>3, OneExecutor
<1>2. ASSUME NEW e \in Executors, InsertRows(e)
      PROVE  TInv'
  <2> DEFINE x == [ex[e] EXCEPT !.pc = IF ex[e].mode = "auto" THEN "list" ELSE "load"]
  <2>1. x \in Executor /\ HasCur(x)
    BY <1>t DEF HasCur, Executor, PC
  <2>2. rows' \in [Models -> Row]
    BY <1>2, <1>t DEF InsertRows
  <2> QED
    BY <1>2, <1>t, <2>1, <2>2, OneExecutor DEF InsertRows
<1>3. ASSUME NEW e \in Executors, InsertConflict(e) \/ Finish(e) \/ Crash(e)
      PROVE  TInv'
  <2>1. HasCur(IdleExecutor)
    BY DEF HasCur, IdleExecutor
  <2> QED
    BY <1>3, <1>t, <2>1, OneExecutor DEF InsertConflict, Finish, Crash
<1>4. ASSUME NEW e \in Executors, LoadForReset(e)
      PROVE  TInv'
  <2> DEFINE x == [ex[e] EXCEPT !.pc = "reset", !.snap = rows]
  <2>1. x \in Executor /\ HasCur(x)
    BY <1>t DEF HasCur, Executor, PC
  <2> QED
    BY <1>4, <1>t, <2>1, OneExecutor DEF LoadForReset
<1>5. ASSUME NEW e \in Executors, Reset(e)
      PROVE  TInv'
  <2> DEFINE x == [ex[e] EXCEPT !.pc = "list"]
  <2>1. x \in Executor /\ HasCur(x)
    BY <1>t DEF HasCur, Executor, PC
  <2>2. \A m \in Models : ResetRow(ex[e].mode, ex[e].snap[m], rows[m]) \in Row
    <3> SUFFICES ASSUME NEW m \in Models
                 PROVE  ResetRow(ex[e].mode, ex[e].snap[m], rows[m]) \in Row
      OBVIOUS
    <3>1. rows[m] \in Row
      BY <1>t
    <3> QED
      BY <3>1 DEF ResetRow, Flushed, Row, Status, Time, NoTime, NoRun
  <2>3. rows' \in [Models -> Row]
    BY <1>5, <1>t, <2>2 DEF Reset
  <2> QED
    BY <1>5, <1>t, <2>1, <2>3, OneExecutor DEF Reset
<1>6. ASSUME NEW e \in Executors, ListRunnable(e)
      PROVE  TInv'
  <2> DEFINE x == [ex[e] EXCEPT !.pc = "next", !.snap = rows,
                                !.todo = {m \in ex[e].targets : Runnable(rows[m])}]
  <2>1. x \in Executor /\ HasCur(x)
    BY <1>t DEF HasCur, Executor, PC
  <2> QED
    BY <1>6, <1>t, <2>1, OneExecutor DEF ListRunnable
<1>7. ASSUME NEW e \in Executors, NEW m \in Models, Acquire(e, m)
      PROVE  TInv'
  <2> DEFINE x == [ex[e] EXCEPT !.pc = "calling", !.cur = m, !.since = now,
                                !.todo = ex[e].todo \ {m}]
  <2>1. x \in Executor /\ HasCur(x)
    BY <1>t DEF HasCur, Executor, PC
  <2>2. [rows[m] EXCEPT !.lockedAt = now] \in Row
    BY <1>t DEF Row, Time
  <2>3. rows' \in [Models -> Row]
    BY <1>7, <1>t, <2>2 DEF Acquire
  <2> QED
    BY <1>7, <1>t, <2>1, <2>3, OneExecutor DEF Acquire
<1>8. ASSUME NEW e \in Executors, NEW m \in Models, Skip(e, m)
      PROVE  TInv'
  <2> DEFINE x == [ex[e] EXCEPT !.todo = ex[e].todo \ {m}]
  <2>1. x \in Executor /\ HasCur(x)
    BY <1>t DEF HasCur, Executor
  <2> QED
    BY <1>8, <1>t, <2>1, OneExecutor DEF Skip
<1>9. ASSUME NEW e \in Executors, NEW o \in Outcome, Answer(e, o)
      PROVE  TInv'
  <2> DEFINE m == ex[e].cur
             x == [ex[e] EXCEPT !.pc = "record", !.outcome = o, !.run = Len(runs[m]) + 1]
  <2>1. m \in Models
    BY <1>9, <1>t DEF HasCur, Answer
  <2>2. /\ runs[m] \in Seq(RunStatus) /\ Len(runs[m]) + 1 \in Nat
        /\ RunOf(o) \in RunStatus
    BY <1>t, <2>1 DEF RunOf, RunStatus
  <2>3. x \in Executor /\ HasCur(x)
    BY <1>t, <2>1, <2>2 DEF HasCur, Executor, PC
  <2>4. runs' \in [Models -> Seq(RunStatus)]
    BY <1>9, <1>t, <2>1, <2>2 DEF Answer
  <2> QED
    BY <1>9, <1>t, <2>3, <2>4, OneExecutor DEF Answer
<1>10. ASSUME NEW e \in Executors, MarkSuccess(e) \/ MarkFailure(e)
       PROVE  TInv'
  <2> DEFINE m == ex[e].cur
             x == [ex[e] EXCEPT !.pc = "extract", !.since = now]
             y == [ex[e] EXCEPT !.pc = "release"]
  <2>1. m \in Models
    BY <1>10, <1>t DEF HasCur, MarkSuccess, MarkFailure
  <2>2. rows[m] \in Row /\ ex[e].snap[m] \in Row /\ ex[e].run \in Nat
    BY <1>t, <2>1 DEF Executor
  <2>3. SeenAttempts(e) \in Nat
    BY <2>2 DEF SeenAttempts, Row
  <2>4. SuccessRow(e) \in Row
    BY <2>2, <2>3 DEF SuccessRow, Row, Status, Time, NoTime
  <2>5. FailureRow(e) \in Row
    BY <1>t, <2>2, <2>3, NumbersAssumption DEF FailureRow, Row, Status, Time, NoTime
  <2>6. /\ x \in Executor /\ HasCur(x)
        /\ y \in Executor /\ HasCur(y)
    BY <1>t, <2>1 DEF HasCur, Executor, PC
  <2>7. rows' \in [Models -> Row]
    BY <1>10, <1>t, <2>4, <2>5 DEF MarkSuccess, MarkFailure
  <2>8. CASE MarkSuccess(e)
    BY <2>8, <1>t, <2>6, <2>7, OneExecutor DEF MarkSuccess
  <2>9. CASE MarkFailure(e)
    BY <2>9, <1>t, <2>6, <2>7, OneExecutor DEF MarkFailure
  <2> QED
    BY <1>10, <2>8, <2>9
<1>11. ASSUME NEW e \in Executors, Extracted(e)
       PROVE  TInv'
  <2>1. PICK b \in BOOLEAN :
           ex' = [ex EXCEPT ![e] = [@ EXCEPT
                     !.pc = "release", !.expired = ex[e].expired \/ b]]
    BY <1>11 DEF Extracted
  <2> DEFINE x == [ex[e] EXCEPT !.pc = "release", !.expired = ex[e].expired \/ b]
  <2>2. ex[e].cur \in Models
    BY <1>11, <1>t DEF HasCur, Extracted
  <2>3. (ex[e].expired \/ b) \in BOOLEAN
    BY <1>t DEF HasCur, Executor
  <2>4. x \in Executor /\ HasCur(x)
    BY <1>t, <2>2, <2>3 DEF HasCur, Executor, PC
  <2> QED
    BY <1>11, <1>t, <2>1, <2>4, OneExecutor DEF Extracted
<1>12. ASSUME NEW e \in Executors, Release(e)
       PROVE  TInv'
  <2> DEFINE x == [ex[e] EXCEPT !.pc = "next", !.cur = NoModel, !.since = 0,
                                !.outcome = "answer", !.run = NoRun]
  <2>1. x \in Executor /\ HasCur(x)
    BY <1>t DEF HasCur, Executor, PC, Outcome, NoRun
  <2>2. \A m \in Models : [rows[m] EXCEPT !.lockedAt = NoTime] \in Row
    BY <1>t DEF Row, Time
  <2>3. rows' \in [Models -> Row]
    BY <1>12, <1>t, <2>2 DEF Release
  <2> QED
    BY <1>12, <1>t, <2>1, <2>3, OneExecutor DEF Release
<1>13. CASE Tick
  BY <1>13 DEF Tick, TInv, TypeOK, CurIsModel
<1>14. CASE UNCHANGED vars
  BY <1>14 DEF vars, TInv, TypeOK, CurIsModel
<1> QED
  BY <1>1, <1>2, <1>3, <1>4, <1>5, <1>6, <1>7, <1>8, <1>9, <1>10, <1>11, <1>12, <1>13, <1>14
     DEF Next, Step, StartDaily, StartManual, Targets, Executors, Mode

\* The variables of DailyRun keep their types.
THEOREM TypeCorrect == Spec => []TypeOK
<1>1. Spec => []TInv
  BY TypeInit, TypeStep, PTL DEF Spec
<1> QED
  BY <1>1, PTL DEF TInv

(***************************************************************************)
(* What one step may do to a row and to the objects an executor has loaded *)
(***************************************************************************)
Relocked(old, new) == \E t \in Time : new = [old EXCEPT !.lockedAt = t]
ResetBy(e, m) ==
    /\ ex[e].pc = "reset"
    /\ IsReset(ex[e].mode, ex[e].snap[m])
    /\ rows'[m] = ResetRow(ex[e].mode, ex[e].snap[m], rows[m])
MarkedBy(e, m) ==
    /\ ex[e].pc = "record" /\ ex[e].cur = m /\ ex'[e].pc # "record"
    /\ \/ ex[e].outcome = "answer" /\ rows'[m] = SuccessRow(e)
       \/ ex[e].outcome # "answer" /\ rows'[m] = FailureRow(e)

LEMMA RowStep ==
    ASSUME TInv, [Next]_vars, NEW m \in Models
    PROVE  \/ rows'[m] = rows[m]
           \/ rows'[m] = NewRow
           \/ Relocked(rows[m], rows'[m])
           \/ \E e \in Executors : ResetBy(e, m) \/ MarkedBy(e, m)
<1>t. rows \in [Models -> Row] /\ now \in Nat /\ \A e \in Executors : HasCur(ex[e])
  BY DEF TInv, TypeOK, CurIsModel
<1>1. CASE UNCHANGED rows
  BY <1>1
<1>2. ASSUME NEW e \in Executors, InsertRows(e)
      PROVE  rows'[m] = rows[m] \/ rows'[m] = NewRow
  BY <1>2 DEF InsertRows
<1>3. ASSUME NEW e \in Executors, Reset(e)
      PROVE  rows'[m] = rows[m] \/ ResetBy(e, m)
  BY <1>3 DEF Reset, ResetBy
<1>4. ASSUME NEW e \in Executors, NEW k \in Models, Acquire(e, k)
      PROVE  rows'[m] = rows[m] \/ Relocked(rows[m], rows'[m])
  BY <1>4, <1>t DEF Acquire, Relocked, Time
<1>5. ASSUME NEW e \in Executors, MarkSuccess(e) \/ MarkFailure(e)
      PROVE  rows'[m] = rows[m] \/ MarkedBy(e, m)
  <2>1. ex[e] \in Executor /\ ex \in [Executors -> Executor]
    BY DEF TInv, TypeOK
  <2>2. CASE MarkSuccess(e)
    <3>1. ex'[e].pc = "extract"
      BY <2>1, <2>2 DEF MarkSuccess, Executor
    <3> QED
      BY <2>2, <3>1, <1>t DEF MarkSuccess, MarkedBy
  <2>3. CASE MarkFailure(e)
    <3>1. ex'[e].pc = "release"
      BY <2>1, <2>3 DEF MarkFailure, Executor
    <3> QED
      BY <2>3, <3>1, <1>t DEF MarkFailure, MarkedBy
  <2> QED
    BY <1>5, <2>2, <2>3
<1>6. ASSUME NEW e \in Executors, Release(e)
      PROVE  rows'[m] = rows[m] \/ Relocked(rows[m], rows'[m])
  BY <1>6, <1>t DEF Release, Relocked, Time
<1>7. ASSUME Next
      PROVE  \/ UNCHANGED rows
             \/ \E e \in Executors : InsertRows(e) \/ Reset(e) \/ MarkSuccess(e)
                                   \/ MarkFailure(e) \/ Release(e)
             \/ \E e \in Executors, k \in Models : Acquire(e, k)
  BY <1>7 DEF Next, Step, StartDaily, StartManual, Start, InsertConflict, LoadForReset,
              ListRunnable, Skip, Finish, Answer, Extracted, Crash, Tick
<1> QED
  BY <1>1, <1>2, <1>3, <1>4, <1>5, <1>6, <1>7 DEF vars

LEMMA SnapStep ==
    ASSUME TInv, [Next]_vars, NEW f \in Executors
    PROVE  ex'[f].snap \in {ex[f].snap, rows, NoSnap}
<1>t. ex \in [Executors -> Executor]
  BY DEF TInv, TypeOK
<1> DEFINE Kept == ex'[f].snap \in {ex[f].snap, rows, NoSnap}
<1>1. ASSUME NEW e \in Executors, NEW md \in Mode, NEW T \in Targets, Start(e, md, T)
      PROVE  Kept
  BY <1>1, <1>t DEF Start, IdleExecutor
<1>2. ASSUME NEW e \in Executors,
             InsertConflict(e) \/ Finish(e) \/ Crash(e)
      PROVE  Kept
  BY <1>2, <1>t DEF InsertConflict, Finish, Crash, IdleExecutor
<1>3. ASSUME NEW e \in Executors, LoadForReset(e) \/ ListRunnable(e)
      PROVE  Kept
  BY <1>3, <1>t DEF LoadForReset, ListRunnable, Executor
<1>4. ASSUME NEW e \in Executors,
             InsertRows(e) \/ Reset(e) \/ MarkSuccess(e) \/ MarkFailure(e) \/ Release(e)
      PROVE  Kept
  <2>1. ex[e] \in Executor
    BY <1>t
  <2>2. CASE InsertRows(e) \/ Reset(e) \/ MarkFailure(e)
    BY <2>1, <2>2, <1>t DEF InsertRows, Reset, MarkFailure, Executor
  <2>3. CASE MarkSuccess(e)
    BY <2>1, <2>3, <1>t DEF MarkSuccess, Executor
  <2>4. CASE Release(e)
    BY <2>1, <2>4, <1>t DEF Release, Executor
  <2> QED
    BY <1>4, <2>2, <2>3, <2>4
<1>5. ASSUME NEW e \in Executors, NEW m \in Models, Acquire(e, m) \/ Skip(e, m)
      PROVE  Kept
  <2>1. ex[e] \in Executor
    BY <1>t
  <2>2. CASE Acquire(e, m)
    BY <2>1, <2>2, <1>t DEF Acquire, Executor
  <2>3. CASE Skip(e, m)
    BY <2>1, <2>3, <1>t DEF Skip, Executor
  <2> QED
    BY <1>5, <2>2, <2>3
<1>6. ASSUME NEW e \in Executors, NEW o \in Outcome, Answer(e, o)
      PROVE  Kept
  <2>1. ex[e] \in Executor
    BY <1>t
  <2>2. ex'[f].snap = ex[f].snap
    BY <2>1, <1>6, <1>t DEF Answer, Executor
  <2> QED
    BY <2>2
<1>7. ASSUME NEW e \in Executors, Extracted(e)
      PROVE  Kept
  BY <1>7, <1>t DEF Extracted, Executor
<1>8. CASE UNCHANGED ex
  BY <1>8
<1>9. ASSUME Tick \/ UNCHANGED vars
      PROVE  UNCHANGED ex
  BY <1>9 DEF Tick, vars
<1> QED
  BY <1>1, <1>2, <1>3, <1>4, <1>5, <1>6, <1>7, <1>8, <1>9
     DEF Next, Step, StartDaily, StartManual, Executors, Mode

(***************************************************************************)
(* The retry budget.  A reset writes only the columns that differ from the *)
(* loaded row, so the loaded rows have to respect the budget too.          *)
(***************************************************************************)
BInv == /\ RetryBudget
        /\ \A e \in Executors, m \in Models : BudgetOf(ex[e].snap[m])

LEMMA BudgetStep == TInv /\ BInv /\ [Next]_vars => BInv'
<1> SUFFICES ASSUME TInv, BInv, [Next]_vars PROVE BInv'
  OBVIOUS
<1>t. /\ rows \in [Models -> Row] /\ ex \in [Executors -> Executor]
      /\ \A m \in Models : BudgetOf(rows[m])
      /\ \A e \in Executors, m \in Models : BudgetOf(ex[e].snap[m])
  BY DEF TInv, TypeOK, BInv, RetryBudget
<1>1. ASSUME NEW m \in Models PROVE BudgetOf(rows'[m])
  <2>1. CASE rows'[m] = rows[m]
    BY <2>1, <1>t
  <2>2. CASE rows'[m] = NewRow
    BY <2>2 DEF NewRow, AbsentRow, BudgetOf
  <2>3. CASE Relocked(rows[m], rows'[m])
    BY <2>3, <1>t DEF Relocked, BudgetOf, Row
  <2>4. ASSUME NEW e \in Executors, ResetBy(e, m) PROVE BudgetOf(rows'[m])
    <3>1. rows[m] \in Row /\ ex[e].snap[m] \in Row
      BY <1>t DEF Executor
    <3>2. BudgetOf(rows[m]) /\ BudgetOf(ex[e].snap[m])
      BY <1>t
    <3> QED
      BY <2>4, <3>1, <3>2 DEF ResetBy, IsReset, ResetRow, Flushed, BudgetOf, Row, Status
  <2>5. ASSUME NEW e \in Executors, MarkedBy(e, m) PROVE BudgetOf(rows'[m])
    <3>1. SeenAttempts(e) \in Nat
      BY <2>5, <1>t DEF MarkedBy, SeenAttempts, Executor, Row
    <3> QED
      BY <2>5, <3>1, NumbersAssumption
         DEF MarkedBy, SuccessRow, FailureRow, Retries, BudgetOf
  <2> QED
    BY <2>1, <2>2, <2>3, <2>4, <2>5, RowStep
<1>2. ASSUME NEW f \in Executors, NEW m \in Models PROVE BudgetOf(ex'[f].snap[m])
  <2>1. BudgetOf(AbsentRow)
    BY DEF BudgetOf, AbsentRow
  <2> QED
    BY <2>1, <1>t, SnapStep DEF NoSnap
<1> QED
  BY <1>1, <1>2 DEF BInv, RetryBudget

\* However executions, manual resets and stale loaded rows interleave, a row is
\* retried automatically only below max_attempts.
THEOREM RetryBudgetHolds == Spec => []RetryBudget
<1>1. Init => BInv
  BY DEF Init, BInv, RetryBudget, BudgetOf, IdleExecutor, NoSnap, AbsentRow
<1>2. Spec => [](TInv /\ BInv)
  BY <1>1, TypeInit, TypeStep, BudgetStep, PTL DEF Spec
<1> QED
  BY <1>2, PTL DEF BInv

(***************************************************************************)
(* What one step may do to an executor, its AI runs and its call           *)
(***************************************************************************)
OwnStep(f) ==
    \/ \E md \in Mode, T \in Targets : Start(f, md, T)
    \/ Step(f)
    \/ Crash(f)

LEMMA ExecutorStep ==
    ASSUME TInv, [Next]_vars, NEW f \in Executors
    PROVE  ex'[f] = ex[f] \/ OwnStep(f)
<1>t. ex \in [Executors -> Executor]
  BY DEF TInv, TypeOK
<1>1. ASSUME NEW e \in Executors, OwnStep(e), e # f
      PROVE  ex'[f] = ex[f]
  BY <1>1, <1>t DEF OwnStep, Step, Start, InsertRows, InsertConflict, LoadForReset, Reset,
       ListRunnable, Acquire, Skip, Finish, Answer, MarkSuccess, MarkFailure, Extracted,
       Release, Crash
<1>2. ASSUME Tick \/ UNCHANGED vars
      PROVE  ex'[f] = ex[f]
  BY <1>2 DEF Tick, vars
<1>3. ASSUME Next
      PROVE  Tick \/ \E e \in Executors : OwnStep(e)
  BY <1>3 DEF Next, StartDaily, StartManual, OwnStep, Executors, Mode
<1> QED
  BY <1>1, <1>2, <1>3

\* An executor comes to record a call only by that call's answer.
LEMMA RecordStep ==
    ASSUME TInv, [Next]_vars, NEW f \in Executors, ex'[f].pc = "record"
    PROVE  \/ ex'[f] = ex[f]
           \/ \E o \in Outcome : Answer(f, o)
<1>t. ex[f] \in Executor /\ ex \in [Executors -> Executor]
  BY DEF TInv, TypeOK
<1>1. ASSUME NEW md \in Mode, NEW T \in Targets, Start(f, md, T) PROVE FALSE
  BY <1>1, <1>t DEF Start, IdleExecutor
<1>2. ASSUME InsertConflict(f) \/ Finish(f) \/ Crash(f) PROVE FALSE
  BY <1>2, <1>t DEF InsertConflict, Finish, Crash, IdleExecutor
<1>3. ASSUME LoadForReset(f) \/ ListRunnable(f) PROVE FALSE
  BY <1>3, <1>t DEF LoadForReset, ListRunnable, Executor
<1>4. ASSUME InsertRows(f) \/ Reset(f) \/ MarkFailure(f) PROVE FALSE
  BY <1>4, <1>t DEF InsertRows, Reset, MarkFailure, Executor
<1>5. ASSUME MarkSuccess(f) PROVE FALSE
  BY <1>5, <1>t DEF MarkSuccess, Executor
<1>6. ASSUME Release(f) PROVE FALSE
  BY <1>6, <1>t DEF Release, Executor
<1>7. ASSUME NEW m \in Models, Acquire(f, m) PROVE FALSE
  BY <1>7, <1>t DEF Acquire, Executor
<1>8. ASSUME NEW m \in Models, Skip(f, m) PROVE FALSE
  BY <1>8, <1>t DEF Skip, Executor
<1>9. ASSUME Extracted(f) PROVE FALSE
  BY <1>9, <1>t DEF Extracted, Executor
<1> QED
  BY <1>1, <1>2, <1>3, <1>4, <1>5, <1>6, <1>7, <1>8, <1>9, ExecutorStep DEF OwnStep, Step

\* An executor comes to call only by acquire_lock.
LEMMA CallStep ==
    ASSUME TInv, [Next]_vars, NEW f \in Executors, ex'[f].pc = "calling"
    PROVE  \/ ex'[f] = ex[f]
           \/ \E m \in Models : Acquire(f, m)
<1>t. ex[f] \in Executor /\ ex \in [Executors -> Executor]
  BY DEF TInv, TypeOK
<1>1. ASSUME NEW md \in Mode, NEW T \in Targets, Start(f, md, T) PROVE FALSE
  BY <1>1, <1>t DEF Start, IdleExecutor
<1>2. ASSUME InsertConflict(f) \/ Finish(f) \/ Crash(f) PROVE FALSE
  BY <1>2, <1>t DEF InsertConflict, Finish, Crash, IdleExecutor
<1>3. ASSUME LoadForReset(f) \/ ListRunnable(f) PROVE FALSE
  BY <1>3, <1>t DEF LoadForReset, ListRunnable, Executor
<1>4. ASSUME InsertRows(f) \/ Reset(f) \/ MarkFailure(f) PROVE FALSE
  BY <1>4, <1>t DEF InsertRows, Reset, MarkFailure, Executor
<1>5. ASSUME MarkSuccess(f) PROVE FALSE
  BY <1>5, <1>t DEF MarkSuccess, Executor
<1>6. ASSUME Release(f) PROVE FALSE
  BY <1>6, <1>t DEF Release, Executor
<1>7. ASSUME NEW o \in Outcome, Answer(f, o) PROVE FALSE
  BY <1>7, <1>t DEF Answer, Executor
<1>8. ASSUME NEW m \in Models, Skip(f, m) PROVE FALSE
  BY <1>8, <1>t DEF Skip, Executor
<1>9. ASSUME Extracted(f) PROVE FALSE
  BY <1>9, <1>t DEF Extracted, Executor
<1> QED
  BY <1>1, <1>2, <1>3, <1>4, <1>5, <1>6, <1>7, <1>8, <1>9, ExecutorStep DEF OwnStep, Step

\* Only the end of a call adds an AI run.
LEMMA RunsStep ==
    ASSUME [Next]_vars
    PROVE  \/ UNCHANGED runs
           \/ \E e \in Executors, o \in Outcome : Answer(e, o)
BY DEF Next, Step, StartDaily, StartManual, Start, InsertRows, InsertConflict, LoadForReset,
       Reset, ListRunnable, Acquire, Skip, Finish, MarkSuccess, MarkFailure, Extracted,
       Release, Crash, Tick, vars

(***************************************************************************)
(* The lease outlives the call                                             *)
(***************************************************************************)
\* A call is never older than its deadline.
CallAge == \A e \in Executors : ex[e].pc = "calling" => now - ex[e].since <= CallDeadline

LEMMA CallAgeStep == TInv /\ CallAge /\ [Next]_vars => CallAge'
<1> SUFFICES ASSUME TInv, CallAge, [Next]_vars, NEW f \in Executors, ex'[f].pc = "calling"
             PROVE  now' - ex'[f].since <= CallDeadline
  BY DEF CallAge
<1>t. now \in Nat /\ ex \in [Executors -> Executor] /\ ex[f].since \in Nat
  BY DEF TInv, TypeOK, Executor
<1>1. ASSUME NEW m \in Models, Acquire(f, m)
      PROVE  now' - ex'[f].since <= CallDeadline
  <2>1. ex'[f].since = now /\ now' = now
    BY <1>1, <1>t DEF Acquire, Executor
  <2> QED
    BY <2>1, <1>t, NumbersAssumption
<1>2. CASE ex'[f] = ex[f] /\ now' = now
  BY <1>2 DEF CallAge
<1>3. CASE ex'[f] = ex[f] /\ Tick
  <2>1. now - ex[f].since < CallDeadline /\ now' = now + 1
    BY <1>3 DEF Tick
  <2> QED
    BY <1>3, <1>t, <2>1, NumbersAssumption
<1>4. now' = now \/ Tick
  BY DEF Next, Step, StartDaily, StartManual, Start, InsertRows, InsertConflict,
         LoadForReset, Reset, ListRunnable, Acquire, Skip, Finish, Answer, MarkSuccess,
         MarkFailure, Extracted, Release, Crash, vars
<1> QED
  BY <1>1, <1>2, <1>3, <1>4, CallStep

\* With a deadline no longer than the lease, acquire_lock never takes over a row
\* whose lock belongs to a call that is still running.
THEOREM LeaseProtects == Spec => LeaseOutlivesCall
<1> DEFINE P == \A e, f \in Executors, m \in Models :
                  /\ e # f
                  /\ ex[e].pc = "calling" /\ ex[e].cur = m
                  /\ rows[m].lockedAt = ex[e].since
                  => ~(ex[f].pc = "next" /\ ex'[f].pc = "calling" /\ ex'[f].cur = m)
<1>1. Init => CallAge
  BY DEF Init, CallAge, IdleExecutor
<1>2. ASSUME TInv, CallAge, [Next]_vars PROVE P
  <2> SUFFICES ASSUME NEW e \in Executors, NEW f \in Executors, NEW m \in Models,
                      ex[e].pc = "calling", rows[m].lockedAt = ex[e].since,
                      ex[f].pc = "next", ex'[f].pc = "calling", ex'[f].cur = m
               PROVE  FALSE
    OBVIOUS
  <2>1. PICK k \in Models : Acquire(f, k)
    BY <1>2, CallStep
  <2>2. k = m
    BY <1>2, <2>1 DEF Acquire, TInv, TypeOK, Executor
  <2>3. ex[e].since \in Nat /\ now \in Nat /\ now - ex[e].since <= CallDeadline
    BY <1>2 DEF TInv, TypeOK, CallAge, Executor
  <2>4. ~LockFree(rows[m])
    BY <2>3, NumbersAssumption, DeadlineAssumption DEF LockFree, NoTime
  <2> QED
    BY <2>1, <2>2, <2>4 DEF Acquire, Acquirable
<1>3. Spec => [](TInv /\ CallAge)
  BY <1>1, TypeInit, TypeStep, CallAgeStep, PTL DEF Spec
<1>4. [](TInv /\ CallAge) /\ [][Next]_vars => [][P]_vars
  BY <1>2, PTL
<1> QED
  BY <1>3, <1>4, PTL DEF Spec, LeaseOutlivesCall

(***************************************************************************)
(* success_run_id                                                          *)
(***************************************************************************)
Answered(m, r) == r \in 1..Len(runs[m]) /\ runs[m][r] = "success"

\* The run an executor is about to record as the answer is one.
SInv ==
    /\ \A m \in Models : rows[m].successRun # NoRun => Answered(m, rows[m].successRun)
    /\ \A e \in Executors : ex[e].pc = "record" /\ ex[e].outcome = "answer"
                              => Answered(ex[e].cur, ex[e].run)

LEMMA AnsweredStays ==
    ASSUME TInv, [Next]_vars, NEW m \in Models, NEW r \in Nat, Answered(m, r)
    PROVE  Answered(m, r)'
<1>1. CASE UNCHANGED runs
  BY <1>1 DEF Answered
<1>2. ASSUME NEW e \in Executors, NEW o \in Outcome, Answer(e, o)
      PROVE  Answered(m, r)'
  <2>1. runs[m] \in Seq(RunStatus) /\ RunOf(o) \in RunStatus
    BY DEF TInv, TypeOK, RunOf, RunStatus
  <2>2. runs'[m] = runs[m] \/ runs'[m] = Append(runs[m], RunOf(o))
    BY <1>2 DEF Answer, TInv, TypeOK
  <2> QED
    BY <2>1, <2>2 DEF Answered
<1> QED
  BY <1>1, <1>2, RunsStep

LEMMA SuccessStep == TInv /\ SInv /\ [Next]_vars => SInv'
<1> SUFFICES ASSUME TInv, SInv, [Next]_vars PROVE SInv'
  OBVIOUS
<1>t. /\ rows \in [Models -> Row] /\ runs \in [Models -> Seq(RunStatus)]
      /\ ex \in [Executors -> Executor] /\ \A e \in Executors : HasCur(ex[e])
  BY DEF TInv, TypeOK, CurIsModel
<1>1. ASSUME NEW m \in Models, rows'[m].successRun # NoRun
      PROVE  Answered(m, rows[m].successRun)'
  <2>1. rows[m] \in Row
    BY <1>t
  <2>2. CASE rows'[m].successRun = rows[m].successRun
    <3>1. rows[m].successRun \in Nat /\ Answered(m, rows[m].successRun)
      BY <1>1, <2>1, <2>2 DEF SInv, Row
    <3>2. \A r \in Nat : Answered(m, r) =>
             r \in 1..Len(runs'[m]) /\ runs'[m][r] = "success"
      BY AnsweredStays DEF Answered
    <3> QED
      BY <2>2, <3>1, <3>2 DEF Answered
  <2>3. CASE rows'[m].successRun # rows[m].successRun
    <3>1. rows'[m] # NewRow
      BY <1>1 DEF NewRow, AbsentRow
    <3>2. ~Relocked(rows[m], rows'[m])
      BY <2>1, <2>3 DEF Relocked, Row
    <3>3. \A e \in Executors : ~ResetBy(e, m)
      BY <1>1, <2>1, <2>3 DEF ResetBy, ResetRow, Flushed, Row
    <3>4. PICK e \in Executors : MarkedBy(e, m)
      BY <2>3, <3>1, <3>2, <3>3, RowStep
    <3>5. /\ ex[e].pc = "record" /\ ex[e].outcome = "answer" /\ ex[e].cur = m
          /\ rows'[m].successRun = ex[e].run
      BY <2>3, <3>4 DEF MarkedBy, SuccessRow, FailureRow
    <3>6. ex[e].run \in Nat /\ Answered(m, ex[e].run)
      BY <3>5, <1>t DEF SInv, Executor
    <3>7. \A r \in Nat : Answered(m, r) =>
             r \in 1..Len(runs'[m]) /\ runs'[m][r] = "success"
      BY AnsweredStays DEF Answered
    <3> QED
      BY <3>5, <3>6, <3>7 DEF Answered
  <2> QED
    BY <2>2, <2>3
<1>2. ASSUME NEW f \in Executors, ex'[f].pc = "record", ex'[f].outcome = "answer"
      PROVE  Answered(ex[f].cur, ex[f].run)'
  <2>1. CASE ex'[f] = ex[f]
    <3>1. /\ ex[f].cur \in Models /\ ex[f].run \in Nat
          /\ Answered(ex[f].cur, ex[f].run)
      BY <1>2, <2>1, <1>t DEF SInv, HasCur, Executor
    <3>2. \A m \in Models, r \in Nat : Answered(m, r) =>
             r \in 1..Len(runs'[m]) /\ runs'[m][r] = "success"
      BY AnsweredStays DEF Answered
    <3> QED
      BY <2>1, <3>1, <3>2 DEF Answered
  <2>2. ASSUME NEW o \in Outcome, Answer(f, o)
        PROVE  Answered(ex[f].cur, ex[f].run)'
    <3> DEFINE m == ex[f].cur
    <3>1. m \in Models /\ ex[f] \in Executor
      BY <2>2, <1>t DEF Answer, HasCur
    <3>2. /\ ex'[f].cur = m /\ ex'[f].run = Len(runs[m]) + 1 /\ ex'[f].outcome = o
          /\ runs'[m] = Append(runs[m], RunOf(o))
      BY <2>2, <3>1, <1>t DEF Answer, Executor
    <3>3. RunOf(o) = "success"
      BY <1>2, <3>2 DEF RunOf
    <3>4. runs[m] \in Seq(RunStatus) /\ "success" \in RunStatus
      BY <1>t, <3>1 DEF RunStatus
    <3>5. /\ Len(runs[m]) + 1 \in 1..Len(runs'[m])
          /\ runs'[m][Len(runs[m]) + 1] = "success"
      BY <3>2, <3>3, <3>4
    <3> QED
      BY <3>2, <3>5 DEF Answered
  <2> QED
    BY <1>2, <2>1, <2>2, RecordStep
<1> QED
  BY <1>1, <1>2 DEF SInv, Answered

\* Whatever executions overlap or crash, success_run_id names an AI run that answered.
THEOREM SuccessRunHolds == Spec => []SuccessRunAnswered
<1>1. Init => SInv
  BY DEF Init, SInv, IdleExecutor, AbsentRow
<1>2. TInv /\ SInv => SuccessRunAnswered
  BY DEF TInv, TypeOK, SInv, SuccessRunAnswered, Answered
<1>3. Spec => [](TInv /\ SInv)
  BY <1>1, TypeInit, TypeStep, SuccessStep, PTL DEF Spec
<1> QED
  BY <1>2, <1>3, PTL

(***************************************************************************)
(* Counted attempts and AI runs.  Slack(m) is the number of AI runs of m    *)
(* that no executor still has to record; no step lowers it, and recording  *)
(* one raises it.                                                          *)
(***************************************************************************)
Slack(m) == Len(runs[m]) - Cardinality(Recording(m))

LEMMA RecordingFinite ==
    ASSUME NEW m \in Models
    PROVE  /\ IsFiniteSet(Recording(m)) /\ Cardinality(Recording(m)) \in Nat
           /\ IsFiniteSet(Recording(m)') /\ Cardinality(Recording(m)') \in Nat
<1>1. IsFiniteSet(Executors)
  BY SetsAssumption, FS_Union DEF Executors
<1>2. Recording(m) \subseteq Executors /\ Recording(m)' \subseteq Executors
  BY DEF Recording
<1> QED
  BY <1>1, <1>2, FS_Subset, FS_CardinalityType

\* Recorders leave one by one and nobody joins, when no call ends.
LEMMA RecordingShrinks ==
    ASSUME TInv, [Next]_vars, UNCHANGED runs, NEW m \in Models
    PROVE  /\ Cardinality(Recording(m)') <= Cardinality(Recording(m))
           /\ \A e \in Executors :
                 MarkedBy(e, m) => Cardinality(Recording(m)') < Cardinality(Recording(m))
<1>t. /\ runs \in [Models -> Seq(RunStatus)]
      /\ \A e \in Executors : HasCur(ex[e])
  BY DEF TInv, TypeOK, CurIsModel
<1>1. Recording(m)' \subseteq Recording(m)
  <2> SUFFICES ASSUME NEW e \in Executors, ex'[e].pc = "record", ex'[e].cur = m
               PROVE  ex[e].pc = "record" /\ ex[e].cur = m
    BY DEF Recording
  <2>1. ASSUME NEW o \in Outcome, Answer(e, o) PROVE FALSE
    <3>1. ex[e].cur \in Models
      BY <2>1, <1>t DEF Answer, HasCur
    <3>2. runs[ex[e].cur] \in Seq(RunStatus) /\ RunOf(o) \in RunStatus
      BY <1>t, <3>1 DEF RunOf, RunStatus
    <3>3. runs'[ex[e].cur] = Append(runs[ex[e].cur], RunOf(o))
      BY <2>1, <3>1, <1>t DEF Answer
    <3>4. Len(runs'[ex[e].cur]) = Len(runs[ex[e].cur]) + 1 /\ Len(runs[ex[e].cur]) \in Nat
      BY <3>2, <3>3
    <3> QED
      BY <3>4
  <2> QED
    BY <2>1, RecordStep
<1>2. Cardinality(Recording(m)') <= Cardinality(Recording(m))
  BY <1>1, RecordingFinite, FS_Subset
<1>3. ASSUME NEW e \in Executors, MarkedBy(e, m)
      PROVE  Cardinality(Recording(m)') < Cardinality(Recording(m))
  <2>1. e \in Recording(m) /\ e \notin Recording(m)'
    BY <1>3 DEF MarkedBy, Recording
  <2>2. Recording(m)' \subseteq Recording(m) \ {e}
    BY <1>1, <2>1
  <2>3. /\ IsFiniteSet(Recording(m) \ {e})
        /\ Cardinality(Recording(m) \ {e}) = Cardinality(Recording(m)) - 1
    BY <2>1, RecordingFinite, FS_RemoveElement
  <2>4. Cardinality(Recording(m)') <= Cardinality(Recording(m) \ {e})
    BY <2>2, <2>3, FS_Subset
  <2> QED
    BY <2>3, <2>4, RecordingFinite
<1> QED
  BY <1>2, <1>3

LEMMA SlackStep ==
    ASSUME TInv, [Next]_vars, NEW m \in Models
    PROVE  /\ Slack(m) \in Int /\ Slack(m)' \in Int
           /\ Slack(m)' >= Slack(m)
           /\ \A e \in Executors : MarkedBy(e, m) => Slack(m)' >= Slack(m) + 1
<1>t. /\ runs \in [Models -> Seq(RunStatus)] /\ ex \in [Executors -> Executor]
      /\ \A e \in Executors : HasCur(ex[e])
  BY DEF TInv, TypeOK, CurIsModel
<1>1. Len(runs[m]) \in Nat /\ Len(runs'[m]) \in Nat
  <2>1. runs' \in [Models -> Seq(RunStatus)]
    BY TypeStep DEF TInv, TypeOK
  <2> QED
    BY <1>t, <2>1
<1>2. Slack(m) \in Int /\ Slack(m)' \in Int
  BY <1>1, RecordingFinite DEF Slack
<1>3. CASE UNCHANGED runs
  <2>1. /\ Cardinality(Recording(m)') <= Cardinality(Recording(m))
        /\ \A e \in Executors :
              MarkedBy(e, m) => Cardinality(Recording(m)') < Cardinality(Recording(m))
    BY <1>3, RecordingShrinks
  <2> QED
    BY <1>1, <1>2, <1>3, <2>1, RecordingFinite DEF Slack
<1>4. ASSUME NEW f \in Executors, NEW o \in Outcome, Answer(f, o)
      PROVE  /\ Slack(m)' >= Slack(m)
             /\ \A e \in Executors : ~MarkedBy(e, m)
  <2>1. /\ ex[f].cur \in Models /\ ex[f].pc = "calling" /\ f \notin Recording(m)
        /\ ex'[f].pc = "record" /\ ex'[f].cur = ex[f].cur
        /\ \A e \in Executors : e # f => ex'[e] = ex[e]
    BY <1>4, <1>t DEF Answer, HasCur, Recording, Executor
  <2>2. \A e \in Executors : ~MarkedBy(e, m)
    BY <2>1 DEF MarkedBy
  <2>3. runs[m] \in Seq(RunStatus) /\ RunOf(o) \in RunStatus
    BY <1>t DEF RunOf, RunStatus
  <2>4. CASE ex[f].cur = m
    <3>1. runs'[m] = Append(runs[m], RunOf(o))
      BY <1>4, <1>t, <2>4 DEF Answer
    <3>2. Len(runs'[m]) = Len(runs[m]) + 1
      BY <2>3, <3>1
    <3>3. Recording(m)' = Recording(m) \cup {f}
      BY <2>1, <2>4 DEF Recording
    <3>4. Cardinality(Recording(m)') = Cardinality(Recording(m)) + 1
      BY <2>1, <3>3, RecordingFinite, FS_AddElement
    <3> QED
      BY <1>1, <2>2, <3>2, <3>4, RecordingFinite DEF Slack
  <2>5. CASE ex[f].cur # m
    <3>1. runs'[m] = runs[m]
      BY <1>4, <1>t, <2>5 DEF Answer
    <3>2. Recording(m)' = Recording(m)
      BY <2>1, <2>5 DEF Recording
    <3> QED
      BY <1>1, <1>2, <2>2, <3>1, <3>2, RecordingFinite DEF Slack
  <2> QED
    BY <2>4, <2>5
<1> QED
  BY <1>2, <1>3, <1>4, RunsStep

\* The row and every loaded copy of it count at most the recorded AI runs.
AInv ==
    \A m \in Models : /\ rows[m].attempts <= Slack(m)
                     /\ \A e \in Executors : ex[e].snap[m].attempts <= Slack(m)

LEMMA AttemptsStep == TInv /\ AInv /\ [Next]_vars => AInv'
<1> SUFFICES ASSUME TInv, AInv, [Next]_vars, NEW m \in Models
             PROVE  /\ rows'[m].attempts <= Slack(m)'
                    /\ \A e \in Executors : ex'[e].snap[m].attempts <= Slack(m)'
  BY DEF AInv
<1>t. /\ rows[m] \in Row
      /\ \A e \in Executors : ex[e] \in Executor /\ ex[e].snap[m] \in Row
  BY DEF TInv, TypeOK, Executor
<1>s. /\ Slack(m) \in Int /\ Slack(m)' \in Int
      /\ Slack(m)' >= Slack(m)
      /\ \A e \in Executors : MarkedBy(e, m) => Slack(m)' >= Slack(m) + 1
  BY SlackStep
<1>a. /\ rows[m].attempts \in Nat /\ rows[m].attempts <= Slack(m)
      /\ \A e \in Executors : /\ ex[e].snap[m].attempts \in Nat
                              /\ ex[e].snap[m].attempts <= Slack(m)
  BY <1>t DEF AInv, Row
<1> HIDE DEF Slack
<1>1. rows'[m].attempts <= Slack(m)'
  <2>1. CASE rows'[m].attempts \in {0, rows[m].attempts}
    BY <2>1, <1>s, <1>a
  <2>2. ASSUME NEW e \in Executors, MarkedBy(e, m) PROVE rows'[m].attempts <= Slack(m)'
    <3>1. SeenAttempts(e) \in Nat /\ SeenAttempts(e) <= Slack(m)
      BY <2>2, <1>a DEF SeenAttempts, MarkedBy
    <3>2. rows'[m].attempts = SeenAttempts(e) + 1
      BY <2>2 DEF MarkedBy, SuccessRow, FailureRow
    <3> QED
      BY <2>2, <3>1, <3>2, <1>s
  <2>3. ASSUME NEW e \in Executors, ResetBy(e, m)
        PROVE  rows'[m].attempts \in {0, rows[m].attempts}
    BY <2>3 DEF ResetBy, ResetRow, Flushed
  <2>4. CASE Relocked(rows[m], rows'[m])
    BY <2>1, <2>4, <1>t DEF Relocked, Row
  <2>5. CASE rows'[m] = NewRow
    BY <2>1, <2>5 DEF NewRow, AbsentRow
  <2> QED
    BY <2>1, <2>2, <2>3, <2>4, <2>5, RowStep
<1>2. ASSUME NEW e \in Executors PROVE ex'[e].snap[m].attempts <= Slack(m)'
  <2>1. NoSnap[m].attempts = 0
    BY DEF NoSnap, AbsentRow
  <2>2. ex'[e].snap[m].attempts \in {0, rows[m].attempts, ex[e].snap[m].attempts}
    BY <2>1, SnapStep
  <2> QED
    BY <2>2, <1>s, <1>a
<1> QED
  BY <1>1, <1>2

\* Every attempt a row counts has an AI run of its own.
THEOREM AttemptsBackedHolds == Spec => []AttemptsBacked
<1>1. Init => AInv
  <2> SUFFICES ASSUME Init, NEW m \in Models PROVE Slack(m) = 0
    BY DEF Init, AInv, IdleExecutor, NoSnap, AbsentRow
  <2>1. Recording(m) = {} /\ Len(runs[m]) = 0
    BY DEF Init, Recording, IdleExecutor
  <2> QED
    BY <2>1, FS_EmptySet DEF Slack
<1>2. TInv /\ AInv => AttemptsBacked
  <2> SUFFICES ASSUME TInv, AInv, NEW m \in Models
               PROVE  rows[m].attempts + Cardinality(Recording(m)) <= Len(runs[m])
    BY DEF AttemptsBacked
  <2>1. rows[m].attempts \in Nat /\ Len(runs[m]) \in Nat
    BY DEF TInv, TypeOK, Row
  <2> QED
    BY <2>1, RecordingFinite DEF AInv, Slack
<1>3. Spec => [](TInv /\ AInv)
  BY <1>1, TypeInit, TypeStep, AttemptsStep, PTL DEF Spec
<1> QED
  BY <1>2, <1>3, PTL

(***************************************************************************)
(* The promise of DailyQuota.  While executions do not overlap, what an    *)
(* executor has loaded of the rows it still has to write is what they      *)
(* hold, and the row of a call is still open.                              *)
(***************************************************************************)
Calls(x) == x.pc \in {"calling", "record"}
Works(x) == Calls(x) \/ x.pc \in {"extract", "release"}

\* The executor x among the rows r.
Current(x, r) ==
    /\ x.pc = "reset" => x.snap = r
    /\ Calls(x) => r[x.cur].status \in {"pending", "retrying"}
    /\ Works(x) => x.cur \notin x.todo
    /\ (x.pc = "next" \/ Works(x)) /\ ~x.expired =>
          \A m \in Models :
             m \in x.todo \/ (Calls(x) /\ m = x.cur) => x.snap[m].attempts = r[m].attempts

QInv == \A e \in Executors : Current(ex[e], rows)

\* What a step of the only execution has to show: the others are idle.
LEMMA OnlyExecutor ==
    ASSUME TInv, OneAtATime, NEW e \in Executors, NEW x,
           ex[e].pc # "idle", ex' = [ex EXCEPT ![e] = x], Current(x, rows')
    PROVE  QInv'
BY DEF TInv, TypeOK, OneAtATime, QInv, Current, Works, Calls

LEMMA QuotaStep == TInv /\ QInv /\ OneAtATime /\ [Next]_vars => QInv'
<1> SUFFICES ASSUME TInv, QInv, OneAtATime, [Next]_vars PROVE QInv'
  OBVIOUS
<1>t. /\ ex \in [Executors -> Executor] /\ rows \in [Models -> Row]
      /\ \A e \in Executors : HasCur(ex[e]) /\ Current(ex[e], rows)
  BY DEF TInv, TypeOK, CurIsModel, QInv
<1>1. ASSUME NEW e \in Executors, NEW md \in Mode, NEW T \in Targets, Start(e, md, T)
      PROVE  QInv'
  <2> DEFINE x == [IdleExecutor EXCEPT !.pc = "insert", !.mode = md, !.targets = T,
                                       !.snap = rows]
  <2>1. ex' = [ex EXCEPT ![e] = x] /\ rows' = rows
    BY <1>1 DEF Start
  <2>2. x.pc = "insert"
    BY DEF IdleExecutor
  <2> HIDE DEF x
  <2>3. Current(x, rows)
    BY <2>2 DEF Current, Works, Calls
  <2> QED
    BY <1>t, <2>1, <2>3 DEF QInv
<1>2. ASSUME NEW e \in Executors, InsertConflict(e) \/ Finish(e) \/ Crash(e)
      PROVE  QInv'
  <2>1. Current(IdleExecutor, rows')
    BY DEF Current, Works, Calls, IdleExecutor
  <2> QED
    BY <1>2, <2>1, OnlyExecutor DEF InsertConflict, Finish, Crash
<1>3. ASSUME NEW e \in Executors, InsertRows(e) PROVE QInv'
  <2> DEFINE x == [ex[e] EXCEPT !.pc = IF ex[e].mode = "auto" THEN "list" ELSE "load"]
  <2>1. x.pc \in {"list", "load"}
    BY <1>t DEF Executor
  <2>2. ex' = [ex EXCEPT ![e] = x]
    BY <1>3 DEF InsertRows
  <2> HIDE DEF x
  <2>3. Current(x, rows')
    BY <2>1 DEF Current, Works, Calls
  <2> QED
    BY <1>3, <2>2, <2>3, OnlyExecutor DEF InsertRows
<1>4. ASSUME NEW e \in Executors, LoadForReset(e) PROVE QInv'
  <2> DEFINE x == [ex[e] EXCEPT !.pc = "reset", !.snap = rows]
  <2>1. x.pc = "reset" /\ x.snap = rows
    BY <1>t DEF Executor
  <2>2. ex' = [ex EXCEPT ![e] = x] /\ rows' = rows
    BY <1>4 DEF LoadForReset
  <2> HIDE DEF x
  <2>3. Current(x, rows')
    BY <2>1, <2>2 DEF Current, Works, Calls
  <2> QED
    BY <1>4, <2>2, <2>3, OnlyExecutor DEF LoadForReset
<1>5. ASSUME NEW e \in Executors, Reset(e) PROVE QInv'
  <2> DEFINE x == [ex[e] EXCEPT !.pc = "list"]
  <2>1. x.pc = "list"
    BY <1>t DEF Executor
  <2>2. ex' = [ex EXCEPT ![e] = x]
    BY <1>5 DEF Reset
  <2> HIDE DEF x
  <2>3. Current(x, rows')
    BY <2>1 DEF Current, Works, Calls
  <2> QED
    BY <1>5, <2>2, <2>3, OnlyExecutor DEF Reset
<1>6. ASSUME NEW e \in Executors, ListRunnable(e) PROVE QInv'
  <2> DEFINE x == [ex[e] EXCEPT !.pc = "next", !.snap = rows,
                                !.todo = {m \in ex[e].targets : Runnable(rows[m])}]
  <2>1. x.pc = "next" /\ x.snap = rows
    BY <1>t DEF Executor
  <2>2. ex' = [ex EXCEPT ![e] = x] /\ rows' = rows
    BY <1>6 DEF ListRunnable
  <2> HIDE DEF x
  <2>3. Current(x, rows')
    BY <2>1, <2>2 DEF Current, Works, Calls
  <2> QED
    BY <1>6, <2>2, <2>3, OnlyExecutor DEF ListRunnable
<1>7. ASSUME NEW e \in Executors, NEW m \in Models, Acquire(e, m) PROVE QInv'
  <2> DEFINE x == [ex[e] EXCEPT !.pc = "calling", !.cur = m, !.since = now,
                                !.todo = ex[e].todo \ {m}]
  <2>1. /\ x.pc = "calling" /\ x.cur = m /\ x.todo = ex[e].todo \ {m}
        /\ x.snap = ex[e].snap /\ x.expired = ex[e].expired
    BY <1>t DEF Executor
  <2>2. ex' = [ex EXCEPT ![e] = x] /\ ex[e].pc = "next" /\ m \in ex[e].todo
    BY <1>7 DEF Acquire
  <2> HIDE DEF x
  <2>3. \A k \in Models : /\ rows'[k].attempts = rows[k].attempts
                          /\ rows'[k].status = rows[k].status
    BY <1>7, <1>t DEF Acquire, Row
  <2>4. rows[m].status \in {"pending", "retrying"}
    BY <1>7 DEF Acquire, Acquirable
  <2>5. Current(x, rows')
    BY <1>t, <2>1, <2>2, <2>3, <2>4 DEF Current, Works, Calls
  <2> QED
    BY <2>2, <2>5, OnlyExecutor
<1>8. ASSUME NEW e \in Executors, NEW m \in Models, Skip(e, m) PROVE QInv'
  <2> DEFINE x == [ex[e] EXCEPT !.todo = @ \ {m}]
  <2>1. /\ x.pc = ex[e].pc /\ x.todo = ex[e].todo \ {m}
        /\ x.snap = ex[e].snap /\ x.expired = ex[e].expired
    BY <1>t DEF Executor
  <2>2. ex' = [ex EXCEPT ![e] = x] /\ ex[e].pc = "next" /\ rows' = rows
    BY <1>8 DEF Skip
  <2> HIDE DEF x
  <2>3. Current(x, rows')
    BY <1>t, <2>1, <2>2 DEF Current, Works, Calls
  <2> QED
    BY <2>2, <2>3, OnlyExecutor
<1>9. ASSUME NEW e \in Executors, NEW o \in Outcome, Answer(e, o) PROVE QInv'
  <2> DEFINE x == [ex[e] EXCEPT !.pc = "record", !.outcome = o, !.run = Len(runs[ex[e].cur]) + 1]
  <2>1. /\ x.pc = "record" /\ x.cur = ex[e].cur /\ x.todo = ex[e].todo
        /\ x.snap = ex[e].snap /\ x.expired = ex[e].expired
    BY <1>t DEF Executor
  <2>2. ex' = [ex EXCEPT ![e] = x] /\ ex[e].pc = "calling" /\ rows' = rows
    BY <1>9 DEF Answer
  <2> HIDE DEF x
  <2>3. Current(x, rows')
    BY <1>t, <2>1, <2>2 DEF Current, Works, Calls
  <2> QED
    BY <2>2, <2>3, OnlyExecutor
<1>10. ASSUME NEW e \in Executors, MarkSuccess(e) \/ MarkFailure(e) PROVE QInv'
  <2>1. PICK x : /\ ex' = [ex EXCEPT ![e] = x]
                 /\ x.pc \in {"extract", "release"} /\ x.cur = ex[e].cur
                 /\ x.todo = ex[e].todo /\ x.snap = ex[e].snap /\ x.expired = ex[e].expired
    <3> DEFINE x1 == [ex[e] EXCEPT !.pc = "extract", !.since = now]
               x2 == [ex[e] EXCEPT !.pc = "release"]
    <3>1. /\ x1.pc = "extract" /\ x1.cur = ex[e].cur
          /\ x1.todo = ex[e].todo /\ x1.snap = ex[e].snap /\ x1.expired = ex[e].expired
          /\ x2.pc = "release" /\ x2.cur = ex[e].cur
          /\ x2.todo = ex[e].todo /\ x2.snap = ex[e].snap /\ x2.expired = ex[e].expired
      BY <1>t DEF Executor
    <3>2. ex' = [ex EXCEPT ![e] = x1] \/ ex' = [ex EXCEPT ![e] = x2]
      BY <1>10 DEF MarkSuccess, MarkFailure
    <3> HIDE DEF x1, x2
    <3> QED
      BY <3>1, <3>2
  <2>2. ex[e].pc = "record" /\ \A m \in Models \ {ex[e].cur} : rows'[m] = rows[m]
    BY <1>10, <1>t DEF MarkSuccess, MarkFailure
  <2>3. Current(x, rows')
    BY <1>t, <2>1, <2>2 DEF Current, Works, Calls
  <2> QED
    BY <2>1, <2>2, <2>3, OnlyExecutor
<1>11. ASSUME NEW e \in Executors, Extracted(e) PROVE QInv'
  <2>1. PICK b \in BOOLEAN :
           ex' = [ex EXCEPT ![e] = [@ EXCEPT
                     !.pc = "release", !.expired = ex[e].expired \/ b]]
    BY <1>11 DEF Extracted
  <2> DEFINE x == [ex[e] EXCEPT !.pc = "release", !.expired = ex[e].expired \/ b]
  <2>2. x.pc = "release" /\ x.cur = ex[e].cur /\ x.todo = ex[e].todo /\ x.snap = ex[e].snap
    BY <1>t DEF Executor
  <2>3. ~x.expired => ~ex[e].expired
    BY <1>t DEF Executor
  <2>4. ex' = [ex EXCEPT ![e] = x] /\ ex[e].pc = "extract" /\ rows' = rows
    BY <1>11, <2>1 DEF Extracted
  <2> HIDE DEF x
  <2>5. Current(x, rows')
    BY <1>t, <2>2, <2>3, <2>4 DEF Current, Works, Calls
  <2> QED
    BY <2>4, <2>5, OnlyExecutor
<1>12. ASSUME NEW e \in Executors, Release(e) PROVE QInv'
  <2> DEFINE x == [ex[e] EXCEPT !.pc = "next", !.cur = NoModel, !.since = 0,
                                !.outcome = "answer", !.run = NoRun]
  <2>1. /\ x.pc = "next" /\ x.todo = ex[e].todo
        /\ x.snap = ex[e].snap /\ x.expired = ex[e].expired
    BY <1>t DEF Executor
  <2>2. ex' = [ex EXCEPT ![e] = x] /\ ex[e].pc = "release"
    BY <1>12 DEF Release
  <2> HIDE DEF x
  <2>3. \A k \in Models : rows'[k].attempts = rows[k].attempts
    BY <1>12, <1>t DEF Release, Row
  <2>4. Current(x, rows')
    BY <1>t, <2>1, <2>2, <2>3 DEF Current, Works, Calls
  <2> QED
    BY <2>2, <2>4, OnlyExecutor
<1>13. CASE Tick \/ UNCHANGED vars
  BY <1>13, <1>t DEF Tick, vars, QInv
<1> QED
  BY <1>1, <1>2, <1>3, <1>4, <1>5, <1>6, <1>7, <1>8, <1>9, <1>10, <1>11, <1>12, <1>13
     DEF Next, Step, StartDaily, StartManual, Executors, Mode

\* Rows whose status and counter stay promise what they promised.
LEMMA QuotaStutters ==
    ASSUME \A m \in Models : /\ rows'[m].attempts = rows[m].attempts
                             /\ \/ rows'[m].status = rows[m].status
                                \/ {rows'[m].status, rows[m].status} \cap {"success", "exhausted"} = {}
    PROVE  UNCHANGED <<QuotaState, QuotaUsed>>
BY DEF QuotaState, QuotaUsed

\* mark_success and mark_failure count one attempt of an open row.
LEMMA MarkIsAttempt ==
    ASSUME TInv, BInv, QInv, NEW e \in Executors, MarkSuccess(e) \/ MarkFailure(e)
    PROVE  Quota!Attempt(ex[e].cur)
<1> DEFINE m == ex[e].cur
           n == rows[m].attempts
<1>1. m \in Models /\ ex[e].pc = "record" /\ rows \in [Models -> Row]
  BY DEF MarkSuccess, MarkFailure, TInv, TypeOK, CurIsModel, HasCur
<1>2. rows[m].status \in {"pending", "retrying"} /\ SeenAttempts(e) = n
  BY <1>1 DEF QInv, Current, Calls, Works, SeenAttempts
<1>3. n \in Nat /\ n < MaxAttempts
  BY <1>1, <1>2, NumbersAssumption DEF BInv, RetryBudget, BudgetOf, Row
<1>4. QuotaState[m] = "open" /\ QuotaUsed[m] = n
  BY <1>1, <1>2 DEF QuotaState, QuotaUsed
<1>5. \A k \in Models \ {m} : rows'[k] = rows[k]
  BY <1>1 DEF MarkSuccess, MarkFailure
<1>6. rows'[m].attempts = n + 1
  BY <1>1, <1>2 DEF MarkSuccess, MarkFailure, SuccessRow, FailureRow
<1>7. QuotaUsed' = [QuotaUsed EXCEPT ![m] = n + 1]
  BY <1>1, <1>5, <1>6 DEF QuotaUsed
<1>8. ASSUME NEW q, q = CASE rows'[m].status = "success" -> "answered"
                          [] rows'[m].status = "exhausted" -> "closed"
                          [] OTHER -> "open"
      PROVE  QuotaState' = [QuotaState EXCEPT ![m] = q]
  BY <1>1, <1>5, <1>8 DEF QuotaState
<1>9. \/ rows'[m].status \in {"success", "exhausted"}
      \/ rows'[m].status = "retrying" /\ n + 1 < MaxAttempts
  BY <1>1, <1>2 DEF MarkSuccess, MarkFailure, SuccessRow, FailureRow, Retries
<1>10. \/ QuotaState' = [QuotaState EXCEPT ![m] = "answered"]
       \/ QuotaState' = [QuotaState EXCEPT ![m] = "closed"]
       \/ n + 1 < MaxAttempts /\ QuotaState' = [QuotaState EXCEPT ![m] = "open"]
  BY <1>8, <1>9
<1>11. [QuotaState EXCEPT ![m] = "open"] = QuotaState
  BY <1>1, <1>4 DEF QuotaState
<1> QED
  BY <1>3, <1>4, <1>7, <1>10, <1>11 DEF Quota!Attempt

\* reset_for_manual reopens the rows it found, as it found them.
LEMMA ResetIsReopen ==
    ASSUME TInv, QInv, NEW e \in Executors, Reset(e)
    PROVE  \E T \in SUBSET Models : Quota!Reopen(T)
<1> DEFINE T == {m \in Models : m \in ex[e].targets /\ IsReset(ex[e].mode, rows[m])}
<1>1. ex[e].snap = rows /\ rows \in [Models -> Row]
  BY DEF Reset, QInv, Current, TInv, TypeOK
<1>2. \A m \in Models : rows'[m] = IF m \in T THEN ResetRow(ex[e].mode, rows[m], rows[m])
                                              ELSE rows[m]
  BY <1>1 DEF Reset
<1>3. \A m \in Models : ResetRow(ex[e].mode, rows[m], rows[m]).status = "pending"
                       /\ ResetRow(ex[e].mode, rows[m], rows[m]).attempts = 0
  BY <1>1 DEF ResetRow, Flushed
<1> HIDE DEF T
<1>4. QuotaState' = [m \in Models |-> IF m \in T THEN "open" ELSE QuotaState[m]]
  BY <1>2, <1>3 DEF QuotaState
<1>5. QuotaUsed' = [m \in Models |-> IF m \in T THEN 0 ELSE QuotaUsed[m]]
  BY <1>2, <1>3 DEF QuotaUsed
<1>6. T \in SUBSET Models
  BY DEF T
<1> QED
  BY <1>4, <1>5, <1>6 DEF Quota!Reopen

\* Every step of the daily execution is one of the promise, or none.
LEMMA QuotaRefined ==
    ASSUME TInv, BInv, QInv, [Next]_vars
    PROVE  [Quota!Next]_<<QuotaState, QuotaUsed>>
<1>t. ex \in [Executors -> Executor] /\ rows \in [Models -> Row]
  BY DEF TInv, TypeOK
<1>1. CASE UNCHANGED rows
  BY <1>1, QuotaStutters
<1>2. ASSUME NEW e \in Executors, InsertRows(e) PROVE UNCHANGED <<QuotaState, QuotaUsed>>
  <2>1. \A m \in Models : rows'[m] = rows[m]
                         \/ (rows[m].status = "absent" /\ rows'[m] = NewRow)
    BY <1>2 DEF InsertRows
  <2>2. \A m \in Models : rows[m].status = "absent" => rows[m].attempts = 0
    BY DEF BInv, RetryBudget, BudgetOf
  <2>3. NewRow.status = "pending" /\ NewRow.attempts = 0
    BY DEF NewRow, AbsentRow
  <2> QED
    BY <2>1, <2>2, <2>3, QuotaStutters
<1>3. ASSUME NEW e \in Executors,
             Release(e) \/ \E m \in Models : Acquire(e, m)
      PROVE  UNCHANGED <<QuotaState, QuotaUsed>>
  <2>1. \A m \in Models : rows'[m].attempts = rows[m].attempts /\ rows'[m].status = rows[m].status
    <3>1. CASE Release(e)
      BY <3>1, <1>t DEF Release, Row
    <3>2. ASSUME NEW k \in Models, Acquire(e, k)
          PROVE  \A m \in Models : /\ rows'[m].attempts = rows[m].attempts
                                   /\ rows'[m].status = rows[m].status
      BY <3>2, <1>t DEF Acquire, Row
    <3> QED
      BY <1>3, <3>1, <3>2
  <2> QED
    BY <2>1, QuotaStutters
<1>4. ASSUME NEW e \in Executors, MarkSuccess(e) \/ MarkFailure(e) PROVE Quota!Next
  <2>1. ex[e].cur \in Models
    BY <1>4 DEF MarkSuccess, MarkFailure, TInv, CurIsModel, HasCur
  <2> QED
    BY <1>4, <2>1, MarkIsAttempt DEF Quota!Next
<1>5. ASSUME NEW e \in Executors, Reset(e) PROVE Quota!Next
  BY <1>5, ResetIsReopen DEF Quota!Next
<1>6. ASSUME Next
      PROVE  \/ UNCHANGED rows
             \/ \E e \in Executors : InsertRows(e) \/ Reset(e) \/ MarkSuccess(e)
                                   \/ MarkFailure(e) \/ Release(e)
                                   \/ \E m \in Models : Acquire(e, m)
  BY <1>6 DEF Next, Step, StartDaily, StartManual, Start, InsertConflict, LoadForReset,
              ListRunnable, Skip, Finish, Answer, Extracted, Crash, Tick
<1> QED
  BY <1>1, <1>2, <1>3, <1>4, <1>5, <1>6 DEF vars

\* While executions of the prompt do not overlap, crashes included, its rows keep the
\* promise of DailyQuota: every counted attempt is one more of a budget that is not
\* used up, an answer and a give-up are final, and only a user's request reopens them.
THEOREM QuotaImplemented == Spec /\ []OneAtATime => QuotaKept
<1>1. Init => QInv
  BY DEF Init, QInv, Current, Works, Calls, IdleExecutor
<1>2. Init => Quota!Init
  BY DEF Init, Quota!Init, QuotaState, QuotaUsed, AbsentRow
<1>3. Init => BInv
  BY DEF Init, BInv, RetryBudget, BudgetOf, IdleExecutor, NoSnap, AbsentRow
<1>4. Spec /\ []OneAtATime => [](TInv /\ BInv /\ QInv)
  BY <1>1, <1>3, TypeInit, TypeStep, BudgetStep, QuotaStep, PTL DEF Spec
<1>5. TInv /\ BInv /\ QInv /\ [Next]_vars => [Quota!Next]_<<QuotaState, QuotaUsed>>
  BY QuotaRefined
<1> QED
  BY <1>2, <1>4, <1>5, PTL DEF Spec, QuotaKept, Quota!Spec

(***************************************************************************)
(* The clock of the pipeline                                               *)
(***************************************************************************)
\* No step of an execution moves the clock.
LEMMA StepKeepsTime == ASSUME NEW e \in Executors, Step(e) PROVE now' = now
BY DEF Step, InsertRows, InsertConflict, LoadForReset, Reset, ListRunnable, Acquire,
       Skip, Finish, Answer, MarkSuccess, MarkFailure, Extracted, Release

\* What a step does to the clock: only PTick moves it.
LEMMA TimeStep == ASSUME PNext PROVE now' = now \/ PTick
<1>1. ASSUME NEW w \in Workers, WorkerStep(w) \/ Die(w) \/ Fail(w)
      PROVE  now' = now
  <2>1. w \in Executors
    BY DEF Executors
  <2> QED
    BY <1>1, <2>1, StepKeepsTime
       DEF WorkerStep, Take, CheckPrompt, Begin, Start, Run, Acknowledge, Die, Fail,
           Crash, vars
<1>2. ASSUME NEW s \in Schedulers, SchedulerStep(s) \/ CycleFails(s)
      PROVE  now' = now
  BY <1>2 DEF SchedulerStep, StartCycle, SelectDaily, SelectRetries, Add, EndCycle,
              CycleFails, vars
<1> QED
  BY <1>1, <1>2 DEF PNext, Pause, Resume, vars

(***************************************************************************)
(* The scheduler lock                                                      *)
(***************************************************************************)
\* A scheduler in a cycle.
InCycle(s) == sched[s].pc # "sleep"

\* A cycle younger than the lock's expiry holds the lock, with that expiry.
Holds(s) == InCycle(s) /\ now < sched[s].since + LockTTL
              => lock.holder = s /\ lock.until = sched[s].since + LockTTL

LockInv ==
    /\ now \in Nat
    /\ lock \in Q!Lock
    /\ sched \in [Schedulers -> Cycle]
    /\ \A s \in Schedulers : Holds(s)

LEMMA LockStep == ASSUME LockInv, [PNext]_pvars PROVE LockInv'
<1> USE PipelineAssumption
<1>1. CASE UNCHANGED <<lock, sched>> /\ now' = now
  BY <1>1 DEF LockInv, Holds, InCycle
<1>2. CASE PTick
  BY <1>2 DEF PTick, Tick, LockInv, Holds, InCycle, Q!Lock, Cycle, qvars
<1>3. ASSUME NEW s \in Schedulers, StartCycle(s) PROVE LockInv'
  <2>1. /\ now' = now
        /\ lock.holder = NoScheduler \/ lock.until <= now
        /\ lock' = [holder |-> s, until |-> now + LockTTL]
        /\ sched' = [sched EXCEPT ![s] = [
               pc |-> IF now >= DailyFrom /\ now < DailyUntil THEN "daily" ELSE "retry",
               since |-> now, picked |-> {}]]
    BY <1>3 DEF StartCycle, Q!AcquireLock, Q!LockExpired, vars
  <2>2. lock' \in Q!Lock /\ sched' \in [Schedulers -> Cycle] /\ now' \in Nat
    BY <2>1 DEF LockInv, Q!Lock, Cycle, CyclePC
  <2>3. ASSUME NEW t \in Schedulers, t # s PROVE Holds(t)'
    <3>1. sched'[t] = sched[t]
      BY <2>1, <2>3 DEF LockInv
    <3>2. ~(InCycle(t) /\ now < sched[t].since + LockTTL)
      BY <2>1 DEF LockInv, Holds, Q!Lock, Cycle
    <3> QED
      BY <2>1, <3>1, <3>2 DEF Holds, InCycle
  <2>4. Holds(s)'
    BY <2>1 DEF Holds, LockInv
  <2> QED
    BY <2>2, <2>3, <2>4 DEF LockInv
<1>4. ASSUME NEW s \in Schedulers, EndCycle(s) PROVE LockInv'
  <2>1. /\ now' = now
        /\ sched' = [sched EXCEPT ![s] = Asleep]
        /\ IF lock.holder = s /\ ~(lock.holder = NoScheduler \/ lock.until <= now)
             THEN lock' = [holder |-> NoScheduler, until |-> 0] ELSE lock' = lock
    BY <1>4 DEF EndCycle, Q!ReleaseLock, Q!LockExpired, vars
  <2>2. lock' \in Q!Lock /\ sched' \in [Schedulers -> Cycle] /\ now' \in Nat
    BY <2>1 DEF LockInv, Q!Lock, Cycle, CyclePC, Asleep
  <2>3. ASSUME NEW t \in Schedulers, t # s PROVE Holds(t)'
    BY <2>1, <2>3 DEF LockInv, Holds, InCycle
  <2>4. Holds(s)'
    BY <2>1 DEF Holds, InCycle, LockInv, Asleep
  <2> QED
    BY <2>2, <2>3, <2>4 DEF LockInv
<1>5. ASSUME NEW s \in Schedulers, NEW pc \in CyclePC \ {"sleep"}, NEW P \in SUBSET Models,
             GoOn(s, pc, P), InCycle(s), lock' = lock, now' = now
      PROVE  LockInv'
  <2> DEFINE c == [sched[s] EXCEPT !.pc = pc, !.picked = P]
  <2>1. sched' = [sched EXCEPT ![s] = c] /\ c \in Cycle
    BY <1>5 DEF GoOn, LockInv, Cycle
  <2>2. /\ sched' \in [Schedulers -> Cycle]
        /\ \A t \in Schedulers : sched'[t].since = sched[t].since
        /\ \A t \in Schedulers : InCycle(t)' => InCycle(t)
    BY <1>5, <2>1 DEF LockInv, InCycle, Cycle
  <2> QED
    BY <1>5, <2>2 DEF LockInv, Holds
<1>6. ASSUME NEW s \in Schedulers, SelectDaily(s) \/ SelectRetries(s)
      PROVE  LockInv'
  BY <1>6, <1>5 DEF SelectDaily, SelectRetries, CyclePC, InCycle, qvars, vars
<1>7. ASSUME NEW s \in Schedulers, CycleFails(s)
      PROVE  LockInv'
  BY <1>7, <1>5 DEF CycleFails, CyclePC, InCycle, qvars, vars
<1>8. ASSUME NEW s \in Schedulers, Add(s)
      PROVE  LockInv'
  BY <1>8, <1>5 DEF Add, CyclePC, InCycle, qvars, vars, Q!EnqueueOnce, Q!qvars
<1>9. ASSUME NEW w \in Workers, WorkerStep(w) \/ Die(w) \/ Fail(w)
      PROVE  UNCHANGED <<lock, sched>>
  BY <1>9 DEF WorkerStep, Take, CheckPrompt, Begin, Run, Acknowledge, Die, Fail, qvars,
              Q!Reclaim, Q!Read, Q!Ack
<1>10. CASE Pause \/ Resume
  BY <1>10, <1>1 DEF Pause, Resume, qvars, vars
<1>11. CASE UNCHANGED pvars
  BY <1>11, <1>1 DEF pvars, vars
<1>12. ASSUME NEW w \in Workers, PNext, WorkerStep(w) \/ Die(w) \/ Fail(w)
       PROVE  LockInv'
  BY <1>12, <1>9, <1>1, <1>2, TimeStep
<1> QED
  BY <1>2, <1>3, <1>4, <1>6, <1>7, <1>8, <1>10, <1>11, <1>12 DEF PNext, SchedulerStep

\* A cycle that outlives the scheduler lock never frees another scheduler's lock, so
\* two cycles overlap only when one of them is older than the lock's expiry.
THEOREM CyclesApartHolds == PSpec => []CyclesApart
<1>1. PInit => LockInv
  BY PipelineAssumption
     DEF PInit, Init, LockInv, Q!Lock, Cycle, CyclePC, Asleep, Holds, InCycle
<1>2. LockInv /\ [PNext]_pvars => LockInv'
  BY LockStep
<1>3. LockInv => CyclesApart
  <2> SUFFICES ASSUME LockInv, NEW s \in Schedulers, NEW t \in Schedulers, s # t,
                      InCycle(s), InCycle(t)
               PROVE  sched[s].since + LockTTL <= now \/ sched[t].since + LockTTL <= now
    BY DEF CyclesApart, InCycle
  <2> QED
    BY PipelineAssumption DEF LockInv, Holds, Cycle
<1> QED
  BY <1>1, <1>2, <1>3, PTL DEF PSpec

(***************************************************************************)
(* The stream                                                              *)
(***************************************************************************)
\* The stream keeps its entries with their keys and models; a new one has a new key
\* and some model.
StreamGrows ==
    \/ UNCHANGED <<entries, keys>>
    \/ /\ keys' = keys
       /\ entries' \in Seq(Q!Entry)
       /\ DOMAIN entries' = DOMAIN entries
       /\ \A i \in DOMAIN entries : /\ entries'[i].key = entries[i].key
                                    /\ entries'[i].models = entries[i].models
    \/ \E x \in Q!Entry :
          /\ x.key \notin keys /\ x.models \in Targets
          /\ keys' = keys \cup {x.key}
          /\ entries' = Append(entries, x)

StreamInv ==
    /\ PTypeOK
    /\ \A i \in DOMAIN entries : entries[i].key \in keys
    /\ OneJobADay

LEMMA DeliveredGrows ==
    ASSUME PTypeOK, NEW i \in DOMAIN entries, entries' = Q!Delivered(i), keys' = keys
    PROVE  StreamGrows
<1> DEFINE d == entries[i].deliveries + 1
           x == [entries[i] EXCEPT !.state = "pending", !.since = now, !.deliveries = d]
<1>1. entries[i] \in Q!Entry
  BY DEF PTypeOK, Q!TypeOK
<1>t. now \in Nat
  BY DEF PTypeOK, Q!TypeOK
<1>d. d \in Nat
  BY <1>1 DEF Q!Entry
<1> HIDE DEF d
<1>2. x \in Q!Entry /\ x.key = entries[i].key /\ x.models = entries[i].models
  BY <1>1, <1>t, <1>d DEF Q!Entry, Q!EntryState
<1>3. entries' = [entries EXCEPT ![i] = x]
  BY DEF Q!Delivered, d
<1> QED
  BY <1>2, <1>3 DEF StreamGrows, PTypeOK, Q!TypeOK

LEMMA AckGrows ==
    ASSUME PTypeOK, NEW i \in Nat, Q!Ack(i)
    PROVE  StreamGrows
<1> DEFINE x == [entries[i] EXCEPT !.state = "acked"]
<1>1. entries[i] \in Q!Entry /\ i \in DOMAIN entries
  BY DEF PTypeOK, Q!TypeOK, Q!Ack
<1>2. x \in Q!Entry /\ x.key = entries[i].key /\ x.models = entries[i].models
  BY <1>1 DEF Q!Entry, Q!EntryState
<1>3. entries' = [entries EXCEPT ![i] = x] /\ keys' = keys
  BY <1>1 DEF Q!Ack, Q!Entry, PTypeOK, Q!TypeOK
<1> QED
  BY <1>1, <1>2, <1>3 DEF StreamGrows, PTypeOK, Q!TypeOK

LEMMA AddGrows ==
    ASSUME PTypeOK, NEW P \in Targets, Q!EnqueueOnce(DayKey, P)
    PROVE  StreamGrows
<1> DEFINE x == Q!NewEntry(DayKey, P)
<1>1. x \in Q!Entry /\ x.key = DayKey /\ x.models = P
  BY DEF Q!NewEntry, Q!Entry, Q!EntryState, PTypeOK, Q!TypeOK, Targets
<1> HIDE DEF x
<1> QED
  BY <1>1 DEF Q!EnqueueOnce, Q!qvars, StreamGrows, x

\* Growing keeps the entries' types and positions and one entry per key.
LEMMA StreamKeeps ==
    ASSUME StreamInv, StreamGrows
    PROVE  /\ entries' \in Seq(Q!Entry) /\ keys' \subseteq {DayKey}
           /\ DOMAIN entries \subseteq DOMAIN entries'
           /\ \A i \in DOMAIN entries' : entries'[i].key \in keys'
           /\ OneJobADay'
<1>1. CASE UNCHANGED <<entries, keys>>
  BY <1>1 DEF StreamInv, PTypeOK, Q!TypeOK, OneJobADay, Q!OncePerKey
<1>2. CASE /\ keys' = keys
           /\ entries' \in Seq(Q!Entry)
           /\ DOMAIN entries' = DOMAIN entries
           /\ \A i \in DOMAIN entries : entries'[i].key = entries[i].key
  BY <1>2 DEF StreamInv, PTypeOK, Q!TypeOK, OneJobADay, Q!OncePerKey
<1>3. ASSUME NEW x \in Q!Entry, x.key \notin keys, keys' = keys \cup {x.key},
             entries' = Append(entries, x)
      PROVE  /\ entries' \in Seq(Q!Entry) /\ keys' \subseteq {DayKey}
             /\ DOMAIN entries \subseteq DOMAIN entries'
             /\ \A i \in DOMAIN entries' : entries'[i].key \in keys'
             /\ OneJobADay'
  <2>1. entries \in Seq(Q!Entry) /\ x.key = DayKey
    BY <1>3 DEF StreamInv, PTypeOK, Q!TypeOK, Q!Entry
  <2>2. /\ entries' \in Seq(Q!Entry)
        /\ DOMAIN entries' = 1..(Len(entries) + 1) /\ DOMAIN entries = 1..Len(entries)
        /\ \A i \in DOMAIN entries : entries'[i] = entries[i]
        /\ entries'[Len(entries) + 1] = x
    BY <1>3, <2>1
  <2>3. /\ \A i \in DOMAIN entries' : entries'[i].key \in keys'
        /\ \A i, j \in DOMAIN entries' : entries'[i].key = entries'[j].key => i = j
    BY <1>3, <2>1, <2>2 DEF StreamInv, OneJobADay, Q!OncePerKey
  <2> QED
    BY <1>3, <2>1, <2>2, <2>3 DEF OneJobADay, Q!OncePerKey, StreamInv, PTypeOK, Q!TypeOK
<1> QED
  BY <1>1, <1>2, <1>3 DEF StreamGrows

\* The actions that touch the queue or the workers' entries.
LEMMA StreamStep == ASSUME StreamInv, [PNext]_pvars, now' \in Nat PROVE StreamInv'
<1> DEFINE Rest == /\ sched' \in [Schedulers -> Cycle] /\ lock' \in Q!Lock
                   /\ active' \in BOOLEAN /\ upsets' \in Nat
           Hands == /\ wk' \in [Workers -> WorkerState]
                    /\ \A w \in Workers : wk'[w].entry \in DOMAIN entries' \cup {0}
<1>t. PTypeOK
  BY DEF StreamInv
<1>1. ASSUME StreamGrows, Rest, Hands PROVE StreamInv'
  BY <1>1, StreamKeeps DEF StreamInv, PTypeOK, Q!TypeOK
<1>2. ASSUME StreamGrows, NEW w \in Workers, NEW x \in WorkerState,
             x.entry \in DOMAIN entries \cup {0}, wk' = [wk EXCEPT ![w] = x]
      PROVE  Hands
  <2>1. DOMAIN entries \subseteq DOMAIN entries'
    BY <1>2, StreamKeeps
  <2> QED
    BY <1>2, <1>t, <2>1 DEF PTypeOK
<1>3. ASSUME StreamGrows, wk' = wk PROVE Hands
  <2>1. DOMAIN entries \subseteq DOMAIN entries'
    BY <1>3, StreamKeeps
  <2> QED
    BY <1>3, <1>t, <2>1 DEF PTypeOK
<1>4. ASSUME UNCHANGED <<lock, sched, active>>, upsets' \in Nat PROVE Rest
  BY <1>4, <1>t DEF PTypeOK, Q!TypeOK
<1>5. ASSUME UNCHANGED <<entries, keys>> PROVE StreamGrows
  BY <1>5 DEF StreamGrows
<1>6. ASSUME NEW w \in Workers, Take(w) PROVE StreamInv'
  <2>1. PICK i \in DOMAIN entries :
           /\ Q!Reclaim(i) \/ Q!Read(i)
           /\ wk' = [wk EXCEPT ![w] = [stage |-> "check", entry |-> i]]
    BY <1>6 DEF Take
  <2>2. StreamGrows /\ lock' = lock
    BY <2>1, <1>t, DeliveredGrows DEF Q!Reclaim, Q!Read
  <2>3. i \in Nat
    BY <1>t, <2>1 DEF PTypeOK, Q!TypeOK
  <2>4. [stage |-> "check", entry |-> i] \in WorkerState
    BY <2>3 DEF WorkerState, Stage
  <2>5. Hands
    BY <1>2, <2>1, <2>2, <2>4
  <2> QED
    BY <1>1, <1>4, <1>6, <1>t, <2>2, <2>5 DEF Take, PTypeOK
<1>7. ASSUME NEW w \in Workers, NEW st \in Stage, wk' = [wk EXCEPT ![w].stage = st],
             UNCHANGED <<qvars, sched, active>>, upsets' \in Nat
      PROVE  StreamInv'
  <2> DEFINE x == [wk[w] EXCEPT !.stage = st]
  <2>1. /\ x \in WorkerState /\ x.entry \in DOMAIN entries \cup {0}
        /\ wk' = [wk EXCEPT ![w] = x]
    BY <1>7, <1>t DEF PTypeOK, WorkerState
  <2>2. StreamGrows
    BY <1>5, <1>7 DEF qvars
  <2>3. Hands
    BY <1>2, <2>1, <2>2
  <2> QED
    BY <1>1, <1>4, <1>7, <2>2, <2>3 DEF qvars
<1>8. ASSUME NEW w \in Workers, CheckPrompt(w) \/ Begin(w) \/ Run(w) \/ Fail(w)
      PROVE  StreamInv'
  <2>1. PICK st \in Stage : wk' = [wk EXCEPT ![w].stage = st]
    BY <1>8 DEF CheckPrompt, Begin, Run, Fail, Stage
  <2>2. UNCHANGED <<qvars, sched, active>> /\ upsets' \in Nat
    BY <1>8, <1>t DEF CheckPrompt, Begin, Run, Fail, PTypeOK
  <2> QED
    BY <1>7, <2>1, <2>2
<1>9. ASSUME NEW w \in Workers, Acknowledge(w) \/ Die(w) PROVE StreamInv'
  <2>1. wk' = [wk EXCEPT ![w] = IdleWorker] /\ UNCHANGED <<lock, sched, active>>
        /\ upsets' \in Nat
    BY <1>9, <1>t DEF Acknowledge, Die, Q!Ack, qvars, PTypeOK
  <2>2. StreamGrows
    BY <1>5, <1>9, <1>t, AckGrows DEF Acknowledge, Die, qvars, PTypeOK, WorkerState
  <2>3. IdleWorker \in WorkerState /\ IdleWorker.entry \in DOMAIN entries \cup {0}
    BY DEF IdleWorker, WorkerState, Stage
  <2>4. Hands
    BY <1>2, <2>1, <2>2, <2>3
  <2> QED
    BY <1>1, <1>4, <2>1, <2>2, <2>4
<1>10. ASSUME NEW s \in Schedulers, NEW c \in Cycle, sched' = [sched EXCEPT ![s] = c],
              StreamGrows, wk' = wk, active' = active, lock' \in Q!Lock, upsets' \in Nat
       PROVE  StreamInv'
  <2>1. Rest
    BY <1>10, <1>t DEF PTypeOK
  <2> QED
    BY <1>1, <1>3, <1>10, <2>1
<1>11. ASSUME NEW s \in Schedulers, NEW pc \in CyclePC, NEW P \in SUBSET Models,
              GoOn(s, pc, P)
       PROVE  \E c \in Cycle : sched' = [sched EXCEPT ![s] = c]
  <2> DEFINE c == [sched[s] EXCEPT !.pc = pc, !.picked = P]
  <2>1. sched' = [sched EXCEPT ![s] = c] /\ c \in Cycle
    BY <1>11, <1>t DEF GoOn, PTypeOK, Cycle
  <2> QED
    BY <2>1
<1>12. ASSUME NEW s \in Schedulers, StartCycle(s) \/ EndCycle(s) PROVE StreamInv'
  <2>1. PICK c \in Cycle : sched' = [sched EXCEPT ![s] = c]
    BY <1>12, <1>t DEF StartCycle, EndCycle, Asleep, Cycle, CyclePC, PTypeOK, Q!TypeOK
  <2>2. lock' \in Q!Lock /\ UNCHANGED <<entries, keys, wk, active, upsets>>
    BY <1>12, <1>t, PipelineAssumption
       DEF StartCycle, EndCycle, Q!AcquireLock, Q!ReleaseLock, Q!Lock, PTypeOK, Q!TypeOK
  <2> QED
    BY <1>5, <1>10, <1>t, <2>1, <2>2 DEF PTypeOK
<1>13. ASSUME NEW s \in Schedulers, SelectDaily(s) \/ SelectRetries(s) \/ CycleFails(s)
       PROVE  StreamInv'
  <2>1. PICK c \in Cycle : sched' = [sched EXCEPT ![s] = c]
    BY <1>11, <1>13 DEF SelectDaily, SelectRetries, CycleFails, CyclePC
  <2>2. UNCHANGED <<entries, keys, lock, wk, active>> /\ upsets' \in Nat
    BY <1>13, <1>t DEF SelectDaily, SelectRetries, CycleFails, qvars, PTypeOK
  <2> QED
    BY <1>5, <1>10, <1>t, <2>1, <2>2 DEF PTypeOK, Q!TypeOK
<1>14. ASSUME NEW s \in Schedulers, Add(s) PROVE StreamInv'
  <2>1. PICK c \in Cycle : sched' = [sched EXCEPT ![s] = c]
    BY <1>11, <1>14 DEF Add, CyclePC
  <2>2. sched[s].picked # {} => sched[s].picked \in Targets
    BY <1>t DEF PTypeOK, Cycle, Targets
  <2>3. StreamGrows /\ lock' = lock
    BY <1>5, <1>14, <1>t, <2>2, AddGrows DEF Add, qvars, Q!EnqueueOnce, Q!qvars
  <2>4. UNCHANGED <<wk, active, upsets>>
    BY <1>14 DEF Add
  <2> QED
    BY <1>10, <1>t, <2>1, <2>3, <2>4 DEF PTypeOK, Q!TypeOK
<1>15. CASE Pause \/ Resume \/ PTick \/ UNCHANGED pvars
  <2>1. UNCHANGED <<entries, keys, lock, wk, sched>>
    BY <1>15 DEF Pause, Resume, PTick, pvars, qvars
  <2>2. upsets' = upsets \/ upsets' = upsets + 1
    BY <1>15 DEF Pause, Resume, PTick, pvars
  <2>3. active' = active \/ active' = TRUE \/ active' = FALSE
    BY <1>15 DEF Pause, Resume, PTick, pvars
  <2>4. upsets' \in Nat
    BY <1>t, <2>2 DEF PTypeOK
  <2>5. active \in BOOLEAN
    BY <1>t DEF PTypeOK
  <2>6. active' \in BOOLEAN
    BY <2>3, <2>5
  <2> QED
    BY <1>1, <1>3, <1>5, <1>t, <2>1, <2>4, <2>6 DEF PTypeOK, Q!TypeOK
<1> QED
  BY <1>6, <1>8, <1>9, <1>12, <1>13, <1>14, <1>15 DEF PNext, WorkerStep, SchedulerStep

LEMMA StreamHolds == PSpec => [](LockInv /\ StreamInv)
<1>1. PInit => LockInv
  BY PipelineAssumption
     DEF PInit, Init, LockInv, Q!Lock, Cycle, CyclePC, Asleep, Holds, InCycle
<1>2. PInit => StreamInv
  BY PipelineAssumption
     DEF PInit, Init, StreamInv, PTypeOK, Q!TypeOK, Q!Lock, Cycle, CyclePC, Asleep,
         WorkerState, IdleWorker, Stage, OneJobADay, Q!OncePerKey
<1>3. LockInv /\ StreamInv /\ [PNext]_pvars => (LockInv /\ StreamInv)'
  BY LockStep, StreamStep DEF LockInv
<1> QED
  BY <1>1, <1>2, <1>3, PTL DEF PSpec

\* The variables of the pipeline keep their types, whatever fails.
THEOREM PipelineTypes == PSpec => []PTypeOK
BY StreamHolds, PTL DEF StreamInv

\* However scheduler cycles overlap, fail and repeat, the stream never holds a second
\* entry for the prompt and the day.
THEOREM OneJobADayHolds == PSpec => []OneJobADay
BY StreamHolds, PTL DEF StreamInv

\* Workers and schedulers touch Redis only through single commands of the queue, with
\* jobs of the prompt's own models: the pipeline implements RunQueue.
THEOREM PipelineUsesQueue == PSpec => Q!Spec
<1> DEFINE Used == [Q!Next]_<<entries, keys, lock, now>>
<1>1. PInit => Q!Init
  BY DEF PInit, Init, Q!Init
<1>2. ASSUME LockInv, StreamInv, [PNext]_pvars PROVE Used
  <2>t. PTypeOK
    BY <1>2 DEF StreamInv
  <2>1. CASE UNCHANGED <<entries, keys, lock, now>>
    BY <2>1
  <2>2. CASE Q!Command /\ now' = now
    BY <2>2 DEF Q!Next
  <2>3. CASE PTick
    BY <2>3 DEF PTick, Tick, qvars, Q!Next, Q!qvars
  <2>4. ASSUME NEW w \in Workers, Take(w) PROVE Used
    BY <2>2, <2>4 DEF Take, Q!Command, vars
  <2>5. ASSUME NEW w \in Workers, Acknowledge(w) PROVE Used
    BY <2>2, <2>5 DEF Acknowledge, Q!Command, Q!Ack, vars
  <2>6. ASSUME NEW s \in Schedulers, StartCycle(s) \/ EndCycle(s) PROVE Used
    BY <2>2, <2>6 DEF StartCycle, EndCycle, Q!Command, vars
  <2>7. ASSUME NEW s \in Schedulers, Add(s) PROVE Used
    <3>1. sched[s].picked \in SUBSET Models
      BY <2>t DEF PTypeOK, Cycle
    <3>2. now' = now
      BY <2>7 DEF Add, vars
    <3>3. CASE UNCHANGED qvars
      BY <2>1, <3>2, <3>3 DEF qvars
    <3>4. CASE Q!EnqueueOnce(DayKey, sched[s].picked)
      BY <2>2, <3>1, <3>2, <3>4 DEF Q!Command
    <3> QED
      BY <2>7, <3>3, <3>4 DEF Add
  <2>8. ASSUME NEW w \in Workers, CheckPrompt(w) \/ Begin(w) \/ Run(w) \/ Die(w) \/ Fail(w)
        PROVE  Used
    <3>1. UNCHANGED qvars
      BY <2>8 DEF CheckPrompt, Begin, Run, Die, Fail
    <3>2. now' = now
      BY <2>8, StepKeepsTime
         DEF CheckPrompt, Begin, Run, Die, Fail, Start, Crash, vars, Executors
    <3> QED
      BY <2>1, <3>1, <3>2 DEF qvars
  <2>9. ASSUME NEW s \in Schedulers, SelectDaily(s) \/ SelectRetries(s) \/ CycleFails(s)
        PROVE  Used
    BY <2>1, <2>9 DEF SelectDaily, SelectRetries, CycleFails, qvars, vars
  <2>10. CASE Pause \/ Resume \/ UNCHANGED pvars
    BY <2>1, <2>10 DEF Pause, Resume, pvars, qvars, vars
  <2> QED
    BY <1>2, <2>3, <2>4, <2>5, <2>6, <2>7, <2>8, <2>9, <2>10
       DEF PNext, WorkerStep, SchedulerStep
<1>3. LockInv /\ StreamInv /\ [PNext]_pvars => Used
  BY <1>2
<1> QED
  BY <1>1, <1>3, StreamHolds, PTL DEF PSpec, Q!Spec

(***************************************************************************)
(* The executions the workers start                                        *)
(***************************************************************************)
\* The entries of the stream name models of the prompt, and a worker with a job has
\* an entry of the stream.
JobsInv ==
    /\ \A i \in DOMAIN entries : entries[i].models \in Targets
    /\ \A w \in Workers : wk[w].stage # "idle" => wk[w].entry \in DOMAIN entries

\* Every step keeps what the stream has.
LEMMA GrowStep == ASSUME PTypeOK, [PNext]_pvars PROVE StreamGrows
<1>1. CASE UNCHANGED <<entries, keys>>
  BY <1>1 DEF StreamGrows
<1>2. ASSUME NEW w \in Workers, Take(w) PROVE StreamGrows
  BY <1>2, DeliveredGrows DEF Take, Q!Reclaim, Q!Read
<1>3. ASSUME NEW w \in Workers, Acknowledge(w) PROVE StreamGrows
  BY <1>3, AckGrows DEF Acknowledge, PTypeOK, WorkerState
<1>4. ASSUME NEW s \in Schedulers, Add(s) PROVE StreamGrows
  <2>1. sched[s].picked # {} => sched[s].picked \in Targets
    BY DEF PTypeOK, Cycle, Targets
  <2> QED
    BY <1>1, <1>4, <2>1, AddGrows DEF Add, qvars
<1>5. ASSUME NEW w \in Workers, CheckPrompt(w) \/ Begin(w) \/ Run(w) \/ Fail(w) \/ Die(w)
      PROVE  UNCHANGED <<entries, keys>>
  BY <1>5 DEF CheckPrompt, Begin, Run, Fail, Die, qvars
<1>6. ASSUME NEW s \in Schedulers,
             StartCycle(s) \/ SelectDaily(s) \/ SelectRetries(s) \/ EndCycle(s) \/ CycleFails(s)
      PROVE  UNCHANGED <<entries, keys>>
  BY <1>6 DEF StartCycle, SelectDaily, SelectRetries, EndCycle, CycleFails, qvars,
              Q!AcquireLock, Q!ReleaseLock
<1>7. CASE Pause \/ Resume \/ PTick \/ UNCHANGED pvars
  BY <1>1, <1>7 DEF Pause, Resume, PTick, pvars, qvars
<1> QED
  BY <1>1, <1>2, <1>3, <1>4, <1>5, <1>6, <1>7 DEF PNext, WorkerStep, SchedulerStep

\* An entry, once in the stream, keeps its models.
JobsKept == \A i \in DOMAIN entries : i \in DOMAIN entries' /\ entries'[i].models = entries[i].models

LEMMA GrowingKeepsJobs ==
    ASSUME PTypeOK, StreamGrows
    PROVE  /\ JobsKept
           /\ \A i \in DOMAIN entries' : i \in DOMAIN entries \/ entries'[i].models \in Targets
<1>1. ASSUME NEW x \in Q!Entry, x.models \in Targets, entries' = Append(entries, x)
      PROVE  /\ JobsKept
             /\ \A i \in DOMAIN entries' : i \in DOMAIN entries \/ entries'[i].models \in Targets
  <2>1. entries \in Seq(Q!Entry)
    BY DEF PTypeOK, Q!TypeOK
  <2>2. /\ DOMAIN entries' = 1..(Len(entries) + 1) /\ DOMAIN entries = 1..Len(entries)
        /\ \A i \in DOMAIN entries : entries'[i] = entries[i]
        /\ entries'[Len(entries) + 1] = x
    BY <1>1, <2>1
  <2> QED
    BY <1>1, <2>2 DEF JobsKept
<1> QED
  BY <1>1 DEF StreamGrows, JobsKept

\* The worker of a step has the entry it takes, or had one before.
LEMMA WorkerStepEntry ==
    ASSUME PTypeOK, [PNext]_pvars, NEW v \in Workers
    PROVE  \/ wk'[v] = wk[v]
           \/ wk'[v].stage = "idle"
           \/ wk'[v].stage # "idle" /\ wk[v].stage # "idle" /\ wk'[v].entry = wk[v].entry
           \/ wk'[v].stage = "check" /\ wk'[v].entry \in DOMAIN entries
<1>t. wk \in [Workers -> WorkerState]
  BY DEF PTypeOK
<1>1. ASSUME NEW w \in Workers, Take(w)
      PROVE  \/ wk'[v] = wk[v]
             \/ wk'[v].stage = "check" /\ wk'[v].entry \in DOMAIN entries
  BY <1>1, <1>t DEF Take
<1>2. ASSUME NEW w \in Workers, Acknowledge(w) \/ Die(w)
      PROVE  wk'[v] = wk[v] \/ wk'[v].stage = "idle"
  BY <1>2, <1>t DEF Acknowledge, Die, IdleWorker
<1>3. ASSUME NEW w \in Workers, CheckPrompt(w) \/ Begin(w) \/ Run(w) \/ Fail(w)
      PROVE  \/ wk'[v] = wk[v]
             \/ wk'[v].stage # "idle" /\ wk[v].stage # "idle" /\ wk'[v].entry = wk[v].entry
  <2>1. PICK st \in Stage \ {"idle"} : wk' = [wk EXCEPT ![w].stage = st]
    BY <1>3 DEF CheckPrompt, Begin, Run, Fail, Stage
  <2>2. wk[w].stage # "idle"
    BY <1>3 DEF CheckPrompt, Begin, Run, Fail
  <2> QED
    BY <1>t, <2>1, <2>2 DEF WorkerState
<1>4. ASSUME \A w \in Workers : ~(WorkerStep(w) \/ Die(w) \/ Fail(w)) PROVE wk' = wk
  BY <1>4 DEF PNext, SchedulerStep, StartCycle, SelectDaily, SelectRetries, Add, EndCycle,
              CycleFails, Pause, Resume, PTick, pvars
<1> QED
  BY <1>1, <1>2, <1>3, <1>4 DEF WorkerStep

LEMMA JobsStep == ASSUME PTypeOK, JobsInv, [PNext]_pvars PROVE JobsInv' /\ JobsKept
<1>1. /\ JobsKept
      /\ \A i \in DOMAIN entries' : i \in DOMAIN entries \/ entries'[i].models \in Targets
  BY GrowStep, GrowingKeepsJobs
<1>2. \A w \in Workers : wk'[w].stage # "idle" => wk'[w].entry \in DOMAIN entries
  BY WorkerStepEntry DEF JobsInv
<1> QED
  BY <1>1, <1>2 DEF JobsInv, JobsKept

\* What a step of the pipeline is to the executions of the prompt.
LEMMA PipelineStep ==
    ASSUME JobsInv, [PNext]_pvars
    PROVE  \/ UNCHANGED vars \/ Tick
           \/ \E w \in Workers :
                 \/ Crash(w) /\ (Die(w) \/ Fail(w))
                 \/ Run(w) /\ Step(w)
                 \/ Begin(w) /\ StartDaily(w)
<1>1. ASSUME NEW w \in Workers, Begin(w) PROVE StartDaily(w)
  BY <1>1 DEF Begin, StartDaily, JobsInv
<1>2. ASSUME NEW w \in Workers, Die(w) \/ Fail(w)
      PROVE  UNCHANGED vars \/ Crash(w)
  BY <1>2 DEF Die, Fail
<1>3. ASSUME NEW w \in Workers, Run(w) PROVE Step(w)
  BY <1>3 DEF Run
<1>4. ASSUME NEW w \in Workers, Take(w) \/ CheckPrompt(w) \/ Acknowledge(w)
      PROVE  UNCHANGED vars
  BY <1>4 DEF Take, CheckPrompt, Acknowledge
<1>5. ASSUME NEW s \in Schedulers, SchedulerStep(s) \/ CycleFails(s) PROVE UNCHANGED vars
  BY <1>5 DEF SchedulerStep, StartCycle, SelectDaily, SelectRetries, Add, EndCycle, CycleFails
<1>6. ASSUME Pause \/ Resume \/ PTick \/ UNCHANGED pvars PROVE UNCHANGED vars \/ Tick
  BY <1>6 DEF Pause, Resume, PTick, pvars
<1> QED
  BY <1>1, <1>2, <1>3, <1>4, <1>5, <1>6 DEF PNext, WorkerStep

LEMMA ExecutionStep == ASSUME JobsInv, [PNext]_pvars PROVE [Next]_vars
BY PipelineStep DEF Next, Executors

LEMMA PipelineHolds == PSpec => [](LockInv /\ StreamInv /\ JobsInv /\ TInv) /\ Spec
<1>1. PInit => Init /\ JobsInv
  BY DEF PInit, JobsInv, IdleWorker
<1>2. StreamInv /\ JobsInv /\ [PNext]_pvars => JobsInv' /\ [Next]_vars
  BY JobsStep, ExecutionStep DEF StreamInv
<1> QED
  BY <1>1, <1>2, StreamHolds, TypeInit, TypeStep, PTL DEF PSpec, Spec

\* Whatever the queue delivers again and whoever dies, the executions of the workers
\* are executions of DailyRun: with DailyRun's theorems, the retry budget is kept,
\* every counted attempt has its AI run, the lease protects a call and success_run_id
\* names an answer, in the pipeline too.
THEOREM PipelineExecutes ==
    PSpec => Spec /\ LeaseOutlivesCall /\ [](RetryBudget /\ AttemptsBacked /\ SuccessRunAnswered)
BY PipelineHolds, RetryBudgetHolds, AttemptsBackedHolds, SuccessRunHolds, LeaseProtects, PTL

(***************************************************************************)
(* Jobs done in full                                                       *)
(***************************************************************************)
\* Nobody dies and nothing fails while a worker has a job.
NobodyFails == [][\A w \in Workers : ~Die(w) /\ ~Fail(w)]_pvars

\* A model that was attempted or is in the hands of an executor; once it is, it stays so.
Attempted(m) == rows[m].status \in {"retrying", "success", "exhausted"}
Handled(m) == Attempted(m) \/ \E e \in Executors : ex[e].cur = m

\* What an executor of the pipeline has done with the rows: it inserts those that are
\* missing, and every model it does not have to look at any more is handled.
Diligent(e) ==
    /\ ex[e].mode = "auto" /\ ex[e].pc \notin {"load", "reset"}
    /\ ~Works(ex[e]) => ex[e].cur = NoModel
    /\ ex[e].pc \in {"extract", "release"} => Attempted(ex[e].cur)
    /\ ex[e].pc = "insert" =>
          \A m \in Models : ex[e].snap[m].status # "absent" => rows[m].status # "absent"
    /\ ex[e].pc \notin {"idle", "insert"} => \A m \in Models : rows[m].status # "absent"
    /\ ex[e].pc = "next" \/ Works(ex[e]) =>
          \A m \in ex[e].targets : m \in ex[e].todo \/ Handled(m)

\* A lock is held by an executor that works on the row.
LocksHeld == \A m \in Models : rows[m].lockedAt # NoTime => \E e \in Executors : ex[e].cur = m

ExecutorsInv == LocksHeld /\ \A e \in Executors : Diligent(e)

\* The worker executes the models of its job, and is done when they are handled.
WorkersInv ==
    \A w \in Workers :
        /\ wk[w].stage = "run" => ex[w].pc # "idle" /\ ex[w].targets = entries[wk[w].entry].models
        /\ wk[w].stage = "done" => \A m \in entries[wk[w].entry].models : Handled(m)

\* What is handled stays handled, if who lets a row go has attempted it.
LEMMA HandledStays ==
    ASSUME TInv, NEW e \in Executors, NEW x, ex' = [ex EXCEPT ![e] = x],
           \A m \in Models : Attempted(m) => Attempted(m)',
           \A m \in Models : ex[e].cur = m /\ x.cur # m => Attempted(m)',
           NEW m \in Models, Handled(m)
    PROVE  Handled(m)'
<1>1. ex \in [Executors -> Executor] /\ ex'[e] = x
  BY DEF TInv, TypeOK
<1>2. CASE Attempted(m)
  BY <1>2 DEF Handled
<1>3. ASSUME NEW f \in Executors, ex[f].cur = m PROVE Handled(m)'
  BY <1>1, <1>3 DEF Handled
<1> QED
  BY <1>2, <1>3 DEF Handled

\* What a step of one executor has to show.
LEMMA OneDiligent ==
    ASSUME TInv, ExecutorsInv, NEW e \in Executors, NEW x, ex' = [ex EXCEPT ![e] = x],
           \A m \in Models :
              /\ Attempted(m) => Attempted(m)'
              /\ rows[m].status # "absent" => rows'[m].status # "absent"
              /\ rows'[m].lockedAt # NoTime =>
                    x.cur = m \/ (rows[m].lockedAt # NoTime /\ ex[e].cur # m),
           \A m \in Models : ex[e].cur = m /\ x.cur # m => Attempted(m)',
           Diligent(e)'
    PROVE  ExecutorsInv'
<1>1. ex \in [Executors -> Executor] /\ ex'[e] = x
      /\ \A f \in Executors : f # e => ex'[f] = ex[f]
  BY DEF TInv, TypeOK
<1>2. \A m \in Models : Handled(m) => Handled(m)'
  BY HandledStays
<1>3. ASSUME NEW f \in Executors, f # e PROVE Diligent(f)'
  <2>1. ex'[f] = ex[f] /\ Diligent(f)
    BY <1>1, <1>3 DEF ExecutorsInv
  <2>2. ex[f] \in Executor /\ HasCur(ex[f])
    BY DEF TInv, TypeOK, CurIsModel
  <2>3. Works(ex[f]) => ex[f].cur \in Models
    BY <2>2 DEF HasCur, Works, Calls
  <2>4. ex[f].targets \subseteq Models
    BY <2>2 DEF Executor
  <2>5. ex[f].pc \in {"extract", "release"} => Attempted(ex[f].cur)'
    BY <2>1, <2>3 DEF Diligent, Works
  <2>6. ex[f].pc = "next" \/ Works(ex[f]) =>
          \A m \in ex[f].targets : m \in ex[f].todo \/ Handled(m)'
    BY <1>2, <2>1, <2>4 DEF Diligent
  <2> HIDE DEF Attempted, Handled
  <2>7. /\ ex'[f].mode = "auto" /\ ex'[f].pc \notin {"load", "reset"}
        /\ ~Works(ex'[f]) => ex'[f].cur = NoModel
    BY <2>1 DEF Diligent
  <2>8. ex'[f].pc \in {"extract", "release"} => Attempted(ex[f].cur)'
    BY <2>1, <2>5
  <2>9. /\ ex'[f].pc = "insert" =>
              \A m \in Models : ex'[f].snap[m].status # "absent" => rows'[m].status # "absent"
        /\ ex'[f].pc \notin {"idle", "insert"} => \A m \in Models : rows'[m].status # "absent"
    BY <2>1 DEF Diligent
  <2> QED
    BY <2>1, <2>6, <2>7, <2>8, <2>9 DEF Diligent, Attempted
<1>4. LocksHeld'
  BY <1>1 DEF ExecutorsInv, LocksHeld
<1> QED
  BY <1>3, <1>4 DEF ExecutorsInv

\* Without manual executions and deaths, executions keep the invariant, and what is
\* handled stays so.
LEMMA ExecutorsStep ==
    ASSUME TInv, ExecutorsInv, NEW e \in Executors,
           Step(e) \/ \E T \in Targets : Start(e, "auto", T)
    PROVE  ExecutorsInv' /\ \A m \in Models : Handled(m) => Handled(m)'
<1>t. /\ ex \in [Executors -> Executor] /\ rows \in [Models -> Row] /\ ex[e] \in Executor
      /\ HasCur(ex[e]) /\ Diligent(e)
  BY DEF TInv, TypeOK, CurIsModel, ExecutorsInv
<1> DEFINE Goal == ExecutorsInv' /\ \A m \in Models : Handled(m) => Handled(m)'
           Keeps(x) ==
              /\ \A m \in Models :
                    /\ Attempted(m) => Attempted(m)'
                    /\ rows[m].status # "absent" => rows'[m].status # "absent"
                    /\ rows'[m].lockedAt # NoTime =>
                          x.cur = m \/ (rows[m].lockedAt # NoTime /\ ex[e].cur # m)
              /\ \A m \in Models : ex[e].cur = m /\ x.cur # m => Attempted(m)'
<1>g. ASSUME NEW x, ex' = [ex EXCEPT ![e] = x], Keeps(x),
             (\A m \in Models : Handled(m) => Handled(m)') => Diligent(e)'
      PROVE  Goal
  <2>1. \A m \in Models : Handled(m) => Handled(m)'
    BY <1>g, HandledStays
  <2> QED
    BY <1>g, <2>1, OneDiligent
\* The rows stay, and so does what the executor works on.
<1>k. ASSUME NEW x, UNCHANGED rows, LocksHeld, x.cur = ex[e].cur PROVE Keeps(x)
  BY <1>k DEF Attempted
<1>l. LocksHeld
  BY DEF ExecutorsInv
<1>n. ASSUME NEW x, UNCHANGED rows, ~Works(ex[e]) PROVE Keeps(x)
  <2>1. ex[e].cur = NoModel /\ NoModel \notin Models
    BY <1>n, <1>t, SetsAssumption DEF Diligent
  <2> QED
    BY <1>n, <2>1 DEF Attempted
<1>1. ASSUME NEW T \in Targets, Start(e, "auto", T) PROVE Goal
  <2> DEFINE x == [IdleExecutor EXCEPT !.pc = "insert", !.mode = "auto", !.targets = T,
                                       !.snap = rows]
  <2>1. ex' = [ex EXCEPT ![e] = x] /\ rows' = rows /\ ex[e].pc = "idle"
    BY <1>1 DEF Start
  <2>2. x.pc = "insert" /\ x.mode = "auto" /\ x.snap = rows /\ x.cur = NoModel
    BY DEF IdleExecutor
  <2> HIDE DEF x
  <2>3. Keeps(x)
    BY <1>n, <2>1 DEF Works, Calls
  <2>4. Diligent(e)'
    BY <1>t, <2>1, <2>2 DEF Diligent, Works, Calls
  <2> QED
    BY <1>g, <2>1, <2>3, <2>4
<1>2. ASSUME InsertConflict(e) \/ Finish(e) PROVE Goal
  <2>1. /\ ex' = [ex EXCEPT ![e] = IdleExecutor] /\ rows' = rows
        /\ ex[e].pc \in {"insert", "next"}
    BY <1>2 DEF InsertConflict, Finish
  <2>2. Keeps(IdleExecutor)
    BY <1>n, <2>1 DEF Works, Calls
  <2>3. Diligent(e)'
    BY <1>t, <2>1 DEF Diligent, Works, Calls, IdleExecutor
  <2> QED
    BY <1>g, <2>1, <2>2, <2>3
<1>3. ASSUME InsertRows(e) PROVE Goal
  <2> DEFINE x == [ex[e] EXCEPT !.pc = IF ex[e].mode = "auto" THEN "list" ELSE "load"]
  <2>1. ex[e].mode = "auto" /\ ex[e].pc = "insert" /\ ex[e].cur = NoModel
    BY <1>3, <1>t DEF InsertRows, Diligent, Works, Calls
  <2>2. x.pc = "list" /\ x.mode = "auto" /\ x.cur = ex[e].cur
    BY <1>t, <2>1 DEF Executor
  <2>3. ex' = [ex EXCEPT ![e] = x]
    BY <1>3 DEF InsertRows
  <2> HIDE DEF x
  <2>4. \A m \in Models : \/ rows'[m] = rows[m] /\ rows[m].status # "absent"
                          \/ rows[m].status = "absent" /\ rows'[m] = NewRow
    <3>1. \A m \in Models : m \notin Missing(e) => rows[m].status # "absent"
      BY <1>t, <2>1 DEF Missing, Diligent
    <3> QED
      BY <1>3, <3>1 DEF InsertRows
  <2>5. NewRow.status = "pending" /\ NewRow.lockedAt = NoTime
    BY DEF NewRow, AbsentRow
  <2>6. NoModel \notin Models
    BY SetsAssumption
  <2>7. Keeps(x)
    BY <2>1, <2>2, <2>4, <2>5, <2>6 DEF Attempted
  <2>8. Diligent(e)'
    BY <1>t, <2>1, <2>2, <2>3, <2>4, <2>5 DEF Diligent, Works, Calls
  <2> QED
    BY <1>g, <2>3, <2>7, <2>8
<1>4. ASSUME LoadForReset(e) \/ Reset(e) PROVE Goal
  BY <1>4, <1>t DEF LoadForReset, Reset, Diligent
<1>5. ASSUME ListRunnable(e) PROVE Goal
  <2> DEFINE x == [ex[e] EXCEPT !.pc = "next", !.snap = rows,
                                !.todo = {m \in ex[e].targets : Runnable(rows[m])}]
  <2>1. /\ x.pc = "next" /\ x.mode = ex[e].mode /\ x.cur = ex[e].cur
        /\ x.targets = ex[e].targets /\ x.todo = {m \in ex[e].targets : Runnable(rows[m])}
    BY <1>t DEF Executor
  <2>2. ex' = [ex EXCEPT ![e] = x] /\ rows' = rows /\ ex[e].pc = "list"
    BY <1>5 DEF ListRunnable
  <2> HIDE DEF x
  <2>3. Keeps(x)
    BY <1>n, <2>2 DEF Works, Calls
  <2>4. \A m \in x.targets : m \in x.todo \/ Attempted(m)
    BY <1>t, <2>1, <2>2 DEF Runnable, Diligent, Executor, Row, Status, Attempted
  <2>5. \A m \in x.targets : m \in x.todo \/ Handled(m)'
    BY <2>2, <2>4 DEF Handled, Attempted
  <2>6. Diligent(e)'
    BY <1>t, <2>1, <2>2, <2>5 DEF Diligent, Works, Calls
  <2> QED
    BY <1>g, <2>2, <2>3, <2>6
<1>6. ASSUME NEW k \in Models, Acquire(e, k) PROVE Goal
  <2> DEFINE x == [ex[e] EXCEPT !.pc = "calling", !.cur = k, !.since = now,
                                !.todo = ex[e].todo \ {k}]
  <2>1. /\ x.pc = "calling" /\ x.mode = ex[e].mode /\ x.cur = k
        /\ x.targets = ex[e].targets /\ x.todo = ex[e].todo \ {k}
    BY <1>t DEF Executor
  <2>2. ex' = [ex EXCEPT ![e] = x] /\ ex[e].pc = "next" /\ ex'[e] = x
    BY <1>6, <1>t DEF Acquire
  <2> HIDE DEF x
  <2>3. \A m \in Models : rows'[m].status = rows[m].status
                         /\ (m # k => rows'[m].lockedAt = rows[m].lockedAt)
    BY <1>6, <1>t DEF Acquire, Row
  <2>4. ex[e].cur = NoModel /\ NoModel \notin Models
    BY <1>t, <2>2, SetsAssumption DEF Diligent, Works, Calls
  <2>5. Keeps(x)
    BY <2>1, <2>3, <2>4 DEF Attempted
  <2>6. Handled(k)'
    BY <2>1, <2>2 DEF Handled
  <2>7. ASSUME \A m \in Models : Handled(m) => Handled(m)' PROVE Diligent(e)'
    <3>1. \A m \in x.targets : m \in x.todo \/ Handled(m)'
      BY <1>t, <2>1, <2>2, <2>6, <2>7 DEF Diligent, Executor
    <3> HIDE DEF Handled
    <3> QED
      BY <1>t, <2>1, <2>2, <2>3, <3>1 DEF Diligent, Works, Calls
  <2> QED
    BY <1>g, <2>2, <2>5, <2>7
<1>7. ASSUME NEW k \in Models, Skip(e, k) PROVE Goal
  <2> DEFINE x == [ex[e] EXCEPT !.todo = @ \ {k}]
  <2>1. /\ x.pc = ex[e].pc /\ x.mode = ex[e].mode /\ x.cur = ex[e].cur
        /\ x.targets = ex[e].targets /\ x.todo = ex[e].todo \ {k}
    BY <1>t DEF Executor
  <2>2. ex' = [ex EXCEPT ![e] = x] /\ rows' = rows /\ ex[e].pc = "next" /\ ex'[e] = x
    BY <1>7, <1>t DEF Skip
  <2> HIDE DEF x
  <2>3. Keeps(x)
    BY <1>n, <2>2 DEF Works, Calls
  <2>4. Handled(k)
    <3>1. rows[k].status \in Status \ {"absent"} /\ ~Acquirable(rows[k])
      BY <1>7, <1>t, <2>2 DEF Skip, Diligent, Row
    <3> QED
      BY <1>l, <3>1 DEF Acquirable, LockFree, LocksHeld, Handled, Attempted, Status
  <2>5. ASSUME \A m \in Models : Handled(m) => Handled(m)' PROVE Diligent(e)'
    <3>1. \A m \in x.targets : m \in x.todo \/ Handled(m)'
      BY <1>t, <2>1, <2>2, <2>4, <2>5 DEF Diligent, Executor
    <3> HIDE DEF Handled
    <3> QED
      BY <1>t, <2>1, <2>2, <3>1 DEF Diligent, Works, Calls
  <2> QED
    BY <1>g, <2>2, <2>3, <2>5
<1>8. ASSUME NEW o \in Outcome, Answer(e, o) PROVE Goal
  <2> DEFINE x == [ex[e] EXCEPT !.pc = "record", !.outcome = o, !.run = Len(runs[ex[e].cur]) + 1]
  <2>1. /\ x.pc = "record" /\ x.mode = ex[e].mode /\ x.cur = ex[e].cur
        /\ x.targets = ex[e].targets /\ x.todo = ex[e].todo
    BY <1>t DEF Executor
  <2>2. ex' = [ex EXCEPT ![e] = x] /\ rows' = rows /\ ex[e].pc = "calling" /\ ex'[e] = x
    BY <1>8, <1>t DEF Answer
  <2> HIDE DEF x
  <2>3. Keeps(x)
    BY <2>1, <2>2, <1>k, <1>l
  <2>4. ASSUME \A m \in Models : Handled(m) => Handled(m)' PROVE Diligent(e)'
    <3>1. \A m \in x.targets : m \in x.todo \/ Handled(m)'
      BY <1>t, <2>1, <2>2, <2>4 DEF Diligent, Executor, Works, Calls
    <3> HIDE DEF Handled
    <3> QED
      BY <1>t, <2>1, <2>2, <3>1 DEF Diligent, Works, Calls
  <2> QED
    BY <1>g, <2>2, <2>3, <2>4
<1>9. ASSUME MarkSuccess(e) \/ MarkFailure(e) PROVE Goal
  <2> DEFINE x1 == [ex[e] EXCEPT !.pc = "extract", !.since = now]
             x2 == [ex[e] EXCEPT !.pc = "release"]
  <2>1. /\ x1.pc = "extract" /\ x1.mode = ex[e].mode /\ x1.cur = ex[e].cur
        /\ x1.targets = ex[e].targets /\ x1.todo = ex[e].todo
        /\ x2.pc = "release" /\ x2.mode = ex[e].mode /\ x2.cur = ex[e].cur
        /\ x2.targets = ex[e].targets /\ x2.todo = ex[e].todo
    BY <1>t DEF Executor
  <2>2. ex' = [ex EXCEPT ![e] = x1] \/ ex' = [ex EXCEPT ![e] = x2]
    BY <1>9 DEF MarkSuccess, MarkFailure
  <2> HIDE DEF x1, x2
  <2>3. PICK x : /\ ex' = [ex EXCEPT ![e] = x] /\ ex'[e] = x
                 /\ x.pc \in {"extract", "release"} /\ x.mode = ex[e].mode /\ x.cur = ex[e].cur
                 /\ x.targets = ex[e].targets /\ x.todo = ex[e].todo
    BY <1>t, <2>1, <2>2
  <2>4. ex[e].pc = "record" /\ ex[e].cur \in Models
    BY <1>9, <1>t DEF MarkSuccess, MarkFailure, HasCur
  <2>5. /\ rows'[ex[e].cur].status \in {"retrying", "success", "exhausted"}
        /\ \A m \in Models \ {ex[e].cur} : rows'[m] = rows[m]
    BY <1>9, <1>t, <2>4 DEF MarkSuccess, MarkFailure, SuccessRow, FailureRow
  <2>6. Keeps(x)
    BY <2>3, <2>4, <2>5 DEF Attempted
  <2>7. ASSUME \A m \in Models : Handled(m) => Handled(m)' PROVE Diligent(e)'
    <3>1. \A m \in x.targets : m \in x.todo \/ Handled(m)'
      BY <1>t, <2>3, <2>4, <2>7 DEF Diligent, Executor, Works, Calls
    <3>2. Attempted(ex[e].cur)'
      BY <2>3, <2>5 DEF Attempted
    <3>3. \A m \in Models : rows'[m].status # "absent"
      BY <1>t, <2>4, <2>5 DEF Diligent
    <3> HIDE DEF Handled, Attempted
    <3> QED
      BY <1>t, <2>3, <2>4, <2>5, <3>1, <3>3 DEF Diligent, Works, Calls, Attempted
  <2> QED
    BY <1>g, <2>3, <2>6, <2>7
<1>10. ASSUME Extracted(e) PROVE Goal
  <2>1. PICK b \in BOOLEAN :
           ex' = [ex EXCEPT ![e] = [@ EXCEPT
                     !.pc = "release", !.expired = ex[e].expired \/ b]]
    BY <1>10 DEF Extracted
  <2> DEFINE x == [ex[e] EXCEPT !.pc = "release", !.expired = ex[e].expired \/ b]
  <2>2. /\ x.pc = "release" /\ x.mode = ex[e].mode /\ x.cur = ex[e].cur
        /\ x.targets = ex[e].targets /\ x.todo = ex[e].todo
    BY <1>t DEF Executor
  <2>3. ex' = [ex EXCEPT ![e] = x] /\ rows' = rows /\ ex[e].pc = "extract" /\ ex'[e] = x
    BY <1>10, <1>t, <2>1 DEF Extracted
  <2> HIDE DEF x
  <2>4. Keeps(x)
    BY <2>2, <2>3, <1>k, <1>l
  <2>5. ASSUME \A m \in Models : Handled(m) => Handled(m)' PROVE Diligent(e)'
    <3>1. \A m \in x.targets : m \in x.todo \/ Handled(m)'
      BY <1>t, <2>2, <2>3, <2>5 DEF Diligent, Executor, Works, Calls
    <3> HIDE DEF Handled
    <3> QED
      BY <1>t, <2>2, <2>3, <3>1 DEF Diligent, Works, Calls, Attempted
  <2> QED
    BY <1>g, <2>3, <2>4, <2>5
<1>11. ASSUME Release(e) PROVE Goal
  <2> DEFINE x == [ex[e] EXCEPT !.pc = "next", !.cur = NoModel, !.since = 0,
                                !.outcome = "answer", !.run = NoRun]
  <2>1. /\ x.pc = "next" /\ x.mode = ex[e].mode /\ x.cur = NoModel
        /\ x.targets = ex[e].targets /\ x.todo = ex[e].todo
    BY <1>t DEF Executor
  <2>2. ex' = [ex EXCEPT ![e] = x] /\ ex[e].pc = "release" /\ ex'[e] = x
    BY <1>11, <1>t DEF Release
  <2> HIDE DEF x
  <2>3. ex[e].cur \in Models /\ Attempted(ex[e].cur)
    BY <1>t, <2>2 DEF HasCur, Diligent
  <2>4. \A m \in Models : /\ rows'[m].status = rows[m].status
                          /\ rows'[m].lockedAt = IF m = ex[e].cur THEN NoTime ELSE rows[m].lockedAt
    BY <1>11, <1>t, <2>3 DEF Release, Row
  <2>5. Keeps(x)
    BY <2>3, <2>4 DEF Attempted
  <2>6. ASSUME \A m \in Models : Handled(m) => Handled(m)' PROVE Diligent(e)'
    <3>1. \A m \in x.targets : m \in x.todo \/ Handled(m)'
      BY <1>t, <2>1, <2>2, <2>6 DEF Diligent, Executor, Works, Calls
    <3> HIDE DEF Handled
    <3> QED
      BY <1>t, <2>1, <2>2, <2>4, <3>1 DEF Diligent, Works, Calls
  <2> QED
    BY <1>g, <2>2, <2>5, <2>6
<1> QED
  BY <1>1, <1>2, <1>3, <1>4, <1>5, <1>6, <1>7, <1>8, <1>9, <1>10, <1>11 DEF Step

\* A step of one execution leaves the others alone, and its own models as they are
\* until it ends.
LEMMA OnlyOwnStep ==
    ASSUME TInv, NEW e \in Executors, NEW f \in Executors \ {e},
           Step(e) \/ \E T \in Targets : Start(e, "auto", T)
    PROVE  ex'[f] = ex[f]
BY DEF TInv, TypeOK, Step, Start, InsertRows, InsertConflict, LoadForReset, Reset,
       ListRunnable, Acquire, Skip, Finish, Answer, MarkSuccess, MarkFailure, Extracted, Release

LEMMA TargetsStay ==
    ASSUME TInv, NEW e \in Executors, Step(e)
    PROVE  \/ ex'[e].pc # "idle" /\ ex'[e].targets = ex[e].targets
           \/ ex'[e].pc = "idle" /\ (InsertConflict(e) \/ Finish(e))
<1>t. ex \in [Executors -> Executor] /\ ex[e] \in Executor
  BY DEF TInv, TypeOK
<1> DEFINE Goes == ex'[e].pc # "idle" /\ ex'[e].targets = ex[e].targets
<1>1. ASSUME InsertConflict(e) \/ Finish(e) PROVE ex'[e].pc = "idle"
  BY <1>1, <1>t DEF InsertConflict, Finish, IdleExecutor
<1>2. ASSUME LoadForReset(e) \/ ListRunnable(e) PROVE Goes
  BY <1>2, <1>t DEF LoadForReset, ListRunnable, Executor
<1>3. ASSUME InsertRows(e) \/ Reset(e) \/ MarkFailure(e) PROVE Goes
  BY <1>3, <1>t DEF InsertRows, Reset, MarkFailure, Executor
<1>4. ASSUME MarkSuccess(e) PROVE Goes
  BY <1>4, <1>t DEF MarkSuccess, Executor
<1>5. ASSUME Release(e) PROVE Goes
  BY <1>5, <1>t DEF Release, Executor
<1>6. ASSUME NEW m \in Models, Acquire(e, m) PROVE Goes
  BY <1>6, <1>t DEF Acquire, Executor
<1>7. ASSUME NEW m \in Models, Skip(e, m) PROVE Goes
  <2>1. ex[e].pc = "next"
    BY <1>7 DEF Skip
  <2> QED
    BY <1>7, <1>t, <2>1 DEF Skip, Executor
<1>8. ASSUME NEW o \in Outcome, Answer(e, o) PROVE Goes
  <2> DEFINE n == Len(runs[ex[e].cur]) + 1
             x == [ex[e] EXCEPT !.pc = "record", !.outcome = o, !.run = n]
  <2>1. ex' = [ex EXCEPT ![e] = x]
    BY <1>8 DEF Answer
  <2> HIDE DEF n
  <2>2. x.pc = "record" /\ x.targets = ex[e].targets
    BY <1>t DEF Executor
  <2> QED
    BY <1>t, <2>1, <2>2
<1>9. ASSUME Extracted(e) PROVE Goes
  BY <1>9, <1>t DEF Extracted, Executor
<1> QED
  BY <1>1, <1>2, <1>3, <1>4, <1>5, <1>6, <1>7, <1>8, <1>9 DEF Step

LEMMA WorkersStep ==
    ASSUME PTypeOK, JobsInv, TInv, ExecutorsInv, WorkersInv, [PNext]_pvars,
           \A w \in Workers : ~Die(w) /\ ~Fail(w)
    PROVE  ExecutorsInv' /\ WorkersInv'
<1>t. /\ ex \in [Executors -> Executor] /\ wk \in [Workers -> WorkerState]
      /\ Workers \subseteq Executors
  BY DEF PTypeOK, TInv, TypeOK, Executors
<1>j. JobsKept
  BY JobsStep
<1>m. \A i \in DOMAIN entries : entries[i].models \subseteq Models
  BY DEF JobsInv, Targets
\* The worker of the step, and the others.
<1>o. ASSUME NEW v \in Workers, wk'[v] = wk[v], ex'[v] = ex[v],
             \A m \in Models : Handled(m) => Handled(m)'
      PROVE  /\ wk'[v].stage = "run" =>
                   ex'[v].pc # "idle" /\ ex'[v].targets = entries'[wk'[v].entry].models
             /\ wk'[v].stage = "done" => \A m \in entries'[wk'[v].entry].models : Handled(m)'
  <2>1. wk[v].stage # "idle" => wk[v].entry \in DOMAIN entries
    BY DEF JobsInv
  <2> HIDE DEF Handled
  <2>2. wk[v].stage = "done" => \A m \in entries[wk[v].entry].models : Handled(m)
    BY DEF WorkersInv
  <2>3. wk[v].stage = "run" => ex[v].pc # "idle" /\ ex[v].targets = entries[wk[v].entry].models
    BY DEF WorkersInv
  <2> QED
    BY <1>o, <1>j, <1>m, <2>1, <2>2, <2>3 DEF JobsKept
<1>1. CASE UNCHANGED <<rows, ex>>
  <2>1. \A m \in Models : Handled(m) => Handled(m)'
    BY <1>1 DEF Handled, Attempted
  <2>2. ExecutorsInv'
    BY <1>1 DEF ExecutorsInv, LocksHeld, Diligent, Handled, Attempted, Works, Calls
  <2>3. ASSUME NEW v \in Workers, wk'[v] # wk[v], wk'[v].stage \in {"run", "done"} PROVE FALSE
    <3>1. ASSUME NEW w \in Workers, Take(w) \/ CheckPrompt(w) \/ Acknowledge(w) PROVE FALSE
      BY <2>3, <3>1, <1>t DEF Take, CheckPrompt, Acknowledge, IdleWorker, WorkerState
    <3>2. ASSUME NEW w \in Workers, Begin(w) \/ Run(w) PROVE ex' # ex
      <4>1. w \in Executors
        BY <3>2 DEF Executors
      <4>2. CASE Begin(w)
        <5>1. ex[w].pc = "idle" /\ ex'[w].pc = "insert"
          BY <4>1, <4>2, <1>t DEF Begin, Start, IdleExecutor
        <5> QED
          BY <5>1
      <4>3. CASE Run(w) /\ ex' = ex
        <5>0. wk[w].stage = "run" /\ ex'[w].pc # "idle"
          BY <4>3 DEF Run, WorkersInv
        <5>1. wk[w].stage = "run" /\ wk' = [wk EXCEPT ![w].stage = "run"]
          BY <4>3, <5>0 DEF Run
        <5>2. wk' = wk
          BY <5>1, <1>t DEF WorkerState
        <5> QED
          BY <2>3, <5>2
      <4> QED
        BY <3>2, <4>2, <4>3
    <3>3. ASSUME \A w \in Workers : ~WorkerStep(w) PROVE wk' = wk
      BY <3>3 DEF PNext, SchedulerStep, StartCycle, SelectDaily, SelectRetries, Add, EndCycle,
                  CycleFails, Pause, Resume, PTick, pvars
    <3> QED
      BY <1>1, <2>3, <3>1, <3>2, <3>3 DEF WorkerStep
  <2>4. ASSUME NEW v \in Workers
        PROVE  /\ wk'[v].stage = "run" =>
                     ex'[v].pc # "idle" /\ ex'[v].targets = entries'[wk'[v].entry].models
               /\ wk'[v].stage = "done" => \A m \in entries'[wk'[v].entry].models : Handled(m)'
    <3>1. ex'[v] = ex[v]
      BY <1>1
    <3> HIDE DEF Handled
    <3> QED
      BY <1>o, <2>1, <2>3, <3>1
  <2> QED
    BY <2>2, <2>4 DEF WorkersInv
<1>2. ASSUME NEW w \in Workers, Begin(w), StartDaily(w) PROVE ExecutorsInv' /\ WorkersInv'
  <2>1. w \in Executors
    BY DEF Executors
  <2> DEFINE T == entries[wk[w].entry].models
  <2>2. T \in Targets /\ Start(w, "auto", T)
    BY <1>2 DEF Begin, JobsInv
  <2>3. ExecutorsInv' /\ \A m \in Models : Handled(m) => Handled(m)'
    BY <2>1, <2>2, ExecutorsStep
  <2>4. ex'[w].pc = "insert" /\ ex'[w].targets = T
    BY <2>1, <2>2, <1>t DEF Start, IdleExecutor
  <2>5. /\ wk'[w].stage = "run" /\ wk'[w].entry = wk[w].entry /\ entries' = entries
        /\ \A v \in Workers \ {w} : wk'[v] = wk[v]
    BY <1>2, <1>t DEF Begin, WorkerState, qvars
  <2>6. \A v \in Workers \ {w} : ex'[v] = ex[v]
    BY <2>1, <2>2, <1>t, OnlyOwnStep
  <2> HIDE DEF Handled
  <2>7. ASSUME NEW v \in Workers
        PROVE  /\ wk'[v].stage = "run" =>
                     ex'[v].pc # "idle" /\ ex'[v].targets = entries'[wk'[v].entry].models
               /\ wk'[v].stage = "done" => \A m \in entries'[wk'[v].entry].models : Handled(m)'
    BY <1>o, <2>3, <2>4, <2>5, <2>6
  <2> QED
    BY <2>3, <2>7 DEF WorkersInv
<1>3. ASSUME NEW w \in Workers, Run(w) PROVE ExecutorsInv' /\ WorkersInv'
  <2>1. w \in Executors /\ Step(w) /\ wk[w].stage = "run"
    BY <1>3 DEF Run, Executors
  <2>2. ExecutorsInv' /\ \A m \in Models : Handled(m) => Handled(m)'
    BY <2>1, ExecutorsStep
  <2>3. \A v \in Workers \ {w} : wk'[v] = wk[v] /\ ex'[v] = ex[v]
    BY <1>3, <1>t, <2>1, OnlyOwnStep DEF Run
  <2>4. /\ entries' = entries /\ wk'[w].entry = wk[w].entry
        /\ ex[w].targets = entries[wk[w].entry].models
    BY <1>3, <1>t, <2>1 DEF Run, qvars, WorkerState, WorkersInv
  <2>5. /\ ex'[w].pc # "idle" => wk'[w].stage = "run"
        /\ ex'[w].pc = "idle" /\ InsertConflict(w) => wk'[w].stage = "failed"
        /\ ex'[w].pc = "idle" /\ Finish(w) => wk'[w].stage = "done"
    <3> DEFINE st == IF ex'[w].pc # "idle" THEN "run"
                     ELSE IF ex[w].pc = "insert" THEN "failed" ELSE "done"
    <3>1. wk' = [wk EXCEPT ![w].stage = st]
      BY <1>3 DEF Run
    <3>2. wk'[w].stage = st
      <4> HIDE DEF st
      <4> QED
        BY <1>t, <3>1 DEF WorkerState
    <3>3. /\ InsertConflict(w) => ex[w].pc = "insert"
          /\ Finish(w) => ex[w].pc = "next"
      BY DEF InsertConflict, Finish
    <3> QED
      BY <3>2, <3>3
  <2>6. Finish(w) => \A m \in ex[w].targets : Handled(m)
    BY <2>1 DEF Finish, ExecutorsInv, Diligent
  <2>7. ex[w].targets \subseteq Models
    BY <1>t, <2>1 DEF Executor
  <2> HIDE DEF Handled
  <2>8. /\ wk'[w].stage = "run" =>
              ex'[w].pc # "idle" /\ ex'[w].targets = entries'[wk'[w].entry].models
        /\ wk'[w].stage = "done" => \A m \in entries'[wk'[w].entry].models : Handled(m)'
    BY <2>1, <2>2, <2>4, <2>5, <2>6, <2>7, TargetsStay
  <2>9. ASSUME NEW v \in Workers
        PROVE  /\ wk'[v].stage = "run" =>
                     ex'[v].pc # "idle" /\ ex'[v].targets = entries'[wk'[v].entry].models
               /\ wk'[v].stage = "done" => \A m \in entries'[wk'[v].entry].models : Handled(m)'
    BY <1>o, <2>2, <2>3, <2>8
  <2> QED
    BY <2>2, <2>9 DEF WorkersInv
<1>4. Tick => UNCHANGED <<rows, ex>>
  BY DEF Tick
<1>5. UNCHANGED vars => UNCHANGED <<rows, ex>>
  BY DEF vars
<1> QED
  BY <1>1, <1>2, <1>3, <1>4, <1>5, PipelineStep

\* As long as no worker dies and no job fails, whoever acknowledges a job as done leaves
\* no model of it behind, jobs taken over from slow workers included; schedulers may
\* fail and the prompt may be paused meanwhile.
THEOREM DoneInFullHolds == PSpec /\ NobodyFails => []DoneInFull
<1>1. PInit => ExecutorsInv /\ WorkersInv
  <2> SUFFICES ASSUME PInit PROVE ExecutorsInv /\ WorkersInv
    OBVIOUS
  <2>1. LocksHeld
    BY DEF PInit, Init, LocksHeld, AbsentRow
  <2>2. \A e \in Executors : Diligent(e)
    BY DEF PInit, Init, Diligent, Works, Calls, IdleExecutor
  <2> QED
    BY <2>1, <2>2 DEF PInit, ExecutorsInv, WorkersInv, IdleWorker
<1>2. ASSUME StreamInv, JobsInv, TInv, ExecutorsInv, WorkersInv, [PNext]_pvars,
             [\A w \in Workers : ~Die(w) /\ ~Fail(w)]_pvars
      PROVE  ExecutorsInv' /\ WorkersInv'
  <2>1. CASE UNCHANGED pvars
    <3>1. \A w \in Workers : ~Die(w) /\ ~Fail(w)
      <4>1. upsets \in Nat /\ upsets' = upsets
        BY <1>2, <2>1 DEF StreamInv, PTypeOK, pvars
      <4> QED
        BY <4>1 DEF Die, Fail
    <3> QED
      BY <1>2, <3>1, WorkersStep DEF StreamInv
  <2> QED
    BY <1>2, <2>1, WorkersStep DEF StreamInv
<1>3. JobsInv /\ WorkersInv => DoneInFull
  BY DEF JobsInv, WorkersInv, DoneInFull, LeftBehind, Handled, Attempted, Targets
<1>4. PSpec /\ NobodyFails => [](ExecutorsInv /\ WorkersInv)
  BY <1>1, <1>2, PipelineHolds, PTL DEF PSpec, NobodyFails
<1> QED
  BY <1>3, <1>4, PipelineHolds, PTL

(***************************************************************************)
(* A model call (AiCall): the inductive invariant                          *)
(***************************************************************************)
CallErrors == [by : Providers, real : BOOLEAN, retryable : BOOLEAN]
Verdicts == {"answer", "broken", "busy", "refused"}
InFlight == call.pc \in {"request", "pause"}

CallTypeOK ==
    /\ setup \in [gateway : BOOLEAN, key : BOOLEAN]
    /\ call \in [pc : {"begin", "request", "pause", "ended"}, provider : Providers \cup {"none"},
                 attempt : Nat, until : Nat]
    /\ primary \in CallErrors
    /\ result \in [outcome : {"none", "answer", "retryable", "fatal", "unknown"},
                   by : Providers \cup {"none"}]
    /\ asked \in [Providers -> Nat]
    /\ heard \in SUBSET (Providers \X Verdicts)
    /\ time \in Nat

NotHeard(p, kinds, H) == \A kind \in kinds : <<p, kind>> \notin H

\* The error e of provider p says that the request is refused for good exactly if p said so.
Weighs(e, p, H) == <<p, "refused">> \in H <=> e.real /\ ~e.retryable

\* What e says of the primary route, once that is over.
PrimaryDone(e, H) ==
    /\ NotHeard("primary", {"answer", "broken"}, H)
    /\ Weighs(e, "primary", H)
    /\ e.real => e.by = "primary"
    /\ e.by = "primary" => asked["primary"] > 0

BeginOK == call.pc = "begin" =>
    /\ heard = {} /\ time = 0 /\ primary = NoError
    /\ asked = [p \in Providers |-> 0]

OutcomeOK == result.outcome = "none" <=> call.pc # "ended"

TimeOK ==
    /\ time <= Deadline + MaxLate
    /\ InFlight => call.until <= Deadline /\ time <= call.until + MaxLate

AttemptOK == InFlight =>
    /\ call.provider \in Providers
    /\ call.attempt <= MaxRetries
    /\ asked[call.provider] = call.attempt + (IF call.pc = "request" THEN 1 ELSE 0)
    /\ call.pc = "pause" => call.attempt > 0
    /\ NotHeard(call.provider, {"answer", "broken", "refused"}, heard)

RouteOK == InFlight =>
    /\ call.provider = "primary" =>
          asked["fallback"] = 0 /\ NotHeard("fallback", Verdicts, heard)
    /\ call.provider = "fallback" => PrimaryDone(primary, heard)

CallInv ==
    /\ CallTypeOK /\ BeginOK /\ OutcomeOK /\ TimeOK /\ AttemptOK /\ RouteOK
    /\ FatalIfRefused /\ BlameIsFair

LEMMA CallInvInit == CallInit => CallInv
<1> SUFFICES ASSUME CallInit PROVE CallInv
  OBVIOUS
<1>1. CallTypeOK
  BY DEF CallInit, CallTypeOK, CallErrors, NoError, DeadlineError, Waiting, Providers
<1>2. BeginOK /\ OutcomeOK /\ TimeOK /\ AttemptOK /\ RouteOK
  BY CallAssumption DEF CallInit, BeginOK, OutcomeOK, TimeOK, AttemptOK, RouteOK, InFlight, Waiting
<1>3. FatalIfRefused /\ BlameIsFair
  BY DEF CallInit, FatalIfRefused, BlameIsFair
<1> QED
  BY <1>1, <1>2, <1>3 DEF CallInv

(***************************************************************************)
(* What every step has to show.                                            *)
(***************************************************************************)
AskStep ==
    \A p \in Providers : asked'[p] # asked[p] =>
        /\ time < Deadline /\ asked[p] <= MaxRetries
        /\ \A kind \in {"answer", "refused", "broken"} : <<p, kind>> \notin heard'
        /\ p = "primary" => asked["fallback"] = 0

FailStep ==
    result.outcome = "none" /\ result'.outcome \in {"retryable", "fatal", "unknown"} =>
        \/ asked["fallback"] > 0
        \/ ~setup.key \/ Deadline - time <= Reserve
        \/ <<"primary", "broken">> \in heard'

GoodStep == CallInv' /\ AskStep /\ FailStep

\* The step replaces neither the settings nor the clock, and takes note of what it heard.
AtOnce == setup' = setup /\ time' = time /\ heard' \in SUBSET (Providers \X Verdicts)

\* The call ends: what is left to show is about its result.
LEMMA EndStep ==
    ASSUME CallInv, AtOnce, NEW o \in {"answer", "retryable", "fatal", "unknown"},
           NEW p \in Providers \cup {"none"}, End(o, p), primary' \in CallErrors,
           FatalIfRefused', BlameIsFair', FailStep
    PROVE  GoodStep
<1>1. CallTypeOK'
  BY DEF CallInv, CallTypeOK, AtOnce, End, Ended, Waiting
<1>2. call'.pc = "ended" /\ result'.outcome = o /\ asked' = asked
  BY DEF End, Ended, Waiting
<1>3. BeginOK' /\ OutcomeOK' /\ TimeOK' /\ AttemptOK' /\ RouteOK'
  BY <1>2 DEF BeginOK, OutcomeOK, TimeOK, AttemptOK, RouteOK, InFlight, CallInv, AtOnce
<1>4. AskStep
  BY <1>2 DEF AskStep
<1> QED
  BY <1>1, <1>3, <1>4 DEF GoodStep, CallInv

\* A request is sent to p.
LEMMA RequestStep ==
    ASSUME CallInv, AtOnce, call.pc # "ended", NEW p \in Providers, NEW n \in Nat, Ask(p, n),
           primary' \in CallErrors, time < Deadline,
           n <= MaxRetries, asked[p] = n,
           NotHeard(p, {"answer", "broken", "refused"}, heard'),
           p = "primary" => asked["fallback"] = 0 /\ NotHeard("fallback", Verdicts, heard'),
           p = "fallback" => PrimaryDone(primary', heard')
    PROVE  GoodStep
<1>a. asked \in [Providers -> Nat] /\ time \in Nat /\ Deadline \in Nat /\ RequestTimeout \in Nat
      /\ MaxLate \in Nat /\ RequestTimeout > 0
  BY CallAssumption DEF CallInv, CallTypeOK
<1>t. Timeout \in Nat /\ time + Timeout <= Deadline
  BY <1>a DEF Timeout
<1>c. /\ call' = [pc |-> "request", provider |-> p, attempt |-> n, until |-> time + Timeout]
      /\ asked' = [asked EXCEPT ![p] = @ + 1] /\ result' = result
      /\ setup' = setup /\ time' = time
  BY DEF Ask, Waiting, AtOnce
<1>1. CallTypeOK'
  BY <1>a, <1>t, <1>c DEF CallInv, CallTypeOK, AtOnce
<1>2. BeginOK' /\ OutcomeOK'
  BY <1>c DEF BeginOK, OutcomeOK, CallInv
<1>3. TimeOK'
  BY <1>a, <1>t, <1>c DEF TimeOK, InFlight, CallInv
<1>4. AttemptOK'
  BY <1>a, <1>c DEF AttemptOK
<1>5. RouteOK'
  <2>1. CASE p = "primary"
    BY <2>1, <1>a, <1>c DEF RouteOK, Providers
  <2>2. CASE p = "fallback"
    BY <2>2, <1>a, <1>c DEF RouteOK, PrimaryDone, Providers
  <2> QED
    BY <2>1, <2>2 DEF Providers
<1>6. FatalIfRefused' /\ BlameIsFair' /\ FailStep
  <2>1. result'.outcome = "none"
    BY <1>c DEF CallInv, OutcomeOK
  <2> QED
    BY <2>1 DEF FatalIfRefused, BlameIsFair, FailStep
<1>7. AskStep
  <2> SUFFICES ASSUME NEW q \in Providers, asked'[q] # asked[q]
               PROVE  /\ time < Deadline /\ asked[q] <= MaxRetries
                      /\ \A kind \in {"answer", "refused", "broken"} : <<q, kind>> \notin heard'
                      /\ q = "primary" => asked["fallback"] = 0
    BY DEF AskStep
  <2>1. q = p
    BY <1>a, <1>c
  <2> QED
    BY <2>1 DEF NotHeard
<1> QED
  BY <1>1, <1>2, <1>3, <1>4, <1>5, <1>6, <1>7 DEF GoodStep, CallInv

LEMMA ErrorTypes ==
    /\ NoError \in CallErrors
    /\ \A p \in Providers : DeadlineError(p) \in CallErrors
    /\ \A p \in Providers, b \in BOOLEAN : Error(p, b) \in CallErrors
    /\ \A e, f \in CallErrors : Combined(e, f) \in CallErrors
BY DEF NoError, DeadlineError, Error, Combined, CallErrors, Providers

\* The call fails with the errors e of the primary and f of the fallback route.
LEMMA FailureStep ==
    ASSUME CallInv, AtOnce, call.pc # "ended", NEW e \in CallErrors, NEW f \in CallErrors,
           CallFails(Combined(e, f)), primary' \in CallErrors,
           PrimaryDone(e, heard'), Weighs(f, "fallback", heard'),
           f.by = "fallback", <<"fallback", "answer">> \notin heard',
           \/ asked["fallback"] > 0
           \/ ~f.real /\ Deadline - time <= Reserve /\ (time = 0 \/ e.by = "primary")
    PROVE  GoodStep
<1> DEFINE c == Combined(e, f)
           o == IF c.retryable THEN "retryable" ELSE "fatal"
<1>c. c \in CallErrors
  BY ErrorTypes
<1>1. /\ c.by = (IF f.real THEN f.by ELSE e.by)
      /\ c.retryable <=> (e.real => e.retryable) /\ (f.real => f.retryable)
  BY DEF Combined
<1>e. End(o, c.by)
  BY DEF CallFails
<1>2. result' = [outcome |-> o, by |-> c.by] /\ asked' = asked
  BY <1>e DEF End
<1> HIDE DEF c
<1>3. o \in {"retryable", "fatal"} /\ c.by \in Providers
  BY <1>c DEF CallErrors
<1>4. FatalIfRefused'
  <2>1. o = "fatal" <=> (e.real /\ ~e.retryable) \/ (f.real /\ ~f.retryable)
    BY <1>1, <1>c DEF CallErrors
  <2>2. o = "fatal" <=> \E p \in Providers : <<p, "refused">> \in heard'
    BY <2>1 DEF PrimaryDone, Weighs, Providers
  <2> QED
    BY <2>2, <1>2, <1>3 DEF FatalIfRefused
<1>5. BlameIsFair'
  <2> SUFFICES ASSUME Deadline > Reserve
               PROVE  /\ asked[c.by] > 0
                      /\ <<c.by, "answer">> \notin heard'
                      /\ c.by = "primary" => <<"fallback", "refused">> \notin heard'
    BY <1>2 DEF BlameIsFair
  <2>1. asked["fallback"] > 0 \/ (~f.real /\ e.by = "primary")
    BY CallAssumption
  <2>2. CASE c.by = "fallback"
    <3>1. ~(e.by = "primary" /\ ~f.real)
      BY <2>2, <1>1
    <3> QED
      BY <2>2, <3>1, <2>1
  <2>3. CASE c.by = "primary"
    <3>1. ~f.real /\ e.by = "primary"
      BY <2>3, <1>1
    <3> QED
      BY <2>3, <3>1 DEF PrimaryDone, NotHeard, Weighs
  <2> QED
    BY <2>2, <2>3, <1>3 DEF Providers
<1>6. FailStep
  BY CallAssumption DEF FailStep
<1> QED
  BY <1>e, <1>3, <1>4, <1>5, <1>6, EndStep

\* The primary route is over, or was never taken.
LEMMA FallbackStep ==
    ASSUME CallInv, AtOnce, call.pc # "ended", NEW e \in CallErrors, TryFallback(e),
           PrimaryDone(e, heard'), NotHeard("fallback", Verdicts, heard'),
           asked["fallback"] = 0, e.by = "primary" \/ time = 0
    PROVE  GoodStep
<1>a. primary' = e /\ NoError \in CallErrors /\ time \in Nat
  BY ErrorTypes DEF TryFallback, CallInv, CallTypeOK
<1>1. CASE ~setup.key /\ End("unknown", "none")
  <2>1. result' = [outcome |-> "unknown", by |-> "none"] /\ setup' = setup
    BY <1>1 DEF End, AtOnce
  <2>2. FatalIfRefused' /\ BlameIsFair'
    BY <2>1, <1>1 DEF FatalIfRefused, BlameIsFair
  <2>3. FailStep
    BY <1>1 DEF FailStep
  <2> QED
    BY <2>2, <2>3, <1>1, <1>a, EndStep
<1>2. CASE setup.key /\ Deadline - time <= Reserve /\ CallFails(Combined(e, NoError))
  <2>1. Weighs(NoError, "fallback", heard') /\ <<"fallback", "answer">> \notin heard'
    BY DEF Weighs, NotHeard, Verdicts, NoError, DeadlineError
  <2>2. NoError.by = "fallback" /\ ~NoError.real
    BY DEF NoError, DeadlineError
  <2> QED
    BY <2>1, <2>2, <1>2, <1>a, FailureStep
<1>3. CASE setup.key /\ Deadline - time > Reserve /\ Ask("fallback", 0)
  <2>1. time < Deadline /\ 0 <= MaxRetries
    BY <1>3, <1>a, CallAssumption
  <2>2. NotHeard("fallback", {"answer", "broken", "refused"}, heard')
    BY DEF NotHeard, Verdicts
  <2> QED
    BY <2>1, <2>2, <1>3, <1>a, RequestStep DEF Providers
<1> QED
  BY <1>1, <1>2, <1>3 DEF TryFallback

\* What the step heard comes from the provider it waits for, and e is what became of it.
Learned(e) ==
    /\ \A p \in Providers \ {call.provider}, k \in Verdicts : <<p, k>> \in heard' <=> <<p, k>> \in heard
    /\ NotHeard(call.provider, {"answer", "broken"}, heard')
    /\ Weighs(e, call.provider, heard')

\* The route the call is on is over.
LEMMA GiveUpStep ==
    ASSUME CallInv, AtOnce, InFlight, NEW e \in CallErrors, GiveUp(e),
           e.by = call.provider, Learned(e)
    PROVE  GoodStep
<1>a. /\ call.pc # "ended" /\ call.provider \in Providers
      /\ asked[call.provider] > 0 /\ primary \in CallErrors
  <2>1. call.attempt \in Nat /\ primary \in CallErrors
    BY DEF CallInv, CallTypeOK
  <2> QED
    BY <2>1 DEF CallInv, AttemptOK, InFlight
<1>1. CASE call.provider = "primary" /\ TryFallback(e)
  <2>1. PrimaryDone(e, heard')
    BY <1>1, <1>a DEF Learned, PrimaryDone
  <2>2. NotHeard("fallback", Verdicts, heard') /\ asked["fallback"] = 0
    BY <1>1 DEF Learned, CallInv, RouteOK, NotHeard, Providers
  <2> QED
    BY <2>1, <2>2, <1>1, <1>a, FallbackStep
<1>2. CASE call.provider = "fallback" /\ CallFails(Combined(primary, e)) /\ UNCHANGED primary
  <2>1. PrimaryDone(primary, heard)
    BY <1>2 DEF CallInv, RouteOK
  <2>2. PrimaryDone(primary, heard')
    BY <2>1, <1>2 DEF PrimaryDone, NotHeard, Weighs, Learned, Providers, Verdicts
  <2>3. Weighs(e, "fallback", heard') /\ <<"fallback", "answer">> \notin heard'
    BY <1>2 DEF Learned, NotHeard
  <2> QED
    BY <2>2, <2>3, <1>2, <1>a, FailureStep
<1> QED
  BY <1>1, <1>2 DEF GiveUp

\* The call pauses before retry n, or finds that the deadline leaves no time for it.
LEMMA PauseStep ==
    ASSUME CallInv, AtOnce, InFlight, NEW n \in Nat \ {0}, n <= MaxRetries,
           asked[call.provider] = n, PauseBefore(n), Learned(DeadlineError(call.provider))
    PROVE  GoodStep
<1>a. /\ call \in [pc : {"begin", "request", "pause", "ended"}, provider : Providers \cup {"none"},
                   attempt : Nat, until : Nat]
      /\ time \in Nat /\ Deadline \in Nat /\ MaxLate \in Nat /\ call.provider \in Providers
  BY CallAssumption DEF CallInv, CallTypeOK, AttemptOK
<1>1. PICK d \in Pauses(n) :
        \/ time + d >= Deadline /\ GiveUp(DeadlineError(call.provider))
        \/ /\ time + d < Deadline
           /\ call' = [call EXCEPT !.pc = "pause", !.attempt = n, !.until = time + d]
           /\ UNCHANGED <<primary, result, asked>>
  BY DEF PauseBefore
<1>d. d \in Nat
  BY DEF Pauses
<1>2. CASE GiveUp(DeadlineError(call.provider))
  <2>1. DeadlineError(call.provider) \in CallErrors /\ DeadlineError(call.provider).by = call.provider
    BY <1>a, ErrorTypes DEF DeadlineError
  <2> QED
    BY <2>1, <1>2, GiveUpStep
<1>3. CASE /\ time + d < Deadline
           /\ call' = [call EXCEPT !.pc = "pause", !.attempt = n, !.until = time + d]
           /\ UNCHANGED <<primary, result, asked>>
  <2>c. /\ call'.pc = "pause" /\ call'.provider = call.provider /\ call'.attempt = n
        /\ call'.until = time + d
        /\ primary' = primary /\ result' = result /\ asked' = asked
        /\ setup' = setup /\ time' = time
    BY <1>3, <1>a DEF AtOnce
  <2>1. CallTypeOK'
    <3>1. call' \in [pc : {"begin", "request", "pause", "ended"}, provider : Providers \cup {"none"},
                     attempt : Nat, until : Nat]
      <4>1. call' = [pc |-> "pause", provider |-> call.provider, attempt |-> n, until |-> time + d]
        BY <1>3, <1>a
      <4>2. time + d \in Nat
        BY <1>a, <1>d
      <4> QED
        BY <4>1, <4>2, <1>a
    <3>2. /\ primary' = primary /\ result' = result /\ asked' = asked
          /\ setup' = setup /\ time' = time
      BY <2>c
    <3> QED
      BY <3>1, <3>2 DEF CallInv, CallTypeOK, AtOnce
  <2>2. BeginOK' /\ OutcomeOK'
    BY <2>c DEF BeginOK, OutcomeOK, CallInv, InFlight
  <2>3. TimeOK'
    BY <2>c, <1>3, <1>a, <1>d DEF TimeOK, CallInv
  <2>4. AttemptOK'
    <3>1. NotHeard(call.provider, {"answer", "broken", "refused"}, heard')
      BY DEF Learned, NotHeard, Weighs, DeadlineError
    <3> QED
      BY <3>1, <2>c, <1>a DEF AttemptOK
  <2>5. RouteOK'
    <3>1. CASE call.provider = "primary"
      <4>1. asked["fallback"] = 0 /\ NotHeard("fallback", Verdicts, heard)
        BY <3>1 DEF CallInv, RouteOK
      <4>2. NotHeard("fallback", Verdicts, heard')
        BY <4>1, <3>1 DEF NotHeard, Learned, Providers
      <4> QED
        BY <4>1, <4>2, <3>1, <2>c DEF RouteOK
    <3>2. CASE call.provider = "fallback"
      <4>1. PrimaryDone(primary, heard)
        BY <3>2 DEF CallInv, RouteOK
      <4>2. PrimaryDone(primary, heard')
        BY <4>1, <3>2 DEF PrimaryDone, NotHeard, Weighs, Learned, Providers, Verdicts
      <4> QED
        BY <4>2, <3>2, <2>c DEF RouteOK, PrimaryDone
    <3> QED
      BY <3>1, <3>2, <1>a DEF Providers
  <2>6. FatalIfRefused' /\ BlameIsFair' /\ FailStep /\ AskStep
    <3>1. result'.outcome = "none" /\ asked' = asked
      BY <2>c DEF CallInv, OutcomeOK, InFlight
    <3> QED
      BY <3>1 DEF FatalIfRefused, BlameIsFair, FailStep, AskStep
  <2> QED
    BY <2>1, <2>2, <2>3, <2>4, <2>5, <2>6 DEF GoodStep, CallInv
<1> QED
  BY <1>1, <1>2, <1>3

\* A request ended with an error of the provider it was sent to.
LEMMA ErrorStep ==
    ASSUME CallInv, AtOnce, call.pc = "request", NEW e \in CallErrors, RequestFails(e),
           e.real, e.by = call.provider, Learned(e)
    PROVE  GoodStep
<1>a. /\ InFlight /\ call.attempt \in Nat /\ MaxRetries \in Nat
      /\ call.attempt <= MaxRetries /\ asked[call.provider] = call.attempt + 1
  BY CallAssumption DEF CallInv, CallTypeOK, AttemptOK, InFlight
<1>1. CASE (~e.retryable \/ call.attempt = MaxRetries) /\ GiveUp(e)
  BY <1>1, <1>a, GiveUpStep
<1>2. CASE e.retryable /\ call.attempt < MaxRetries /\ PauseBefore(call.attempt + 1)
  <2>1. Learned(DeadlineError(call.provider))
    BY <1>2 DEF Learned, Weighs, DeadlineError
  <2> QED
    BY <2>1, <1>2, <1>a, PauseStep
<1> QED
  BY <1>1, <1>2 DEF RequestFails

LEMMA BeginStep == ASSUME CallInv, BeginCall PROVE GoodStep
<1>a. /\ call.pc = "begin" /\ heard = {} /\ time = 0 /\ primary = NoError
      /\ asked = [p \in Providers |-> 0] /\ primary \in CallErrors /\ AtOnce /\ heard' = {}
  BY DEF BeginCall, CallInv, BeginOK, CallTypeOK, AtOnce
<1>1. CASE setup.gateway /\ Ask("primary", 0) /\ UNCHANGED primary
  <2>1. /\ NotHeard("primary", {"answer", "broken", "refused"}, heard')
        /\ NotHeard("fallback", Verdicts, heard')
    BY <1>a DEF NotHeard
  <2>2. asked["primary"] = 0 /\ asked["fallback"] = 0 /\ time < Deadline /\ 0 <= MaxRetries
    BY <1>a, CallAssumption DEF Providers
  <2> QED
    BY <2>1, <2>2, <1>1, <1>a, RequestStep DEF Providers
<1>2. CASE ~setup.gateway /\ TryFallback(NoError)
  <2>1. PrimaryDone(NoError, heard') /\ NotHeard("fallback", Verdicts, heard')
    BY <1>a DEF PrimaryDone, NotHeard, Weighs, NoError, DeadlineError
  <2>2. asked["fallback"] = 0
    BY <1>a DEF Providers
  <2> QED
    BY <2>1, <2>2, <1>2, <1>a, FallbackStep
<1> QED
  BY <1>1, <1>2 DEF BeginCall

\* The provider a request waits for has not answered or refused before.
LEMMA Unanswered ==
    ASSUME CallInv, InFlight
    PROVE  /\ call.provider \in Providers
           /\ NotHeard(call.provider, {"answer", "broken", "refused"}, heard)
           /\ heard \in SUBSET (Providers \X Verdicts) /\ primary \in CallErrors
           /\ call.pc # "ended"
BY DEF CallInv, AttemptOK, CallTypeOK, InFlight

LEMMA ReplyStep == ASSUME CallInv, NEW r \in Replies, ReplyComes(r) PROVE GoodStep
<1> DEFINE p == call.provider
<1>f. InFlight
  BY DEF ReplyComes, InFlight
<1>u. /\ p \in Providers /\ NotHeard(p, {"answer", "broken", "refused"}, heard)
      /\ heard \in SUBSET (Providers \X Verdicts) /\ primary \in CallErrors /\ call.pc # "ended"
  BY <1>f, Unanswered
<1>k. Kind(r) \in Verdicts /\ Retryable(r) \in BOOLEAN
  BY DEF Kind, Verdicts, Retryable, StatusRetryable, EnvelopeRetryable, Replies
<1>h. heard' = heard \cup {<<p, Kind(r)>>}
  BY DEF ReplyComes
<1>a. AtOnce
  BY <1>u, <1>k, <1>h DEF AtOnce, ReplyComes
<1>q. asked[p] > 0
  <2>1. asked[p] = call.attempt + 1 /\ call.attempt \in Nat
    BY <1>f DEF CallInv, AttemptOK, CallTypeOK, ReplyComes
  <2> QED
    BY <2>1
<1> HIDE DEF p
<1>1. CASE r.as = "answer" /\ End("answer", call.provider) /\ UNCHANGED primary
  <2>1. result'.outcome = "answer"
    BY <1>1 DEF End
  <2>2. FatalIfRefused' /\ BlameIsFair' /\ FailStep
    BY <2>1 DEF FatalIfRefused, BlameIsFair, FailStep
  <2> QED
    BY <2>2, <1>1, <1>a, <1>u, EndStep DEF p
<1>2. CASE r.as = "broken" /\ End("unknown", "none") /\ UNCHANGED primary
  <2>1. result'.outcome = "unknown" /\ <<p, "broken">> \in heard'
    BY <1>2, <1>h DEF End, Kind
  <2>2. FatalIfRefused' /\ BlameIsFair'
    BY <2>1, <1>u DEF FatalIfRefused, BlameIsFair
  <2>3. FailStep
    BY <2>1, <1>u, <1>q DEF FailStep, Providers
  <2> QED
    BY <2>2, <2>3, <1>2, <1>a, <1>u, EndStep
<1>3. CASE r.as \notin {"answer", "broken"} /\ RequestFails(Error(call.provider, Retryable(r)))
  <2> DEFINE e == Error(call.provider, Retryable(r))
  <2>1. e \in CallErrors /\ e.real /\ e.by = call.provider /\ (e.retryable <=> Retryable(r))
    BY <1>u, <1>k, ErrorTypes DEF Error, p
  <2>2. Kind(r) \in {"busy", "refused"} /\ (Kind(r) = "refused" <=> ~Retryable(r))
    BY <1>3 DEF Kind
  <2>3. Learned(e)
    <3>1. \A q \in Providers \ {p}, k \in Verdicts : <<q, k>> \in heard' <=> <<q, k>> \in heard
      BY <1>h
    <3>2. NotHeard(p, {"answer", "broken"}, heard')
      BY <1>h, <1>u, <2>2 DEF NotHeard
    <3>3. <<p, "refused">> \in heard' <=> Kind(r) = "refused"
      BY <1>h, <1>u DEF NotHeard
    <3> QED
      BY <3>1, <3>2, <3>3, <2>1, <2>2 DEF Learned, Weighs, p
  <2> HIDE DEF e
  <2>4. RequestFails(e) /\ call.pc = "request"
    BY <1>3 DEF e, ReplyComes
  <2> QED
    BY <2>1, <2>3, <2>4, <1>a, ErrorStep
<1> QED
  BY <1>1, <1>2, <1>3 DEF ReplyComes

\* Nothing was heard in the step, and nothing that counts before it.
LEMMA SilentStep ==
    ASSUME CallInv, InFlight, heard' = heard, NEW e, ~e.real \/ e.retryable
    PROVE  Learned(e)
BY Unanswered DEF Learned, NotHeard, Weighs

LEMMA TimeoutStep == ASSUME CallInv, RequestTimesOut PROVE GoodStep
<1> DEFINE e == Error(call.provider, TRUE)
<1>1. InFlight /\ heard' = heard /\ call.pc = "request" /\ RequestFails(e)
  BY DEF RequestTimesOut, InFlight
<1>2. AtOnce
  BY <1>1, Unanswered DEF AtOnce, RequestTimesOut
<1>3. e \in CallErrors /\ e.real /\ e.by = call.provider /\ e.retryable
  BY <1>1, Unanswered, ErrorTypes DEF Error
<1> HIDE DEF e
<1>4. Learned(e)
  BY <1>1, <1>3, SilentStep
<1> QED
  BY <1>1, <1>2, <1>3, <1>4, ErrorStep

LEMMA PauseEndsStep == ASSUME CallInv, PauseEnds PROVE GoodStep
<1>1. InFlight /\ heard' = heard /\ call.pc = "pause"
  BY DEF PauseEnds, InFlight
<1>2. AtOnce
  BY <1>1, Unanswered DEF AtOnce, PauseEnds
<1>3. CASE GiveUp(DeadlineError(call.provider))
  <2>1. /\ DeadlineError(call.provider) \in CallErrors
        /\ DeadlineError(call.provider).by = call.provider
        /\ ~DeadlineError(call.provider).real
    BY <1>1, Unanswered, ErrorTypes DEF DeadlineError
  <2>2. Learned(DeadlineError(call.provider))
    BY <1>1, <2>1, SilentStep
  <2> QED
    BY <2>1, <2>2, <1>1, <1>2, <1>3, GiveUpStep
<1>4. CASE time < Deadline /\ Ask(call.provider, call.attempt) /\ UNCHANGED primary
  <2>1. /\ call.provider \in Providers /\ call.attempt \in Nat /\ call.attempt <= MaxRetries
        /\ asked[call.provider] = call.attempt /\ call.pc # "ended"
    BY <1>1 DEF CallInv, CallTypeOK, AttemptOK
  <2>2. NotHeard(call.provider, {"answer", "broken", "refused"}, heard') /\ primary' \in CallErrors
    BY <1>1, <1>4, Unanswered
  <2>3. call.provider = "primary" =>
            asked["fallback"] = 0 /\ NotHeard("fallback", Verdicts, heard')
    BY <1>1 DEF CallInv, RouteOK
  <2>4. call.provider = "fallback" => PrimaryDone(primary', heard')
    BY <1>1, <1>4 DEF CallInv, RouteOK
  <2> QED
    BY <2>1, <2>2, <2>3, <2>4, <1>2, <1>4, RequestStep
<1> QED
  BY <1>3, <1>4 DEF PauseEnds

LEMMA TickStep == ASSUME CallInv, CallTick PROVE GoodStep
<1>1. /\ InFlight /\ time < call.until + MaxLate /\ time' = time + 1
      /\ UNCHANGED <<setup, call, primary, result, asked, heard>>
  BY DEF CallTick, InFlight
<1>2. CallTypeOK'
  BY <1>1 DEF CallInv, CallTypeOK
<1>3. TimeOK'
  <2>1. call.until \in Nat /\ time \in Nat /\ MaxLate \in Nat /\ Deadline \in Nat
    BY CallAssumption DEF CallInv, CallTypeOK
  <2> QED
    BY <2>1, <1>1 DEF CallInv, TimeOK, InFlight
<1>4. BeginOK' /\ OutcomeOK' /\ AttemptOK' /\ RouteOK' /\ FatalIfRefused' /\ BlameIsFair'
  BY <1>1 DEF CallInv, BeginOK, OutcomeOK, AttemptOK, RouteOK, PrimaryDone, FatalIfRefused,
              BlameIsFair, InFlight
<1>5. AskStep /\ FailStep
  BY <1>1 DEF AskStep, FailStep
<1> QED
  BY <1>2, <1>3, <1>4, <1>5 DEF GoodStep, CallInv

LEMMA IdleStep == ASSUME CallInv, UNCHANGED callVars PROVE GoodStep
<1>1. UNCHANGED <<setup, call, primary, result, asked, heard, time>>
  BY DEF callVars
<1>2. CallInv'
  BY <1>1 DEF CallInv, CallTypeOK, BeginOK, OutcomeOK, TimeOK, AttemptOK, RouteOK, PrimaryDone,
              FatalIfRefused, BlameIsFair, InFlight
<1>3. AskStep /\ FailStep
  BY <1>1 DEF AskStep, FailStep
<1> QED
  BY <1>2, <1>3 DEF GoodStep

LEMMA EveryStep == CallInv /\ [CallNext]_callVars => GoodStep
BY BeginStep, ReplyStep, TimeoutStep, PauseEndsStep, TickStep, IdleStep DEF CallNext

(***************************************************************************)
(* A model call: what holds for every setting and every provider           *)
(***************************************************************************)
LEMMA CallHolds == CallSpec => []CallInv /\ [][GoodStep]_callVars
<1>1. CallInv /\ [CallNext]_callVars => CallInv' /\ [GoodStep]_callVars
  BY EveryStep DEF GoodStep
<1> QED
  BY <1>1, CallInvInit, PTL DEF CallSpec

\* The state of a call has the types the code gives it.
THEOREM CallTypes == CallSpec => []CallTypeOK
<1>1. CallInv => CallTypeOK
  BY DEF CallInv
<1> QED
  BY <1>1, CallHolds, PTL

\* A failed call is final exactly if a provider refused for good, whatever retries,
\* pauses and routes it took; and the provider it names was asked, did not answer, and
\* is the gateway only if the fallback did not refuse.
THEOREM FailureIsFairHolds == CallSpec => []FailureIsFair
<1>1. CallInv => FailureIsFair
  BY DEF CallInv, FailureIsFair
<1> QED
  BY <1>1, CallHolds, PTL

\* No provider is asked after the deadline, more than AI_MAX_RETRIES + 1 times, after
\* it answered or refused, or, the gateway, after the fallback; and a call that fails
\* has asked the fallback, or could not.
THEOREM RoutesFollowedHolds == CallSpec => RoutesFollowed
<1>1. GoodStep => AskStep /\ FailStep
  BY DEF GoodStep
<1> QED
  BY <1>1, CallHolds, PTL
     DEF RoutesFollowed, AskedSparingly, FallbackIsTried, AskStep, FailStep

LEMMA CallRefined ==
    ASSUME CallInv, CallInv', [CallNext]_callVars
    PROVE  [Promise!Next]_<<CallOutcome, time>>
<1>t. /\ result \in [outcome : {"none", "answer", "retryable", "fatal", "unknown"},
                     by : Providers \cup {"none"}]
      /\ result' \in [outcome : {"none", "answer", "retryable", "fatal", "unknown"},
                      by : Providers \cup {"none"}]
      /\ CallOutcome = "none" <=> result.outcome = "none"
      /\ CallOutcome' = "none" <=> result'.outcome = "none"
      /\ CallOutcome' \in {"none", "answer", "retryable", "fatal"}
  BY DEF CallInv, CallTypeOK, CallOutcome
<1>1. CASE CallTick
  <2>1. /\ time' = time + 1 /\ result' = result /\ InFlight /\ time < call.until + MaxLate
    BY <1>1 DEF CallTick, InFlight
  <2>2. time < Deadline + MaxLate
    <3>1. call.until \in Nat /\ time \in Nat /\ MaxLate \in Nat /\ Deadline \in Nat
          /\ call.until <= Deadline
      BY <2>1, CallAssumption DEF CallInv, CallTypeOK, TimeOK
    <3> QED
      BY <3>1, <2>1
  <2> QED
    BY <2>1, <2>2 DEF Promise!Next, Promise!Tick, CallOutcome
<1>2. CASE BeginCall \/ RequestTimesOut \/ PauseEnds \/ \E r \in Replies : ReplyComes(r)
  <2>1. time' = time /\ call.pc # "ended"
    BY <1>2 DEF BeginCall, RequestTimesOut, PauseEnds, ReplyComes
  <2>2. CallOutcome = "none"
    BY <2>1, <1>t DEF CallInv, OutcomeOK
  <2> QED
    BY <2>1, <2>2, <1>t DEF Promise!Next, Promise!End
<1>3. CASE UNCHANGED callVars
  BY <1>3 DEF callVars, CallOutcome
<1> QED
  BY <1>1, <1>2, <1>3 DEF CallNext

\* A call keeps the promise an execution of DailyRun relies on: it has one outcome,
\* which stays, at most MaxLate after the total deadline.
THEOREM CallKeepsPromise == CallSpec => CallKept
<1>1. CallInit => Promise!Init
  BY DEF CallInit, Promise!Init, CallOutcome
<1>2. CallInv /\ CallInv' /\ [CallNext]_callVars => [Promise!Next]_<<CallOutcome, time>>
  BY CallRefined
<1> QED
  BY <1>1, <1>2, CallHolds, PTL DEF CallSpec, CallKept, Promise!Spec

==============================================================================
