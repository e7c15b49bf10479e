------------------------------- MODULE DailyRun -------------------------------
(***************************************************************************)
(* The per-model daily execution of one prompt on one Tehran date: the     *)
(* daily_model_runs rows, the AI runs they produce, and the executors that *)
(* work on them.  An executor is a worker process running a queue job      *)
(* (run_daily) or an API background task started by a user (run_manual).   *)
(* Every await of the code that another executor can interleave with is a  *)
(* boundary between two actions: the SELECT and the INSERT of ensure_rows, *)
(* the SELECT and the UPDATE of reset_for_manual, get_runnable, the        *)
(* conditional UPDATE of acquire_lock, the AI call, mark_success or        *)
(* mark_failure, the brand extraction, and release_lock.                   *)
(***************************************************************************)
EXTENDS Integers, Sequences, FiniteSets

CONSTANTS
    Models,        \* keys of the prompt's active AI models
    Workers,       \* executors that run queue jobs
    Manuals,       \* executors that run user requests
    NoModel,       \* "no model in progress"
    MaxAttempts,   \* DAILY_MAX_ATTEMPTS
    Lease,         \* lease_seconds of acquire_lock
    CallDeadline,  \* total deadline of one AI call, primary and fallback
    RetryInterval, \* DAILY_RETRY_INTERVAL_MINUTES
    MaxTime,       \* bound: the clock stops here
    MaxStarts      \* bound: number of executions the environment starts

Executors == Workers \cup Manuals

ASSUME SetsAssumption ==
    /\ IsFiniteSet(Models) /\ IsFiniteSet(Workers) /\ IsFiniteSet(Manuals)
    /\ NoModel \notin Models
ASSUME NumbersAssumption ==
    /\ MaxAttempts \in Nat \ {0}
    /\ Lease \in Nat /\ CallDeadline \in Nat /\ RetryInterval \in Nat
    /\ MaxTime \in Nat /\ MaxStarts \in Nat
\* The default deadline is half the lease.  A larger setting is taken as it is
\* (nothing calls resolve_ai_total_deadline), so this is what the deployed
\* configuration promises.
ASSUME DeadlineAssumption == CallDeadline <= Lease

VARIABLES
    rows,    \* the daily_model_runs row of each model
    runs,    \* the ai_runs of each model, oldest first, by their status
    ex,      \* what each executor is doing
    now,     \* the clock
    starts   \* executions started so far

vars == <<rows, runs, ex, now, starts>>

(***************************************************************************)
(* Values                                                                  *)
(***************************************************************************)
NoTime == -1   \* NULL in next_attempt_at and locked_at
NoRun == 0     \* NULL in success_run_id

Time == Nat \cup {NoTime}
Status == {"absent", "pending", "retrying", "success", "exhausted"}
Row == [status: Status, attempts: Nat, nextAt: Time, successRun: Nat, lockedAt: Time]
RunStatus == {"success", "failed"}

AbsentRow == [status |-> "absent", attempts |-> 0, nextAt |-> NoTime,
              successRun |-> NoRun, lockedAt |-> NoTime]
NewRow == [AbsentRow EXCEPT !.status = "pending"]

Mode == {"auto", "failed", "all"}
\* What a finished AI call tells the caller: an answer, an error worth retrying
\* (error_retryable is True or unknown), or one that needs a manual fix.
Outcome == {"answer", "retryable", "fatal"}
PC == {"idle", "insert", "load", "reset", "list", "next", "calling", "record",
       "extract", "release"}

\* snap holds the attributes of the ORM objects the executor's session keeps:
\* the session is created with expire_on_commit=False and a later SELECT does not
\* overwrite a loaded object, so get_row in mark_success and mark_failure sees
\* the row as it was when it was last loaded, unless a rollback expired it.
Executor == [pc: PC, mode: Mode, targets: SUBSET Models, snap: [Models -> Row],
             expired: BOOLEAN, todo: SUBSET Models, cur: Models \cup {NoModel},
             since: Nat, outcome: Outcome, run: Nat]

NoSnap == [m \in Models |-> AbsentRow]
IdleExecutor == [pc |-> "idle", mode |-> "auto", targets |-> {}, snap |-> NoSnap,
                 expired |-> FALSE, todo |-> {}, cur |-> NoModel, since |-> 0,
                 outcome |-> "answer", run |-> NoRun]

Init ==
    /\ rows = [m \in Models |-> AbsentRow]
    /\ runs = [m \in Models |-> <<>>]
    /\ ex = [e \in Executors |-> IdleExecutor]
    /\ now = 0
    /\ starts = 0

(***************************************************************************)
(* Starting an execution.  ensure_rows first selects the existing rows.    *)
(***************************************************************************)
Start(e, md, T) ==
    /\ ex[e].pc = "idle"
    /\ starts < MaxStarts
    /\ starts' = starts + 1
    /\ ex' = [ex EXCEPT ![e] = [IdleExecutor EXCEPT
                 !.pc = "insert", !.mode = md, !.targets = T, !.snap = rows]]
    /\ UNCHANGED <<rows, runs, now>>

\* The models a request or a job names; one that names none touches no row.
Targets == (SUBSET Models) \ {{}}
StartDaily(w) == \E T \in Targets : Start(w, "auto", T)
StartManual(u) == \E md \in {"failed", "all"}, T \in Targets : Start(u, md, T)

\* The rows ensure_rows found missing and adds in one transaction.
Missing(e) == {m \in Models : ex[e].snap[m].status = "absent"}

\* The INSERT commits: nobody else inserted one of the rows since the SELECT.
InsertRows(e) ==
    /\ ex[e].pc = "insert"
    /\ \A m \in Missing(e) : rows[m].status = "absent"
    /\ rows' = [m \in Models |-> IF m \in Missing(e) THEN NewRow ELSE rows[m]]
    /\ ex' = [ex EXCEPT ![e].pc = IF ex[e].mode = "auto" THEN "list" ELSE "load"]
    /\ UNCHANGED <<runs, now, starts>>

\* uq_daily_model_run refuses the INSERT: the error ends the whole execution.
InsertConflict(e) ==
    /\ ex[e].pc = "insert"
    /\ \E m \in Missing(e) : rows[m].status # "absent"
    /\ ex' = [ex EXCEPT ![e] = IdleExecutor]
    /\ UNCHANGED <<rows, runs, now, starts>>

(***************************************************************************)
(* reset_for_manual: a SELECT, then an UPDATE at commit of the columns     *)
(* whose value differs from the loaded one.                                *)
(***************************************************************************)
LoadForReset(e) ==
    /\ ex[e].pc = "load"
    /\ ex' = [ex EXCEPT ![e] = [@ EXCEPT !.pc = "reset", !.snap = rows]]
    /\ UNCHANGED <<rows, runs, now, starts>>

\* The value the flush leaves in a column that was loaded as old and assigned new.
Flushed(old, new, current) == IF old = new THEN current ELSE new

\* Mutant of ResetRow: the counter is not given back.
ResetRowKeepingAttempts(md, old, row) ==
    [status |-> Flushed(old.status, "pending", row.status),
     attempts |-> row.attempts, nextAt |-> NoTime,
     successRun |-> row.successRun, lockedAt |-> NoTime]

ResetRow(md, old, row) ==
    [status |-> Flushed(old.status, "pending", row.status),
     attempts |-> Flushed(old.attempts, 0, row.attempts),
     nextAt |-> Flushed(old.nextAt, NoTime, row.nextAt),
     successRun |-> IF md = "all" THEN Flushed(old.successRun, NoRun, row.successRun)
                                  ELSE row.successRun,
     lockedAt |-> Flushed(old.lockedAt, NoTime, row.lockedAt)]

IsReset(md, old) ==
    /\ old.status # "absent"
    /\ md = "all" \/ old.status \in {"retrying", "exhausted"}

Reset(e) ==
    /\ ex[e].pc = "reset"
    /\ rows' = [m \in Models |->
                   IF m \in ex[e].targets /\ IsReset(ex[e].mode, ex[e].snap[m])
                     THEN ResetRow(ex[e].mode, ex[e].snap[m], rows[m])
                     ELSE rows[m]]
    /\ ex' = [ex EXCEPT ![e].pc = "list"]
    /\ UNCHANGED <<runs, now, starts>>

(***************************************************************************)
(* get_runnable, and the loop over the models it returned (no ORDER BY, so *)
(* in any order).                                                          *)
(***************************************************************************)
\* A retrying row without next_attempt_at is due: NoTime is below every time.
Runnable(row) ==
    \/ row.status = "pending"
    \/ row.status = "retrying" /\ row.nextAt <= now

ListRunnable(e) ==
    /\ ex[e].pc = "list"
    /\ ex' = [ex EXCEPT ![e] = [@ EXCEPT
                 !.pc = "next", !.snap = rows,
                 !.todo = {m \in ex[e].targets : Runnable(rows[m])}]]
    /\ UNCHANGED <<rows, runs, now, starts>>

\* Mutant of LockFree: the lease is counted one instant short.
LockFreeEarly(row) == row.lockedAt = NoTime \/ row.lockedAt <= now - Lease

LockFree(row) == row.lockedAt = NoTime \/ row.lockedAt < now - Lease
Acquirable(row) == row.status \in {"pending", "retrying"} /\ LockFree(row)

\* acquire_lock matched the row: one conditional UPDATE, then the AI call starts.
Acquire(e, m) ==
    /\ ex[e].pc = "next"
    /\ m \in ex[e].todo
    /\ Acquirable(rows[m])
    /\ rows' = [rows EXCEPT ![m].lockedAt = now]
    /\ ex' = [ex EXCEPT ![e] = [@ EXCEPT
                 !.pc = "calling", !.cur = m, !.since = now, !.todo = ex[e].todo \ {m}]]
    /\ UNCHANGED <<runs, now, starts>>

\* Mutant of Skip: a locked row is waited for, only a settled one is passed over.
SkipSettled(e, m) ==
    /\ ex[e].pc = "next"
    /\ m \in ex[e].todo
    /\ rows[m].status \notin {"pending", "retrying"}
    /\ ex' = [ex EXCEPT ![e].todo = @ \ {m}]
    /\ UNCHANGED <<rows, runs, now, starts>>

\* acquire_lock matched nothing: the model is skipped, not waited for.
Skip(e, m) ==
    /\ ex[e].pc = "next"
    /\ m \in ex[e].todo
    /\ ~Acquirable(rows[m])
    /\ ex' = [ex EXCEPT ![e].todo = @ \ {m}]
    /\ UNCHANGED <<rows, runs, now, starts>>

Finish(e) ==
    /\ ex[e].pc = "next"
    /\ ex[e].todo = {}
    /\ ex' = [ex EXCEPT ![e] = IdleExecutor]
    /\ UNCHANGED <<rows, runs, now, starts>>

(***************************************************************************)
(* One model: the call, its AI run, the bookkeeping of the row, extraction *)
(***************************************************************************)
RunOf(o) == IF o = "answer" THEN "success" ELSE "failed"

\* Mutant of Answer: only an answer is stored as an AI run.
AnswerUnrecorded(e, o) ==
    LET m == ex[e].cur IN
    /\ ex[e].pc = "calling"
    /\ runs' = IF o = "answer" THEN [runs EXCEPT ![m] = Append(@, "success")] ELSE runs
    /\ ex' = [ex EXCEPT ![e] = [@ EXCEPT
                 !.pc = "record", !.outcome = o, !.run = Len(runs[m]) + 1]]
    /\ UNCHANGED <<rows, now, starts>>

\* The call ends within its deadline and run_repo.create commits the AI run.
Answer(e, o) ==
    LET m == ex[e].cur IN
    /\ ex[e].pc = "calling"
    /\ runs' = [runs EXCEPT ![m] = Append(@, RunOf(o))]
    /\ ex' = [ex EXCEPT ![e] = [@ EXCEPT
                 !.pc = "record", !.outcome = o, !.run = Len(runs[m]) + 1]]
    /\ UNCHANGED <<rows, now, starts>>

\* The attempts that get_row returns to mark_success and mark_failure.
SeenAttempts(e) == IF ex[e].expired THEN rows[ex[e].cur].attempts
                                    ELSE ex[e].snap[ex[e].cur].attempts

\* Mutant of SuccessRow: the model's latest AI run is taken for this execution's.
SuccessRowLatest(e) ==
    [status |-> "success", attempts |-> SeenAttempts(e) + 1, nextAt |-> NoTime,
     successRun |-> Len(runs[ex[e].cur]), lockedAt |-> NoTime]

SuccessRow(e) ==
    [status |-> "success", attempts |-> SeenAttempts(e) + 1, nextAt |-> NoTime,
     successRun |-> ex[e].run, lockedAt |-> NoTime]

\* Mutant of Retries: one attempt too many.
RetriesOnceMore(o, n) == o # "fatal" /\ n <= MaxAttempts

Retries(o, n) == o # "fatal" /\ n < MaxAttempts

FailureRow(e) ==
    LET n == SeenAttempts(e) + 1
        again == Retries(ex[e].outcome, n)
    IN  [status |-> IF again THEN "retrying" ELSE "exhausted", attempts |-> n,
         nextAt |-> IF again THEN now + RetryInterval ELSE NoTime,
         successRun |-> rows[ex[e].cur].successRun, lockedAt |-> NoTime]

MarkSuccess(e) ==
    /\ ex[e].pc = "record"
    /\ ex[e].outcome = "answer"
    /\ rows' = [rows EXCEPT ![ex[e].cur] = SuccessRow(e)]
    /\ ex' = [ex EXCEPT ![e] = [@ EXCEPT !.pc = "extract", !.since = now]]
    /\ UNCHANGED <<runs, now, starts>>

MarkFailure(e) ==
    /\ ex[e].pc = "record"
    /\ ex[e].outcome # "answer"
    /\ rows' = [rows EXCEPT ![ex[e].cur] = FailureRow(e)]
    /\ ex' = [ex EXCEPT ![e].pc = "release"]
    /\ UNCHANGED <<runs, now, starts>>

\* _extract_brands never raises; when recording its result or sending its alerts
\* fails, _safe_rollback expires every object of the session.
Extracted(e) ==
    /\ ex[e].pc = "extract"
    /\ \E rolledBack \in BOOLEAN :
          ex' = [ex EXCEPT ![e] = [@ EXCEPT
                    !.pc = "release", !.expired = ex[e].expired \/ rolledBack]]
    /\ UNCHANGED <<rows, runs, now, starts>>

\* The finally clause: the lock column is cleared whoever holds it.
Release(e) ==
    /\ ex[e].pc = "release"
    /\ rows' = [rows EXCEPT ![ex[e].cur].lockedAt = NoTime]
    /\ ex' = [ex EXCEPT ![e] = [@ EXCEPT
                 !.pc = "next", !.cur = NoModel, !.since = 0,
                 !.outcome = "answer", !.run = NoRun]]
    /\ UNCHANGED <<runs, now, starts>>

(***************************************************************************)
(* The environment                                                         *)
(***************************************************************************)
\* The process dies, or the database fails under it: the error handlers use the
\* same broken session, so the lock column keeps its value.
Crash(e) ==
    /\ ex[e].pc # "idle"
    /\ ex' = [ex EXCEPT ![e] = IdleExecutor]
    /\ UNCHANGED <<rows, runs, now, starts>>

\* An AI call or an extraction call is cut off at its deadline.
Tick ==
    /\ now < MaxTime
    /\ \A e \in Executors : ex[e].pc \in {"calling", "extract"}
                               => now - ex[e].since < CallDeadline
    /\ now' = now + 1
    /\ UNCHANGED <<rows, runs, ex, starts>>

Step(e) ==
    \/ InsertRows(e) \/ InsertConflict(e)
    \/ LoadForReset(e) \/ Reset(e)
    \/ ListRunnable(e)
    \/ \E m \in Models : Acquire(e, m)
    \/ \E m \in Models : Skip(e, m)
    \/ Finish(e)
    \/ \E o \in Outcome : Answer(e, o)
    \/ MarkSuccess(e) \/ MarkFailure(e)
    \/ Extracted(e)
    \/ Release(e)

Next ==
    \/ \E w \in Workers : StartDaily(w)
    \/ \E u \in Manuals : StartManual(u)
    \/ \E e \in Executors : Step(e)
    \/ \E e \in Executors : Crash(e)
    \/ Tick

Spec == Init /\ [][Next]_vars

(***************************************************************************)
(* Properties                                                              *)
(***************************************************************************)
\* The variables keep their types.
TypeOK ==
    /\ rows \in [Models -> Row]
    /\ runs \in [Models -> Seq(RunStatus)]
    /\ ex \in [Executors -> Executor]
    /\ now \in Nat
    /\ starts \in Nat

BudgetOf(row) ==
    /\ row.status \in {"absent", "pending"} => row.attempts = 0
    /\ row.status = "retrying" => row.attempts > 0 /\ row.attempts < MaxAttempts
    /\ row.status \in {"success", "exhausted"} => row.attempts > 0

\* However executions, resets and stale loaded objects interleave, a row offers
\* another automatic attempt only while its counter is below max_attempts, and a
\* row waiting for its first attempt starts from a full budget (the status and
\* attempts columns that mark_failure, mark_success and the column-wise flush of
\* reset_for_manual write, daily_model_run_repository.py).
RetryBudget == \A m \in Models : BudgetOf(rows[m])

\* Executors whose AI run is committed and whose row is not yet updated.
Recording(m) == {e \in Executors : ex[e].pc = "record" /\ ex[e].cur = m}

\* Every attempt a row counts has an AI run of its own: the counter may lose
\* attempts, it never invents one (_execute_models creates the run before it
\* marks the row, on every path, and a crash may fall between the two).
AttemptsBacked ==
    \A m \in Models : rows[m].attempts + Cardinality(Recording(m)) <= Len(runs[m])

\* success_run_id, whoever wrote, kept or overwrote it, points at an AI run of that
\* model which did answer: a failed run is never presented as the day's answer
\* (mark_success, and mark_failure which leaves the column as it is).
SuccessRunAnswered ==
    \A m \in Models : rows[m].successRun # NoRun =>
        /\ rows[m].successRun <= Len(runs[m])
        /\ runs[m][rows[m].successRun] = "success"

\* While an executor is in its AI call and the row still carries the lock that
\* executor took, nobody else takes the row over: the lease of acquire_lock
\* outlives the call's deadline.
LeaseOutlivesCall ==
    [][\A e, f \in Executors, m \in Models :
          /\ e # f
          /\ ex[e].pc = "calling" /\ ex[e].cur = m
          /\ rows[m].lockedAt = ex[e].since
          => ~(ex[f].pc = "next" /\ ex'[f].pc = "calling" /\ ex'[f].cur = m)]_vars

\* acquire_lock is documented to "acquire a lock on (prompt_id, model, run_date)":
\* two executors are never in the AI call of one row together.
NoConcurrentCalls ==
    \A e, f \in Executors : e # f =>
        ~(ex[e].pc = "calling" /\ ex[f].pc = "calling" /\ ex[e].cur = ex[f].cur)

\* Executions of the prompt do not overlap.
OneAtATime ==
    \A e, f \in Executors : ex[e].pc # "idle" /\ ex[f].pc # "idle" => e = f

\* The rows, read as the promise of DailyQuota.
QuotaState ==
    [m \in Models |-> CASE rows[m].status = "success" -> "answered"
                        [] rows[m].status = "exhausted" -> "closed"
                        [] OTHER -> "open"]
QuotaUsed == [m \in Models |-> rows[m].attempts]

Quota == INSTANCE DailyQuota WITH state <- QuotaState, used <- QuotaUsed

\* While executions do not overlap, crashes included, the rows keep the promise of
\* DailyQuota: every counted attempt is one more, and answers are final.
QuotaKept == Quota!Spec

===============================================================================
