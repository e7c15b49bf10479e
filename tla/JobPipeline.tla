----------------------------- MODULE JobPipeline -----------------------------
(***************************************************************************)
(* The scheduler processes, the job queue and the worker processes around  *)
(* the daily execution of one prompt on one date (queue jobs only: user    *)
(* executions interleave with them in DailyRun).  A scheduler cycle        *)
(* enqueues the prompt's daily job during the nine o'clock hour and its    *)
(* due retries at any time; a worker reads one job, or reclaims one that   *)
(* was idle for a lease, executes it (DailyRun) and acknowledges it.       *)
(***************************************************************************)
EXTENDS DailyRun

CONSTANTS
    Schedulers,  \* scheduler processes
    NoScheduler, \* the scheduler lock is free
    LockTTL,     \* expiry of the scheduler lock
    DailyFrom,   \* local time 09:00
    DailyUntil,  \* local time 10:00
    MaxUpsets    \* bound: failures, deaths of processes and pauses of the prompt

ASSUME PipelineAssumption ==
    /\ NoScheduler \notin Schedulers
    /\ LockTTL \in Nat \ {0}
    /\ DailyFrom \in Nat /\ DailyUntil \in Nat
    /\ MaxUpsets \in Nat

VARIABLES
    entries, keys, lock,  \* the queue, see RunQueue
    wk,      \* what each worker does with which stream entry
    sched,   \* the cycle of each scheduler
    active,  \* Prompt.is_active
    upsets   \* failures, deaths and pauses so far

qvars == <<entries, keys, lock>>
pvars == <<vars, entries, keys, lock, wk, sched, active, upsets>>

\* enqueue_once builds the key from the prompt, ai_model_id and the date; both job
\* sources pass ai_model_id 0, so one prompt has one key a day.
DayKey == "prompt-day"

Q == INSTANCE RunQueue WITH Keys <- {DayKey}, Tokens <- Schedulers,
                            NoToken <- NoScheduler, IdleTime <- Lease

Stage == {"idle", "check", "ready", "run", "done", "drop", "failed"}
WorkerState == [stage: Stage, entry: Nat]
IdleWorker == [stage |-> "idle", entry |-> 0]

CyclePC == {"sleep", "daily", "addDaily", "retry", "addRetry", "tail"}
Cycle == [pc: CyclePC, since: Nat, picked: SUBSET Models]
Asleep == [pc |-> "sleep", since |-> 0, picked |-> {}]

PInit ==
    /\ Init
    /\ entries = <<>>
    /\ keys = {}
    /\ lock = [holder |-> NoScheduler, until |-> 0]
    /\ wk = [w \in Workers |-> IdleWorker]
    /\ sched = [s \in Schedulers |-> Asleep]
    /\ active = TRUE
    /\ upsets = 0

(***************************************************************************)
(* The worker's loop                                                       *)
(***************************************************************************)
\* read tries XAUTOCLAIM, then XREADGROUP.
Take(w) ==
    /\ wk[w].stage = "idle"
    /\ \E i \in DOMAIN entries :
          /\ Q!Reclaim(i) \/ Q!Read(i)
          /\ wk' = [wk EXCEPT ![w] = [stage |-> "check", entry |-> i]]
    /\ UNCHANGED <<vars, sched, active, upsets>>

\* process_job loads the prompt; one that is not active is only acknowledged.
CheckPrompt(w) ==
    /\ wk[w].stage = "check"
    /\ wk' = [wk EXCEPT ![w].stage = IF active THEN "ready" ELSE "drop"]
    /\ UNCHANGED <<vars, qvars, sched, active, upsets>>

\* After the delay between requests, run_daily starts on the models of the job.
Begin(w) ==
    /\ wk[w].stage = "ready"
    /\ Start(w, "auto", entries[wk[w].entry].models)
    /\ wk' = [wk EXCEPT ![w].stage = "run"]
    /\ UNCHANGED <<qvars, sched, active, upsets>>

\* One step of run_daily; a conflicting INSERT raises out of it.
Run(w) ==
    /\ wk[w].stage = "run"
    /\ Step(w)
    /\ wk' = [wk EXCEPT ![w].stage = IF ex'[w].pc # "idle" THEN "run"
                                     ELSE IF ex[w].pc = "insert" THEN "failed" ELSE "done"]
    /\ UNCHANGED <<qvars, sched, active, upsets>>

\* Any other exception of process_job.
Fail(w) ==
    /\ upsets < MaxUpsets
    /\ \/ wk[w].stage = "check" /\ UNCHANGED vars
       \/ wk[w].stage = "run" /\ Crash(w)
    /\ wk' = [wk EXCEPT ![w].stage = "failed"]
    /\ upsets' = upsets + 1
    /\ UNCHANGED <<qvars, sched, active>>

\* The job is acknowledged however it ended: by process_job, or by the except clause.
Acknowledge(w) ==
    /\ wk[w].stage \in {"done", "drop", "failed"}
    /\ Q!Ack(wk[w].entry)
    /\ wk' = [wk EXCEPT ![w] = IdleWorker]
    /\ UNCHANGED <<vars, sched, active, upsets>>

\* The process dies and is started again, under a new consumer name; the last
\* death leaves the clock room for the idle time of the entry.
Die(w) ==
    /\ wk[w].stage # "idle"
    /\ upsets < MaxUpsets
    /\ entries[wk[w].entry].since + Lease <= MaxTime
    /\ IF ex[w].pc = "idle" THEN UNCHANGED vars ELSE Crash(w)
    /\ wk' = [wk EXCEPT ![w] = IdleWorker]
    /\ upsets' = upsets + 1
    /\ UNCHANGED <<qvars, sched, active>>

WorkerStep(w) == Take(w) \/ CheckPrompt(w) \/ Begin(w) \/ Run(w) \/ Acknowledge(w)

(***************************************************************************)
(* The scheduler's cycle, schedule_once                                    *)
(***************************************************************************)
GoOn(s, pc, picked) ==
    sched' = [sched EXCEPT ![s] = [@ EXCEPT !.pc = pc, !.picked = picked]]

StartCycle(s) ==
    /\ sched[s].pc = "sleep"
    /\ Q!AcquireLock(s)
    /\ sched' = [sched EXCEPT ![s] = [
                    pc |-> IF now >= DailyFrom /\ now < DailyUntil THEN "daily" ELSE "retry",
                    since |-> now, picked |-> {}]]
    /\ UNCHANGED <<vars, wk, active, upsets>>

\* _enqueue_daily_jobs: the active prompts and their models.
SelectDaily(s) ==
    /\ sched[s].pc = "daily"
    /\ GoOn(s, "addDaily", IF active THEN Models ELSE {})
    /\ UNCHANGED <<vars, qvars, wk, active, upsets>>

\* _enqueue_retry_jobs: the rows whose retry is due.
Due(row) == row.status = "retrying" /\ row.nextAt # NoTime /\ row.nextAt <= now
SelectRetries(s) ==
    /\ sched[s].pc = "retry"
    /\ GoOn(s, "addRetry", {m \in Models : Due(rows[m])})
    /\ UNCHANGED <<vars, qvars, wk, active, upsets>>

\* The enqueue_once of either selection; one without models enqueues nothing.
Add(s) ==
    /\ sched[s].pc \in {"addDaily", "addRetry"}
    /\ IF sched[s].picked = {} THEN UNCHANGED qvars
                               ELSE Q!EnqueueOnce(DayKey, sched[s].picked)
    /\ GoOn(s, IF sched[s].pc = "addDaily" THEN "retry" ELSE "tail", {})
    /\ UNCHANGED <<vars, wk, active, upsets>>

\* The extraction retries end the cycle; the finally clause releases the lock.
EndCycle(s) ==
    /\ sched[s].pc = "tail"
    /\ Q!ReleaseLock(s)
    /\ sched' = [sched EXCEPT ![s] = Asleep]
    /\ UNCHANGED <<vars, wk, active, upsets>>

\* An exception in either enqueue step (the purge of archived prompts included)
\* skips the rest of the cycle.
CycleFails(s) ==
    /\ sched[s].pc \notin {"sleep", "tail"}
    /\ upsets < MaxUpsets
    /\ GoOn(s, "tail", {})
    /\ upsets' = upsets + 1
    /\ UNCHANGED <<vars, qvars, wk, active>>

SchedulerStep(s) ==
    StartCycle(s) \/ SelectDaily(s) \/ SelectRetries(s) \/ Add(s) \/ EndCycle(s)

(***************************************************************************)
(* The environment                                                         *)
(***************************************************************************)
Pause ==
    /\ active
    /\ upsets < MaxUpsets
    /\ active' = FALSE
    /\ upsets' = upsets + 1
    /\ UNCHANGED <<vars, qvars, wk, sched>>

Resume ==
    /\ ~active
    /\ active' = TRUE
    /\ UNCHANGED <<vars, qvars, wk, sched, upsets>>

PTick == Tick /\ UNCHANGED <<qvars, wk, sched, active, upsets>>

PNext ==
    \/ \E w \in Workers : WorkerStep(w) \/ Die(w) \/ Fail(w)
    \/ \E s \in Schedulers : SchedulerStep(s) \/ CycleFails(s)
    \/ Pause \/ Resume
    \/ PTick

PSpec == PInit /\ [][PNext]_pvars

\* Workers and schedulers loop for ever, and time passes; nothing has to fail, die,
\* pause or resume.
PFairSpec ==
    /\ PSpec
    /\ \A w \in Workers : WF_pvars(WorkerStep(w))
    /\ \A s \in Schedulers : WF_pvars(SchedulerStep(s))
    /\ WF_pvars(PTick)

(***************************************************************************)
(* Properties                                                              *)
(***************************************************************************)
\* The variables of the pipeline keep their types, those of the queue included.
PTypeOK ==
    /\ Q!TypeOK
    /\ wk \in [Workers -> WorkerState]
    /\ \A w \in Workers : wk[w].entry \in DOMAIN entries \cup {0}
    /\ sched \in [Schedulers -> Cycle]
    /\ active \in BOOLEAN
    /\ upsets \in Nat

\* However two scheduler cycles overlap, the prompt gets one stream entry a day.
OneJobADay == Q!OncePerKey

\* Two schedulers are in a cycle together only when one of them has outlived the
\* lock it took: a cycle that lasts too long never frees the lock of another.
CyclesApart ==
    \A s, t \in Schedulers :
        s # t /\ sched[s].pc # "sleep" /\ sched[t].pc # "sleep" =>
            sched[s].since + LockTTL <= now \/ sched[t].since + LockTTL <= now

\* Models the job of worker w leaves waiting although nobody is working on them.
LeftBehind(w) ==
    {m \in entries[wk[w].entry].models :
        /\ rows[m].status = "pending"
        /\ \A e \in Executors : ex[e].cur # m}

\* Whoever acknowledges a job as done leaves no model of it behind: each one was
\* attempted or is in another worker's hands.  It holds as long as nobody fails or
\* dies, a job taken over from a slow worker included.  The documentation promises
\* it for deaths too: XAUTOCLAIM makes "a job which the previous worker abandoned
\* mid-work processable again".
DoneInFull ==
    \A w \in Workers : wk[w].stage = "done" => LeftBehind(w) = {}

\* A job that is in the stream is acknowledged in the end, whichever workers die.
JobsSettle ==
    (\E i \in DOMAIN entries : entries[i].state # "acked")
        ~> (\A i \in DOMAIN entries : entries[i].state = "acked")

\* "Every DAILY_RETRY_POLL_MINUTES: enqueue prompts with retrying models due now":
\* a due retry of an active prompt is attempted.
RetriesRun ==
    \A m \in Models : active /\ Due(rows[m]) ~> ~active \/ ~Due(rows[m])

==============================================================================
