--------------------------- MODULE PromptLifecycle ---------------------------
(***************************************************************************)
(* The prompts of one project: requests of users and administrators that   *)
(* create, archive and restore them, each reading what it decides on       *)
(* before it writes; executions that leave rows behind; and the daily      *)
(* cycle of the scheduler, which deletes the prompts archived for long,    *)
(* table by table, before it enqueues the active ones.                     *)
(***************************************************************************)
EXTENDS Integers, FiniteSets

CONSTANTS
    Prompts,    \* ids a prompt can get, never given twice
    Texts,      \* what a prompt may ask
    TextOf,     \* the text of the prompt that gets an id
    Requests,   \* requests in flight at the same time
    MaxActive,  \* MAX_ACTIVE_PROMPTS
    MinActive,  \* MIN_ACTIVE_PROMPTS
    Retention,  \* days an archived prompt is kept
    LegacyRows, \* the rows a prompt of an older version of the program may have
    MaxOps      \* bound: requests, edits and executions

ASSUME PromptAssumption ==
    /\ IsFiniteSet(Prompts)
    /\ IsFiniteSet(Requests) /\ Requests # {}
    /\ TextOf \in [Prompts -> Texts]
    /\ MaxActive \in Nat \ {0} /\ MinActive \in Nat
    /\ Retention \in Nat /\ MaxOps \in Nat

VARIABLES
    status,  \* of each id: not given yet, is_active or not, deleted
    idle,    \* days since updated_at of an archived prompt, up to Retention
    has,     \* the tables with rows of the prompt
    forced,  \* prompts that are active because an administrator said so
    req,     \* what each request read and wants to write
    running, \* prompts with an execution under way
    cyc,     \* the scheduler's cycle
    queued,  \* prompts with a job today
    ops      \* requests, edits and executions so far

vars == <<status, idle, has, forced, req, running, cyc, queued, ops>>

Status == {"none", "active", "archived", "deleted"}

(***************************************************************************)
(* The DELETEs of purge_archived_before in their order, and the tables     *)
(* with foreign keys.  success_run_id stands for a row of daily_model_runs *)
(* that refers to an AI run.                                               *)
(***************************************************************************)
Statements == << "run_brands", "ai_runs", "prompt_models", "daily_prompt_runs",
                 "prompt_revisions", "prompts" >>

Tables == {"run_brands", "ai_runs", "prompt_models", "daily_prompt_runs",
           "prompt_revisions", "daily_model_runs", "success_run_id"}

\* Brands refer to an AI run; success_run_id to an AI run, in a daily_model_runs.
ASSUME LegacyAssumption ==
    \A rows \in LegacyRows :
        /\ rows \subseteq Tables
        /\ "run_brands" \in rows => "ai_runs" \in rows
        /\ "success_run_id" \in rows => {"ai_runs", "daily_model_runs"} \subseteq rows

Referencing(table) ==
    CASE table = "prompts" -> Tables \ {"run_brands", "success_run_id"}
      [] table = "ai_runs" -> {"run_brands", "success_run_id"}
      [] OTHER -> {}

\* at: the next DELETE, the enqueueing after the last, or 0 outside the cycle;
\* gone: rows deleted by the transaction of the purge, not committed yet.
EnqueueStep == 7
Cycle == [at : 0..EnqueueStep, gone : SUBSET (Prompts \X Tables)]
NoCycle == [at |-> 0, gone |-> {}]

Kinds == {"create", "archive", "restore", "switchOn", "switchOff"}
NoRequest == [stage |-> "idle"]
Request == [stage : {"loaded", "passed"}, kind : Kinds, prompt : Prompts, seen : BOOLEAN]

Active == {p \in Prompts : status[p] = "active"}
Archived == {p \in Prompts : status[p] = "archived"}

\* Prompts of older versions of the program may have AI runs without rows in
\* daily_model_runs.
Init ==
    /\ status \in [Prompts -> {"none", "active", "archived"}]
    /\ Cardinality(Active) <= MaxActive
    /\ idle = [p \in Prompts |-> 0]
    /\ has \in [Prompts -> LegacyRows \cup {{}}]
    /\ \A p \in Prompts : IF status[p] = "none" THEN has[p] = {} ELSE has[p] \in LegacyRows
    /\ forced = {}
    /\ req = [r \in Requests |-> NoRequest]
    /\ running = {}
    /\ cyc = NoCycle
    /\ queued = {}
    /\ ops = 0

Operation == ops < MaxOps /\ ops' = ops + 1

(***************************************************************************)
(* Requests                                                                *)
(***************************************************************************)
\* create_prompt looks for an active prompt with the same text.
BeginCreate(r, p) ==
    /\ req[r] = NoRequest
    /\ Operation
    /\ status[p] = "none"
    /\ \A q \in Requests : req[q] # NoRequest => req[q].prompt # p
    /\ \A q \in Active : TextOf[q] # TextOf[p]
    /\ req' = [req EXCEPT ![r] = [stage |-> "loaded", kind |-> "create",
                                  prompt |-> p, seen |-> FALSE]]
    /\ UNCHANGED <<status, idle, has, forced, running, cyc, queued>>

\* The other requests load the prompt.  The session keeps what it loaded, so the
\* request goes on with the is_active it saw here.  An administrator's switch
\* checks nothing more.
BeginChange(r, kind, p) ==
    /\ req[r] = NoRequest
    /\ Operation
    /\ kind # "create"
    /\ status[p] \in {"active", "archived"}
    /\ req' = [req EXCEPT ![r] =
                 [stage |-> IF kind \in {"switchOn", "switchOff"} THEN "passed" ELSE "loaded",
                  kind |-> kind, prompt |-> p, seen |-> status[p] = "active"]]
    /\ UNCHANGED <<status, idle, has, forced, running, cyc, queued>>

\* Mutant of Allowed: a prompt is restored whatever the count.
AllowedAlways(r) ==
    CASE req[r].kind = "create" -> Cardinality(Active) < MaxActive
      [] req[r].kind = "restore" -> ~req[r].seen
      [] req[r].kind = "archive" -> Cardinality(Active) > MinActive

\* What the count of active prompts allows; restoring an active prompt does nothing.
Allowed(r) ==
    CASE req[r].kind = "create" -> Cardinality(Active) < MaxActive
      [] req[r].kind = "restore" -> ~req[r].seen /\ Cardinality(Active) < MaxActive
      [] req[r].kind = "archive" -> Cardinality(Active) > MinActive

Count(r) ==
    /\ req[r].stage = "loaded"
    /\ req' = [req EXCEPT ![r] = IF Allowed(r) THEN [@ EXCEPT !.stage = "passed"]
                                               ELSE NoRequest]
    /\ UNCHANGED <<status, idle, has, forced, running, cyc, queued, ops>>

Insert(r) ==
    /\ req[r].stage = "passed"
    /\ req[r].kind = "create"
    /\ LET p == req[r].prompt IN
          /\ status' = [status EXCEPT ![p] = "active"]
          /\ \E rows \in {{}, {"prompt_models"}} : has' = [has EXCEPT ![p] = rows]
    /\ req' = [req EXCEPT ![r] = NoRequest]
    /\ UNCHANGED <<idle, forced, running, cyc, queued, ops>>

\* The session writes is_active only if it differs from what it loaded, and fails
\* on a prompt that was deleted meanwhile.
Update(r) ==
    /\ req[r].stage = "passed"
    /\ req[r].kind # "create"
    /\ LET p == req[r].prompt
           on == req[r].kind \in {"restore", "switchOn"}
       IN IF req[r].seen = on \/ status[p] = "deleted"
          THEN UNCHANGED <<status, idle, forced>>
          ELSE /\ status' = [status EXCEPT ![p] = IF on THEN "active" ELSE "archived"]
               /\ idle' = [idle EXCEPT ![p] = 0]
               /\ forced' = IF req[r].kind = "switchOn" /\ status[p] # "active"
                            THEN forced \cup {p}
                            ELSE IF on THEN forced ELSE forced \ {p}
    /\ req' = [req EXCEPT ![r] = NoRequest]
    /\ UNCHANGED <<has, running, cyc, queued, ops>>

RequestStep(r) == Count(r) \/ Insert(r) \/ Update(r)

(***************************************************************************)
(* Rows of a prompt.  A row inserted while the purge has deleted others    *)
(* of its table survives the purge; a row that refers to a deleted one, or *)
(* the deletion of a deleted one, waits for the purge.                     *)
(***************************************************************************)
AddRows(p, tables) ==
    /\ has' = [has EXCEPT ![p] = @ \cup tables]
    /\ cyc' = [cyc EXCEPT !.gone = @ \ ({p} \X tables)]

\* add_prompt_model and remove_prompt_model, with one model in the catalogue.
AddModel(p) ==
    /\ status[p] \in {"active", "archived"}
    /\ "prompt_models" \notin has[p]
    /\ Operation
    /\ AddRows(p, {"prompt_models"})
    /\ UNCHANGED <<status, idle, forced, req, running, queued>>

RemoveModel(p) ==
    /\ "prompt_models" \in has[p]
    /\ <<p, "prompt_models">> \notin cyc.gone
    /\ Operation
    /\ has' = [has EXCEPT ![p] = @ \ {"prompt_models"}]
    /\ UNCHANGED <<status, idle, forced, req, running, cyc, queued>>

\* process_job, or _execute_prompt_run, finds the prompt active and ensures its
\* daily_model_runs.
BeginRun(p) ==
    /\ p \in Active \ running
    /\ "prompt_models" \in has[p]
    /\ Operation
    /\ running' = running \cup {p}
    /\ AddRows(p, {"daily_model_runs"})
    /\ UNCHANGED <<status, idle, forced, req, queued>>

\* The answer or the failure is saved; last_run_at touches updated_at.
EndRun(p) ==
    /\ p \in running
    /\ running' = running \ {p}
    /\ \E tables \in {{"ai_runs"}, {"ai_runs", "success_run_id"}} : AddRows(p, tables)
    /\ idle' = [idle EXCEPT ![p] = 0]
    /\ UNCHANGED <<status, forced, req, queued, ops>>

\* The brands of an answer, at once or by an extraction retry.
Extract(p) ==
    /\ "ai_runs" \in has[p]
    /\ <<p, "ai_runs">> \notin cyc.gone
    /\ Operation
    /\ AddRows(p, {"run_brands"})
    /\ UNCHANGED <<status, idle, forced, req, running, queued>>

(***************************************************************************)
(* _enqueue_daily_jobs                                                     *)
(***************************************************************************)
StartCycle ==
    /\ cyc.at = 0
    /\ cyc' = [at |-> 1, gone |-> {}]
    /\ UNCHANGED <<status, idle, has, forced, req, running, queued, ops>>

\* Every statement looks for the old archived prompts anew.
Old == {p \in Archived : idle[p] >= Retention}

\* A foreign key still refers to a row the statement would delete.
Refused(table) ==
    \E p \in Old :
        /\ table = "prompts" \/ table \in has[p]
        /\ \E t \in Referencing(table) : t \in has[p] /\ <<p, t>> \notin cyc.gone

\* Mutant of Delete: the rows of AI runs are taken before their brands.
DeleteUnordered ==
    /\ cyc.at \in 1..5
    /\ LET table == CASE cyc.at = 1 -> "ai_runs" [] cyc.at = 2 -> "run_brands"
                      [] OTHER -> Statements[cyc.at]
       IN /\ ~Refused(table)
          /\ cyc' = [at |-> cyc.at + 1,
                     gone |-> cyc.gone \cup {<<p, table>> : p \in {q \in Old : table \in has[q]}}]
    /\ UNCHANGED <<status, idle, has, forced, req, running, queued, ops>>

Delete ==
    /\ cyc.at \in 1..5
    /\ ~Refused(Statements[cyc.at])
    /\ cyc' = [at |-> cyc.at + 1,
               gone |-> cyc.gone \cup
                          {<<p, Statements[cyc.at]>> : p \in {q \in Old : Statements[cyc.at] \in has[q]}}]
    /\ UNCHANGED <<status, idle, has, forced, req, running, queued, ops>>

\* Mutant of Commit: the prompts found by the first statement are deleted.
CommitFirst ==
    /\ cyc.at = 6
    /\ LET old == Old \cup {pt[1] : pt \in cyc.gone} IN
          /\ status' = [p \in Prompts |-> IF p \in old THEN "deleted" ELSE status[p]]
          /\ has' = [p \in Prompts |-> IF p \in old THEN {} ELSE has[p]]
    /\ cyc' = [at |-> EnqueueStep, gone |-> {}]
    /\ UNCHANGED <<idle, forced, req, running, queued, ops>>

\* The last DELETE and the commit.  A prompt restored meanwhile stays, without the
\* rows the earlier statements took.
Commit ==
    /\ cyc.at = 6
    /\ ~Refused("prompts")
    /\ status' = [p \in Prompts |-> IF p \in Old THEN "deleted" ELSE status[p]]
    /\ has' = [p \in Prompts |-> {t \in has[p] : <<p, t>> \notin cyc.gone}]
    /\ cyc' = [at |-> EnqueueStep, gone |-> {}]
    /\ UNCHANGED <<idle, forced, req, running, queued, ops>>

\* A refused DELETE raises: the transaction is undone, and the exception leaves
\* schedule_once.
Abort ==
    /\ cyc.at \in 1..6
    /\ Refused(Statements[cyc.at])
    /\ cyc' = NoCycle
    /\ UNCHANGED <<status, idle, has, forced, req, running, queued, ops>>

\* The active prompts with a model get their job of the day.
Runnable == {p \in Active : "prompt_models" \in has[p]}
Enqueue ==
    /\ cyc.at = EnqueueStep
    /\ queued' = queued \cup Runnable
    /\ cyc' = NoCycle
    /\ UNCHANGED <<status, idle, has, forced, req, running, ops>>

CycleStep == StartCycle \/ Delete \/ Commit \/ Abort \/ Enqueue

\* The next day at nine.  No request, execution or cycle lasts a day.
NewDay ==
    /\ cyc.at = 0 /\ running = {}
    /\ \A r \in Requests : req[r] = NoRequest
    /\ idle' = [p \in Prompts |-> IF status[p] = "archived" /\ idle[p] < Retention
                                  THEN idle[p] + 1 ELSE idle[p]]
    /\ queued' = {}
    /\ UNCHANGED <<status, has, forced, req, running, cyc, ops>>

Next ==
    \/ \E r \in Requests :
          \/ \E p \in Prompts : BeginCreate(r, p) \/ \E k \in Kinds : BeginChange(r, k, p)
          \/ RequestStep(r)
    \/ \E p \in Prompts :
          AddModel(p) \/ RemoveModel(p) \/ BeginRun(p) \/ EndRun(p) \/ Extract(p)
    \/ CycleStep
    \/ NewDay

Spec == Init /\ [][Next]_vars

\* Requests and executions end, the scheduler loops for ever, and days pass: a cycle
\* is over long before the next day.
FairSpec ==
    /\ Spec
    /\ \A r \in Requests : WF_vars(RequestStep(r))
    /\ \A p \in Prompts : WF_vars(EndRun(p))
    /\ WF_vars(CycleStep)
    /\ SF_vars(NewDay)

(***************************************************************************)
(* Properties                                                              *)
(***************************************************************************)
TypeOK ==
    /\ status \in [Prompts -> Status]
    /\ idle \in [Prompts -> 0..Retention]
    /\ has \in [Prompts -> SUBSET Tables]
    /\ forced \subseteq Prompts
    /\ req \in [Requests -> Request \cup {NoRequest}]
    /\ running \subseteq Prompts
    /\ cyc \in Cycle
    /\ queued \subseteq Prompts
    /\ ops \in Nat

\* Users' requests that read the count at the same time may exceed the maximum, but
\* never by more than there are other requests in flight: prompts switched on by an
\* administrator aside, at most MaxActive - 1 plus one for each request are active.
OvershootBounded ==
    Cardinality(Active \ forced) <= MaxActive - 1 + Cardinality(Requests)

\* A prompt is deleted only while it is archived and old, and every row of it goes
\* with it, although requests and executions go on between the DELETEs.
DeletedWhole ==
    [][\A p \in Prompts : status[p] # "deleted" /\ status'[p] = "deleted" =>
           p \in Old /\ has'[p] = {}]_vars

\* As long as no archived prompt was executed for daily_model_runs, no prompt stays
\* archived for ever: the scheduler deletes it.
OldPromptsLeave ==
    \A p \in Prompts :
        []<>(\/ status[p] # "archived"
             \/ \E q \in Archived : "daily_model_runs" \in has[q])

\* "09:00 Tehran: enqueue all active prompts with all active model names": a prompt
\* that stays active with a model is enqueued again and again.
DailyJobsEnqueued ==
    \A p \in Prompts : []<>(p \in queued \/ p \notin Runnable)

==============================================================================
