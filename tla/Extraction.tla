------------------------------ MODULE Extraction ------------------------------
(***************************************************************************)
(* The extraction of brands from answers.  An execution extracts the       *)
(* brands of its answer once; what failed is retried by the scheduler,     *)
(* within limits, and by users, without.  A batch selects its runs and     *)
(* then works through the list, whatever happens to them in between; the   *)
(* brands are stored in one transaction and the outcome in another.        *)
(***************************************************************************)
EXTENDS Integers, FiniteSets

CONSTANTS
    Runs,        \* answered AI runs, numbered in the order of their creation
    Prompts, PromptOf,
    Schedulers,  \* scheduler processes; a batch outlives the lock of the cycle
    Users,       \* requests for a retry in flight at the same time
    MaxAttempts, \* EXTRACTION_MAX_ATTEMPTS
    BatchSize,   \* EXTRACTION_RETRY_BATCH_SIZE
    UserBatch,   \* limit of a user's retry
    MaxRequests, \* bound: users' retries
    MaxLost      \* bound: deaths and lost updates

Executors == Runs \cup Schedulers \cup Users

ASSUME ExtractionAssumption ==
    /\ Runs \subseteq Nat /\ IsFiniteSet(Runs)
    /\ PromptOf \in [Runs -> Prompts]
    /\ IsFiniteSet(Schedulers)
    /\ Schedulers \cap Users = {} /\ Runs \cap (Schedulers \cup Users) = {}
    /\ MaxAttempts \in Nat \ {0} /\ BatchSize \in Nat \ {0} /\ UserBatch \in Nat \ {0}
    /\ MaxRequests \in Nat /\ MaxLost \in Nat

VARIABLES
    runs,     \* the extraction columns of each AI run
    stored,   \* runs whose brands are stored
    ex,       \* each executor: the execution of a run, a scheduler, a user's request
    auto,     \* extractions of each run the schedulers have made
    requests, \* users' retries so far
    lost      \* deaths and lost updates so far

vars == <<runs, stored, ex, auto, requests, lost>>

\* old: created more than an hour ago; rested: not processed within the backoff.
Run == [status : {"none", "pending", "completed", "failed"}, attempts : Nat,
        old : BOOLEAN, rested : BOOLEAN]

Idle == [pc |-> "idle", left |-> {}]
Executor == {Idle} \cup [pc : {"extract", "completed", "failed"}, run : Runs, left : SUBSET Runs]

Init ==
    /\ runs = [r \in Runs |-> [status |-> "none", attempts |-> 0, old |-> FALSE, rested |-> TRUE]]
    /\ stored = {}
    /\ ex = [e \in Executors |-> Idle]
    /\ auto = [r \in Runs |-> 0]
    /\ requests = 0
    /\ lost = 0

(***************************************************************************)
(* Batches                                                                 *)
(***************************************************************************)
\* The n newest of a set of runs: ORDER BY created_at DESC LIMIT n.
Newest(S, n) == {r \in S : Cardinality({s \in S : s > r}) < n}

\* The executor goes on with the newest run of its list.
Turn(e, left) ==
    \/ left = {} /\ ex' = [ex EXCEPT ![e] = Idle]
    \/ \E r \in left :
          /\ \A s \in left : s <= r
          /\ ex' = [ex EXCEPT ![e] = [pc |-> "extract", run |-> r, left |-> left \ {r}]]

Failed == {r \in Runs : runs[r].status = "failed"}

\* Mutants of Due.
DueAlways == {r \in Failed : runs[r].old /\ runs[r].rested}
DueButLast == {r \in Failed : runs[r].old /\ runs[r].rested /\ runs[r].attempts + 1 < MaxAttempts}

\* What the scheduler may retry.
Due == {r \in Failed : runs[r].old /\ runs[r].rested /\ runs[r].attempts < MaxAttempts}

\* An answer is stored; its execution goes on to the extraction.
Answer(r) ==
    /\ runs[r].status = "none"
    /\ \A s \in Runs : s < r => runs[s].status # "none"
    /\ runs' = [runs EXCEPT ![r] = [@ EXCEPT !.status = "pending"]]
    /\ Turn(r, {r})
    /\ UNCHANGED <<stored, auto, requests, lost>>

SelectDue(s) ==
    /\ ex[s] = Idle
    /\ Due # {}
    /\ Turn(s, Newest(Due, BatchSize))
    /\ UNCHANGED <<runs, stored, auto, requests, lost>>

SelectForUser(u, p) ==
    /\ ex[u] = Idle
    /\ requests < MaxRequests
    /\ requests' = requests + 1
    /\ Turn(u, Newest({r \in Failed : PromptOf[r] = p}, UserBatch))
    /\ UNCHANGED <<runs, stored, auto, lost>>

(***************************************************************************)
(* One run of a batch, or the run of an execution                          *)
(***************************************************************************)
\* Mutant of Persist: the outcome is recorded before the brands are stored.
PersistLater(e) == UNCHANGED stored

\* persist replaces the brands of the run in one transaction.
Persist(e) == stored' = stored \cup {ex[e].run}

\* extract and persist, which may fail and then leave nothing behind.
Extract(e) ==
    /\ ex[e].pc = "extract"
    /\ \E outcome \in {"completed", "failed"} :
          /\ ex' = [ex EXCEPT ![e] = [@ EXCEPT !.pc = outcome]]
          /\ IF outcome = "completed" THEN Persist(e) ELSE UNCHANGED stored
    /\ auto' = IF e \in Schedulers THEN [auto EXCEPT ![ex[e].run] = @ + 1] ELSE auto
    /\ UNCHANGED <<runs, requests, lost>>

\* update_extraction counts the attempt, whatever the run's status is by now.
Mark(e) ==
    /\ ex[e].pc \in {"completed", "failed"}
    /\ LET r == ex[e].run IN
       runs' = [runs EXCEPT ![r] = [status |-> ex[e].pc, attempts |-> @.attempts + 1,
                                    old |-> @.old, rested |-> FALSE]]
    /\ Turn(e, ex[e].left)
    /\ UNCHANGED <<stored, auto, requests, lost>>

\* Its failure is logged and the batch goes on.
MarkLost(e) ==
    /\ ex[e].pc \in {"completed", "failed"}
    /\ lost < MaxLost
    /\ lost' = lost + 1
    /\ Turn(e, ex[e].left)
    /\ UNCHANGED <<runs, stored, auto, requests>>

Die(e) ==
    /\ ex[e] # Idle
    /\ lost < MaxLost
    /\ lost' = lost + 1
    /\ ex' = [ex EXCEPT ![e] = Idle]
    /\ UNCHANGED <<runs, stored, auto, requests>>

\* Time passes: a run gets old, and its backoff ends.
Pass(r) ==
    /\ runs[r].status # "none"
    /\ \/ /\ ~runs[r].old
          /\ runs' = [runs EXCEPT ![r] = [@ EXCEPT !.old = TRUE]]
       \/ /\ ~runs[r].rested
          /\ runs' = [runs EXCEPT ![r] = [@ EXCEPT !.rested = TRUE]]
    /\ UNCHANGED <<stored, ex, auto, requests, lost>>

Step(e) == Extract(e) \/ Mark(e)

Next ==
    \/ \E r \in Runs : Answer(r) \/ Pass(r)
    \/ \E s \in Schedulers : SelectDue(s)
    \/ \E u \in Users, p \in Prompts : SelectForUser(u, p)
    \/ \E e \in Executors : Step(e) \/ MarkLost(e) \/ Die(e)

Spec == Init /\ [][Next]_vars

\* A call ends within its deadline, the scheduler loops for ever, and time passes.
FairSpec ==
    /\ Spec
    /\ \A e \in Executors : WF_vars(Step(e))
    /\ \A s \in Schedulers : WF_vars(SelectDue(s))
    /\ \A r \in Runs : WF_vars(Pass(r))

(***************************************************************************)
(* Properties                                                              *)
(***************************************************************************)
TypeOK ==
    /\ runs \in [Runs -> Run]
    /\ stored \subseteq Runs
    /\ ex \in [Executors -> Executor]
    /\ auto \in [Runs -> Nat]
    /\ requests \in Nat
    /\ lost \in Nat

\* A run whose extraction is recorded as completed has its brands stored, although the
\* two are written by different transactions, by several batches at once, any of which
\* may die in between (retry_failed_extractions and _extract_brands persist first).
CompletedReported ==
    \A r \in Runs : runs[r].status = "completed" => r \in stored

\* "each run at most max_attempts times": the scheduler extracts a run at most
\* max_attempts times, except that every further scheduler process may hold it in a
\* list it selected earlier, and that a lost update counts for nothing.
AttemptsBounded ==
    \A r \in Runs : auto[r] <= MaxAttempts - 1 + Cardinality(Schedulers) + lost

\* A failed extraction is retried until it succeeds or its attempts are used up,
\* although the newest runs go first and a batch is small.
FailedSettles ==
    \A r \in Runs : runs[r].status = "failed" ~>
        (runs[r].status = "completed" \/ runs[r].attempts >= MaxAttempts)

==============================================================================
