# FanoosAI: a TLA+ model of its daily execution, its brands and its console

FanoosAI asks AI models the prompts of its customers once a day, extracts the brands
from the answers and reports on them. This directory holds TLA+ modules for the part of
the backend (`src/backend/app`) that decides which prompts a project has, what is executed,
when and how often, and which brands the answers are about; for the pages of the console
(`src/frontend/src`) that show and change all that; the TLC configurations that check them
on small instances; and TLAPS proofs of the main safety properties for every instance.

## The system

| Component (sources under `src/backend/app`) | State it keeps | Operations | Interacts with |
|---|---|---|---|
| Daily model runs: `services/daily_model_run_service.py`, `repositories/daily_model_run_repository.py` | one `daily_model_runs` row per prompt, model and date: status, attempts, next attempt, answer, lock | `run_daily`, `run_manual`; `ensure_rows`, `reset_for_manual`, `get_runnable`, `acquire_lock`, `mark_success`, `mark_failure`, `release_lock` | called by the worker and by API background tasks; writes AI runs; calls the AI provider |
| Run queue: `infrastructure/run_queue.py` | a Redis stream with a consumer group, deduplication keys, a lock key | `enqueue_once`, `read` (XAUTOCLAIM, XREADGROUP), `ack`, `acquire_scheduler_lock`, `release_scheduler_lock` | written by the scheduler, read by workers |
| Scheduler: `scheduler.py` | none beyond the cycle it is in | `schedule_once`: daily jobs in the nine o'clock hour, due retries, extraction retries, purge | queue, rows, prompts |
| Worker: `worker.py` | the entry in hand, the time of its last request | `process_job` | queue, daily model runs |
| AI runs: `repositories/ai_run_repository.py`, `services/ai_run_service.py` | `ai_runs`, `daily_prompt_runs` claims, alerts | create, extraction status and retries, claims, alerts | scheduler, API |
| Prompts: `services/prompt_service.py`, `repositories/prompt_repository.py`, `projects/prompt_router.py` | prompts of a project, active or archived | create, archive, restore, purge, run | API, scheduler |
| AI provider calls: `services/ai_service.py`, `services/errors.py` | of one call: the deadline, the attempt, the error of the primary route | primary with retries, fallback, one total deadline | daily model runs, extraction |
| Brand extraction and identity: `services/brand_extraction_service.py`, `services/brand_persistence_service.py` | brands, aliases, mentions of a run | extract, persist | after each answer |
| SMS authentication: `services/auth_service.py`, `auth/` | codes, attempt counters, send-rate keys in Redis | register, request, verify | API |
| Projects and organizations: `services/project_service.py`, `organizations_router.py` | members and roles | membership changes, project creation | API |
| Model catalog, administration, settings: `services/ai_model_service.py`, `admin/router.py`, `repositories/system_settings_repository.py` | models, settings with a 30 s cache | CRUD, merge of models and brands | API |
| Analytics, internal reports | none | read-only queries | API |
| Migrations, Telegram relay (`src/deploy/telegram-worker`) | schema; none | | |

The console is a single-page application; these are under `src/frontend/src`, and each
talks to the API by `lib/api.ts` only:

| Component | State it keeps | Operations |
|---|---|---|
| API client: `lib/api.ts` | none; each call is awaited by its page | fetch, errors |
| Administration: `features/admin/admin-panel.tsx` | counters above the tabs, the mounted tab | seven tabs: models, prompts, extraction settings, references, searches, brands and their merge, costs |
| Prompt analysis: `features/prompts/prompt-analytics.tsx` | ten pieces about one prompt, its address | load, paged lists, filter of the chart, change of prompt or project |
| Analytics, rank report: `features/analytics` | selection, rankings, trends; the report and its table | selectors, effects that load |
| Dashboard and cards: `features/dashboard`, `features/projects/components/model-performance.tsx` | selection, summary, details of a row; per card a result with its key | selectors, details, two exports |
| Projects: `features/projects` | the list; per project prompts, competitors, alerts, runs, shared links | create, delete, settings; prompts in lots, archive, restore, models, runs; rows; links |
| Sign-in: `features/auth` | step, countdown | send, resend, verify |
| Shell: `context`, `components/ui/sidebar.tsx`, `components/layout`, `components/config-drawer.tsx`, `lib/cookies.ts` | preferences, twice: state and cookie | setters, resets, drawer, sidebar, command menu |
| Tables: `hooks/use-table-url-state.ts`, `components/data-table` | filters and page, in the hook and in the address | filters, pager, columns |
| Computed reports: `features/prompts/rank-report-utils.ts`, `features/dashboard/rank-model-details.ts`, `features/prompts/brand-trend-chart.tsx` | none | points reduced to days |
| Home, the shared report, lists of run and search metadata, interface primitives | none beyond one load | |

What is hard in it:

* *Several executors, one row.* Workers, reclaimed jobs and user requests execute the
  same prompt on the same day. Between any two awaits another one may act; the only
  protection is a lock column with a lease, and code that clears it without looking.
* *Old objects.* The SQLAlchemy session keeps what it loaded (`expire_on_commit=False`),
  so a decision may rest on a row as it was minutes ago.
* *At-least-once delivery.* Entries are delivered again after an idle time that equals
  the lease of the row lock; processes die between two commits.
* *Locks that expire.* The scheduler lock lives 55 s, a cycle may take longer.
* *Deduplication that lasts longer than the need for it.*
* *Identities that change.* An administrator merges brands while answers keep naming them,
  and the database and the code do not normalize names in the same way.
* *Limits checked by reading.* The active prompts are counted before the write, and
  nothing keeps another request from writing in between.
* *A purge of several statements* beside everything that inserts rows for a prompt.
* *Answers in any order.* No call of the console is aborted or numbered. An answer is applied
  to whatever the page shows when it comes, unless its component compares a key or a flag.
* *State that outlives its subject.* The router keeps a component when only a parameter of its
  route changes; a preference lives in a provider, in a cookie and in the document.
* *Lists patched or loaded again after a write*, whose answer may be lost after the server acted.

* *One deadline for many attempts.* Two routes, the retries of each and the pauses between
  them share the deadline that keeps a call within the lock of its row.

What makes the components correct is listed with the modules below. Of those that are not
modelled: an organization keeps an owner.

## Modules

| Module | What it is |
|---|---|
| `DailyRun` | the daily execution of one prompt on one date by any number of executors |
| `DailyQuota` | what the rows promise while executions do not overlap; abstract specification of `DailyRun` |
| `AiCall` | one call of a model: two routes, retries, pauses, timeouts, errors |
| `CallPromise` | what `DailyRun` relies on when it calls a model; abstract specification of `AiCall` |
| `RunQueue` | the Redis side of the queue: stream, group, keys, scheduler lock |
| `JobPipeline` | schedulers and workers around `DailyRun`, over an instance of `RunQueue` |
| `JobPipelineProofs` | theorems about `DailyRun`, among them that it implements `DailyQuota`, and about `JobPipeline`, among them that it implements `RunQueue` and `DailyRun`; and about `AiCall`, among them that it implements `CallPromise` |
| `PromptLifecycle` | the prompts of one project: limits, requests in flight, the purge |
| `PromptLifecycleProofs` | theorems about `PromptLifecycle` |
| `Extraction` | the extraction of brands from answers and its retries in batches |
| `ExtractionProofs` | theorems about `Extraction` |
| `BrandIdentity` | which brand a mention stands for; persists and merges of brands |
| `BrandIdentityProofs` | theorems about `BrandIdentity` |
| `Requests` | the calls a page has in flight, for all the pages |
| `AdminConsole` | the administration page over a server with models, prompts, settings and brands |
| `PromptAnalytics` | the analysis page of one prompt |
| `RankReport`, `Analytics` | the analytics page: the report, and what is above it |
| `RankReportProofs` | theorems about `RankReport` |
| `ReportCards`, `Dashboard` | the cards and the dashboard |
| `ProjectGrid`, `ProjectWorkspace` | the list of projects, and the sections of a project |
| `SignIn` | the two pages of the sign-in and the code store of the backend |
| `SignInProofs` | theorems about `SignIn` |
| `UiShell` | preferences, cookies, sidebar and menu |
| `DataTable` | a table whose filters are in the address |
| `Reports` | the three computations over the same points |
| `EditingPages` | the pages that create and change (administration, list of projects, project) on shared variables |
| `EditingPagesProofs` | what these three pages keep, and lemmas about calls in flight |
| `Frontend` | all of the console for any constants, one page mounted at a time, with the properties of the pages; extends `EditingPages` |
| `FrontendProofs` | theorems about `Frontend` |
| `MCFrontend` | values of the constants of `Frontend`, for TLC |
| `MCDailyRun`, `MCJobPipeline` | symmetry sets for TLC |
| `MCPromptLifecycle` | texts, and the rows of older versions, for TLC |
| `MCExtraction` | which run is of which prompt, for TLC |
| `MCBrandIdentity` | names and their keys, for TLC |

### DailyRun

State: `rows` (the table, one row per model; `absent` before `ensure_rows`), `runs` (the
`ai_runs` of each model by status), `ex` (a coroutine per executor: where it stands,
which models are left, what its session has loaded), `now`, and `starts`, which only
bounds the checking. A step of an executor is the code between two awaits that another
executor can interleave with:

| Action | Code |
|---|---|
| `StartDaily`, `StartManual` | entry of `run_daily` / `run_manual`, the SELECT of `ensure_rows` |
| `InsertRows`, `InsertConflict` | its INSERT: all missing rows, or an IntegrityError that ends the execution |
| `LoadForReset`, `Reset` | `reset_for_manual`: the SELECT, and the flush of the changed columns |
| `ListRunnable` | `get_runnable` |
| `Acquire`, `Skip`, `Finish` | the loop of `_execute_models` and the conditional UPDATE of `acquire_lock` |
| `Answer` | the AI call and the commit of its AI run |
| `MarkSuccess`, `MarkFailure` | the row's UPDATE |
| `Extracted` | `_extract_brands`, which may roll the session back |
| `Release` | the `finally` clause |
| `Crash` | death of the process, or a database error: the handlers use the same failed session and get no further |

Abstractions: error texts, usage figures and the provider used are left out; the three
outcomes of a call are an answer, an error that is retryable or of unknown kind, and one
that is not. The brand extraction and its alerts touch no row, so they are one step that
takes up to a call's deadline. Time is a small integer; a call is cut off at
`CallDeadline`, which `DeadlineAssumption` puts within the lease (the default is half of
it; a larger configured value is taken as it is, because nothing calls
`resolve_ai_total_deadline`, which would refuse or log it). That a call keeps to
`CallDeadline` is not taken for granted but shown of `AiCall`, with its `Deadline` plus the
lateness of the event loop for `CallDeadline`.

`snap` is the part that is easy to overlook. `get_runnable` loads row objects which
`_execute_models` keeps; `get_row` in `mark_success` and `mark_failure` runs a SELECT, but
SQLAlchemy returns the object it has and does not overwrite its attributes unless a
rollback expired them. `SeenAttempts` is therefore the old counter. In the same way a
flush writes only the columns whose value differs from the loaded one (`Flushed`).

### AiCall

`run_prompt_with_provider` asks the gateway, when it is enabled, and AvalAI after it; in both
`_request_with_retry` repeats a request whose error is worth it, after a pause, and all of it
shares one deadline. State: `setup` (is the gateway enabled, has the fallback a key), `call`
(which provider, which attempt, a request or a pause, and when its timer ends), `primary`
(`primary_error`), `result` (how the call ended and which provider the error names), `time`.
`asked` and `heard` are history: the requests sent to each provider and the kinds of replies
that came. A step is the code between two awaits:

| Action | Code |
|---|---|
| `BeginCall` | from the call to the first request, or to its end without a provider |
| `ReplyComes` | the response: `_request` after `session.post`, `_normalize_response`, the error it raises, and what that leads to: a pause (`PauseBefore`), the fallback (`TryFallback`), the end |
| `RequestTimesOut` | `asyncio.TimeoutError` after `min(180, remaining)` |
| `PauseEnds` | after `asyncio.sleep`: the second look at the deadline, the next request |
| `CallTick` | time passes; a coroutine wakes at most `MaxLate` after its timer |

A reply is an answer, an error in the head of the response (its status) or in its body (a
status or none, and whether it speaks of a limit, `_error_envelope_to_exception`), nothing
that can be used (no connection, an empty body), or a body on which the parser raises an
exception of another class. `Retryable` and `Combined` are `AIProviderError.retryable`,
`effective_error` and `provider`; a synthetic error is one the deadline made. Left out are the
payloads, the texts and links of an answer, the usage figures and the shared session.

Four things the code does that its reader may not expect, all of them in the model:

* Without a fallback key every failure of the gateway becomes `ValueError("No AI provider
  enabled")`. Its class is lost: a refusal is recorded like a temporary error and tried again.
* A failure is final when *one* route refused, and the alert then says that the provider needs
  a manual fix; but it names the fallback also when the gateway refused and the fallback was
  only busy. `BlameIsFair` says no more than the code keeps: the provider named was asked, it
  gave no answer, and the gateway is not named instead of a fallback that refused.
* With the defaults (a deadline of 300 seconds, requests of up to 180) a gateway that hangs
  uses up the deadline in its second request, and the fallback is skipped.
* With a deadline of no more than five seconds the fallback is never asked, and an error may
  name it all the same: `BlameIsFair` has `Deadline > Reserve` as its condition.

### RunQueue and JobPipeline

`RunQueue` has one action per Redis command or script: `EnqueueOnce`, `Reclaim`
(XAUTOCLAIM), `Read` (XREADGROUP), `Ack`, `AcquireLock`, `ReleaseLock`. `JobPipeline`
instantiates it for one prompt and one date, extends `DailyRun` with the processes that
start executions, and replaces its free starts: `Take`, `CheckPrompt`, `Begin`, `Run`,
`Acknowledge` are the loop of `worker.py`; `StartCycle`, `SelectDaily`, `SelectRetries`,
`Add`, `EndCycle` are `schedule_once`. `Fail`, `CycleFails` are exceptions, `Die` a death
with restart, `Pause` and `Resume` what users do to the prompt. User executions are left
to `DailyRun`, where they meet any number of workers.

One prompt is enough because prompts share no row, no key and no entry; what they share
is workers, and a worker that is busy elsewhere is one that has not yet taken its step.
The two-day expiry of a deduplication key lies outside the date. The delayed set of the
queue is left out: only `AIRunService` with a `retry_queue` fills it, and nobody passes one.

### PromptLifecycle

State: `status` of every id (never given twice), `idle` (days since `updated_at` of an
archived prompt), `has` (the tables in which a prompt has rows), `forced` (prompts that are
active because an administrator switched them on), `req` (what each request in flight has
read), `running` (executions under way), `cyc` (the scheduler's cycle: its next statement
and the rows its open transaction has deleted) and `queued` (prompts with a job today).

| Action | Code |
|---|---|
| `BeginCreate`, `BeginChange` | the first read of a request: the texts of the active prompts, or the prompt itself |
| `Count` | `count_active_by_project` and the limit in `prompt_service.py` |
| `Insert`, `Update` | the write: a new prompt, or `is_active` if it differs from what was read |
| `AddModel`, `RemoveModel` | `prompt_models` |
| `BeginRun`, `EndRun`, `Extract` | the rows an execution leaves: `daily_model_runs`, then `ai_runs`, then `run_brands` |
| `StartCycle`, `Enqueue` | `_enqueue_daily_jobs` |
| `Delete`, `Commit`, `Abort` | `purge_archived_before`, statement by statement |
| `NewDay` | the next nine o'clock hour |

An archive, a restore and an administrator's switch differ only in the checks before the
write, so they share `BeginChange` and `Update`. Every DELETE of the purge looks for the
old prompts anew: a prompt restored during the purge survives the last one, without the
rows the earlier ones took, and a row inserted after its table was purged makes the last
one fail. `success_run_id` is not a table: it stands for a row of `daily_model_runs` that
refers to an AI run.

Abstractions: the text of a prompt is fixed by its id, and `prompt_models` holds at most one
model of a prompt; `prompt_revisions` has a statement but no rows, since nothing inserts any;
`idle` is kept for archived prompts only and stops at `Retention`, where the purge takes
them; all cycles of one nine o'clock hour belong to the same day.

### Extraction

State: `runs` (the extraction columns of every answered AI run: status and attempts, `old`
once it was created more than an hour ago, `rested` when its last attempt is longer ago
than the backoff), `stored` (the runs whose brands are in `run_brands`), `ex` (the
coroutines: the execution of a run, named by the run, a scheduler, a user's request; each
with the run in hand and the rest of its list), the ghost `auto` (extractions the schedulers
have made), and the counters of the bounds, `requests` and `lost`.

| Action | Code |
|---|---|
| `Answer` | an execution stores its answer and goes on to `_extract_brands` |
| `SelectDue` | `_retry_extractions`: `get_failed_extractions` with all its limits |
| `SelectForUser` | the API's retry: the failed runs of a prompt, whatever their attempts and backoff |
| `Extract` | the extraction call and `persist`, one transaction |
| `Mark` | `update_extraction`, in a transaction of its own |
| `MarkLost` | `_mark_extraction` logs an update that fails and the batch goes on |
| `Die` | death of the process, with its list |
| `Pass` | time: a run gets old, a backoff ends |

The list is selected once and not looked at again: a run may be completed, or fail once
more, between its selection and its turn. So the same run may be extracted twice within the
backoff, a completed run may be recorded as failed by a slower batch, and a run whose
execution dies stays pending, because only failed runs are selected. The model has all of
that; the properties say what holds in spite of it.

Abstractions: alerts, token figures and the brands themselves; the lock of the scheduler's
cycle, which a batch outlives (it expires after 55 s, a batch makes many calls), so any
number of schedulers may be in a batch; a purge of the run meanwhile. `MaxAttempts` is not
zero and the backoff not empty, as in the default settings. `run_prompt_model`, the claims
and the jobs of kind `extraction_retry` have no caller.

### BrandIdentity

State: `brands`, `names` and `domains` (the aliases: a row has either a name or a domain),
`links` (`run_brands`, with the rank), `next` (the id sequence) and `tx`, the persist under
way with what a rollback restores. `acquire_brand_write_lock` serialises everything that
writes brands, so at most one persist is open, and a merge is one step.

| Action | Code |
|---|---|
| `Begin` | `persist`: the lock, and the links of an earlier extraction are deleted |
| `Mention` | one extracted brand: `_find` and `choose_brand_identity` (`Candidates`), a new brand, the link |
| `Commit`, `Rollback` | the end of the transaction |
| `Merge` | `merge_brands`: conflicts, aliases, links, deletion of the sources |

A mention has a domain (without one it is skipped). `Odd` is the set of names that
`normalize_brand_name` and the SQL expression of `_find` treat differently: Python removes
every white space and folds the case, SQL removes blanks and lowers, so a stored name with a
no-break space, a tab or a letter like "ß" has a key no query finds. Such names get brands
beside others with the same key; merges see the Python key of all. This has one consequence
that `MentionsFollow` states as its exception: merged into a brand whose own name has the
same key but is odd, a brand leaves no alias for that name, because the code takes it for
the name of the canonical one.

Abstractions: confidence and raw names; references of `project_brands`, which only the seed
script sets and which a merge repoints to the canonical brand (`admin/router.py:659`); merges of more brands at once than the instance has. Domains are compared up to
case; the parser lets no other spelling through. A merge that is rejected changes nothing
and is no step. Names consist of more than what their key leaves out.

### The console: Requests and the pages

`Requests` is the common part. `net` is the sequence of calls in flight in the order they
were made. A call is issued by a handler or an effect (`Issue`), served once by the server
(`Serve` fixes its answer), received in any order (`Finish`), or fails before or after it
was served. `late` marks a call a newer one of its kind has overtaken, `gone` one whose component
was unmounted or whose effect was cleaned up. A module has one action per handler of the page,
one per continuation after `await`, and, where pages write, one per call the server serves.
The server is external to these modules: it is what the API answers, in the few fields the
pages tell apart. Pages that only read get as an answer the arguments of their call, since
what can go wrong is which answer is applied, when and to what.

| Module | State and actions | What it is about |
|---|---|---|
| `AdminConsole` | `tab`, the `view` of the mounted tab, `overview`; `SelectTab` replaces the view and unmounts its calls, a write in flight goes on and refreshes the counters; handlers and continuations of the seven tabs | `MergesArePreviewed`, `RowsMatchControls`, `CountersFollow` |
| `PromptAnalytics` | `view` outlives `address`; `FetchData` is the effect on the parameters (seven calls, one `DataFetched`), `LoadPage`, `ApplyTrendFilters`, `ChangePrompt`, `ChangeReportProject` | `WaitingUserSeesOnePrompt` |
| `RankReport` | `page`, `report`; `ReportEffect` is the effect with its cleanup, `Ignored` the flag it sets | `ReportMatchesControls`, `SkeletonIsAwaited` |
| `Analytics` | `page`; `DisplayEffects` are the two effects on the displayed prompt | `DisplayedPromptRanked` |
| `ReportCards` | a card and its result with the key of its request; `Toggle` hides a series | `CardShowsItsRequest` |
| `Dashboard` | summary and details with their keys; `DownloadCsv` and `PrintPdf` read page after page (`ExportPageLoaded`) | `RowsForSelection`, `FilesAsNamed` |
| `ProjectGrid` | the cards and the server's projects; create loads the list, delete and settings patch it | `GridFollowsServer` |
| `ProjectWorkspace` | one `section` of five with its loads and writes; `Create` makes a lot of prompts by one call each; a run is queued (`Effect`) and executed later by the server (`PromptRunStarts`, `PromptRunEnds`) | `SectionFollowsServer` |
| `SignIn` | per page its step and countdown; the calls with how far the server is (`CheckSendRate`, `StoreCode`, `ClearAttempts`, `Verify`); the store with its lifetimes | `GuessesBounded`, `ResendAllowed` |
| `UiShell` | `pref`, `cookies`, the document's `class`, what is `shown`; `Reload`, `MountLayout`, `CookieExpires`, `SchemeChanges` | `PreferencesSurvive`, `ThemeApplied` |
| `DataTable` | `url` and `table`, set by the hook's functions; `EnsurePageInRange`, the toolbar, the pager, whose choice of a size keeps the first row (`PageWithTopRow`), `Back` | `UrlKeepsTable`, `PagerReaches` |
| `Reports` | points by model and day; `BuildRankTableRows`, `SummarizeModelRanks`, `BrandTrendChart`; equal averages stay in the API's order (by id) in the table and are sorted by the model's name in the details | `ReportsAgree` |

`Frontend` composes them. The router mounts one page at a time, pages share no state but
the server's, and no page reads what another wrote except by loading, so a behaviour stays
with the page it begins in: `mounted` names it and `s1` to `s8` are the variables of its
module, in the order of its `vars`. Its first part is `EditingPages`, the three pages that change
what the server holds: a proof about them sees their variables and constants and not those of
the other nine parts. Sections of a project share nothing either, except that
one loads what another changed; `ProjectWorkspace` therefore follows one section at a time.

What the pages do not promise, the properties leave out by history variables, each named where
it is declared. Lists of the administration page and the analytics keep an answer that comes
out of turn (`settled`, `past`): the rows of an older search then stand under the controls of a
newer one until the next load. A user who acts on the prompt page before its answers came can
see two prompts at once (`past.busy`). A list in flight beside a write, or a lost answer,
leaves the grid without what the server has (`past.crossed`, `past.lost`). The counters stay as
they were when the answer of a write or of a refresh is lost. A failed call of a section, as
one line of a lot of prompts, leaves it without what the server has until its next load, which
brings all of it unless lines that nobody awaits are still to be served: `past.lost` of
`ProjectWorkspace` lasts so long. So `RowsMatchControls`, `DisplayedPromptRanked`,
`GridFollowsServer` and `CountersFollow` cover their hazards only in part: they say that
nothing else goes wrong. The end of a run is told to no page: the load after the click brings
the availability of the moment, mostly that of before the run, and `past.ran` names the prompts
whose availability a run changed since the page asked. The scheduler's job of the day, which
would change it in the same way, is left out. In `SignIn`, `crossed` excludes codes that were
stored while another request stood between storing its code and deleting the counter; since a
phone rests a minute between two codes, that request was delayed for longer, and its late
deletion can give guesses back.

Abstractions: wording, formatting, layout and focus; a 401, which leaves every page at once;
the content of answers the properties do not tell apart. Flags such as `creating` are cleared
with the answer of the write, where the code clears them only after the load that follows: the
model lets the user act earlier. `ClientRefuses` never refuses: the check of the extraction
settings is `'{response_text}' in draft`, which looks for a property of an object and not for
a piece of a text, so the server is the one that refuses. `UiShell` and `DataTable` include
components that no route mounts yet (the settings drawer, the theme switch, the setter of
fonts, `useTableUrlState`): they are modelled as written, and no test covers them. The pager,
toolbar and headers of the table serve the rank report, without the address.

## What is checked

| Run | Instance | Shows |
|---|---|---|
| `daily_rows` | 1 model, 2 workers, 1 user, 3 executions, 2 attempts, clock 0..2, lease, deadline and retry interval 1 | `RetryBudget`, `AttemptsBacked`, `SuccessRunAnswered`, `LeaseOutlivesCall` |
| `daily_quota` | 2 models, a worker and a user, one at a time | `QuotaKept`: `DailyRun` implements `DailyQuota` |
| `daily_concurrent` | as `daily_rows` | violated: two calls for one row |
| `ai_call` | 2 retries, deadline 7, requests of 4, reserve 2, lateness 1, statuses 401, 422, 429, 503, fairness | `FailureIsFair` (`FatalIfRefused` and `BlameIsFair`), `RoutesFollowed` (`AskedSparingly` and `FallbackIsTried`), `CallKept`: `AiCall` implements `CallPromise`, `CallEnds` |
| `pipeline` | 1 worker, 2 schedulers, 2 upsets, fairness | `OneJobADay`, `CyclesApart`, `JobsSettle` |
| `abandoned` | 2 workers, 1 scheduler, one upset | `DoneInFull` is violated |
| `retries` | 1 worker, 1 scheduler, fairness | `RetriesRun` is violated |
| `prompts` | 3 ids, 2 requests, limits 1 and 1, 2 operations, retention of a day, fairness | `OvershootBounded`, `DeletedWhole`, `OldPromptsLeave` |
| `purge` | 2 ids, 1 request, limits 2 and 1, fairness | `DailyJobsEnqueued` is violated |
| `extraction` | 2 runs of a prompt, 2 schedulers, 1 user, 2 attempts, batches of 1 and 2, 1 user's retry, 1 loss, fairness | `CompletedReported`, `AttemptsBounded`, `FailedSettles` |
| `brands` | 3 names with 2 keys, one of them odd, 3 domains, 2 runs, 2 ranks, 3 brands | `Attributable`, `LinksSound`, `MentionsFollow`, `LinksFollow` |
| `frontend` | every page in turn, see below | the eighteen properties of the console, one per question a page raises |

Bounds. Two workers and a user give every pair of kinds of executor and one bystander;
three executions are what it takes for one to act on what the second did to the first.
With two attempts there is a first, a last and one too many. A lease of one tick with a
clock of two makes leases expire with and without room to be taken over, and at
the very instant; the deadline equals the lease, its worst case. `MaxStarts` is 9 in the
pipeline, more than its entries can cause. `MaxUpsets` counts failures, deaths and pauses;
the last death leaves the clock room for one idle time, or the bound on the clock, not the
code, would keep the entry from being reclaimed. In `DailyRun` the bounds end every
behaviour, so its runs do not check deadlock; the pipeline's do.

In `AiCall` two retries with pauses of 1 and 2 fit in the deadline of 7 when providers reply
at once, and one request of 4 and its retry do not, so calls end in every way: with room for
the fallback, with exactly the reserve, between a pause and its end, and at the deadline while
a request is cut short. The four statuses are the classes the code tells apart, in the head
and in the body of a response. Fairness: timers fire and time passes; no reply is ever owed.

In `PromptLifecycle` one active prompt is both the minimum and the maximum, so every
request is at a limit; two requests are what it takes to exceed one, and with three ids
they still find an archived prompt each or the room for a new one. `MaxOps` bounds requests,
changes of models and executions; the days and cycles go on for ever, so deadlock is checked
and liveness is real. `LegacyRows` gives prompts of versions before `daily_model_runs` their
rows: they are the only executed prompts a purge can delete.

In `Extraction` two runs and a batch of one make the newer run delay the older; with two
schedulers and two attempts a run reaches its last attempt while the other scheduler still
holds it; the user's list holds both runs, so one of them is stale when its turn comes. When
all runs are settled nothing is left to do, so deadlock is not checked.

In `BrandIdentity` three brands are a source, a canonical and an outsider, or two sources, or
a chain of merges; two names share a key in the two ways there are, of which the database
finds one; a third name keeps two brands apart. Two runs and two ranks give every order of
ranks and the replacement of one run's links beside another's. Only the number of brands is
bounded, so mentions and re-extractions are not.

`frontend` has the twelve independent parts of `Frontend`, with the values of `MCFrontend`. Two
calls in flight when the user acts are what it takes for one to overtake another; three where a
third kind of call joins (`RankReport`, `ReportCards`, `Dashboard`), four where one choice
causes three (`Analytics`). Choices are bounded by two to four, so a control can be changed,
changed again and changed back; the prompt page has two changes of its address, with projects
of two, one and no prompts and a prompt without ranks, and the administration one change of its
tab, before and after which calls are on their way. Exports have two pages, lists one or two.
`SignIn` has a login and a registration page for one phone, two attempts and two calls; its
clock is bounded by the lifetimes. Page counts of the table lie on both sides of the five
buttons of the pager, and its two page sizes lead to lower and higher pages. A prompt of the
project page has up to two runs, whose tasks start and end between any two other steps.
`Reports` has three points by model in four days and a report of three, so days are empty,
double and too old; of its two models the first has the later name, so series of one average
stand in different orders in the table and in the details. Where the bound on acts is reached
nothing is left to do, and the run does not check deadlock; it has no fairness, since its
properties are safety. The state constraint `Unhurried` leaves out what follows on the prompt
page once its user acted before the answers came or lost one: `WaitingUserSeesOnePrompt`
promises nothing from there on.

Symmetry is used for safety only. `daily_quota` uses the state constraint `OneAtATime`,
which is the condition under which `DailyQuota` is promised.

Fairness (`PFairSpec`): each worker and each scheduler takes its steps (they loop for
ever and are restarted when they die; a call is cut off by its deadline), and time passes.
No failure, death, pause or resume is fair. A worker may therefore be slow for any finite
time, which is what makes reclaiming of live jobs possible. In `PromptLifecycle` requests,
executions and the cycle go on (weak fairness), and days pass (strong fairness of `NewDay`:
it needs a moment without a request, an execution or a cycle, which comes again and again,
none of them lasting a day, but does not stay, since the next cycle may begin). In
`Extraction` every coroutine goes on, since its calls end by their deadline, the schedulers
select again and again, and time passes; that one of them dies or loses an update is never
fair, and `MaxLost` bounds it: a run whose updates are lost for ever is retried for ever.

Proved only, and no longer run: the type invariants (`TypeCorrect`, `PipelineTypes`,
`CallTypes` and the others), `DoneInFull` of a pipeline in which nobody fails, and
`ThemeApplied`. Each was model-checked before it was proved, `DoneInFull` with two workers, a
scheduler and a clock from 0 to 3, in which one worker is slow enough for its job to be taken
over.

### What the violations show

* `daily_concurrent`: `release_lock` clears the lock column whoever set it, `mark_failure`
  and `mark_success` too, and `reset_for_manual` does so while a call is running. The next
  executor takes the row during the call.
* `abandoned`: the entry of a dead worker is reclaimed one lease after its *delivery*, the
  row's lock expires one lease after it was *taken*, which is later. The second worker
  skips the row and acknowledges the job; the row stays pending. While nobody dies and no
  job fails `DoneInFull` holds (`DoneInFullHolds`), so death is what breaks it.
* `retries`: `enqueue_once` gives daily and retry jobs of a prompt the same key, which the
  daily job has taken. For the same reason a retry enqueued before nine o'clock, after a
  user's run, suppresses that day's scheduled job; this needs a user execution before the
  hour, which `JobPipeline` does not include.
* `purge`: `purge_archived_before` deletes neither the `daily_model_runs` of a prompt nor
  their references to its AI runs. When an archived prompt that was executed gets old, a
  DELETE is refused, the exception ends `schedule_once` before anything is enqueued, and
  every later cycle meets the same prompt: until somebody restores it, no prompt of any
  project gets its daily job.

Two behaviours of the models have no run of their own, because no document or test speaks of
them. `reset_for_manual` writes what it decided on an older version of the row, so a run in mode
"failed" can reopen a row that was answered in between. A prompt that is restored between
the DELETEs of a purge survives without its rows.

The worker acknowledges a job on its first exception (`Fail`, and `Run` after an INSERT
conflict), where `system_design.md` speaks of retries until a limit. `JobsSettle` states
what holds: a job is settled in the end, however many of its models were dropped; no property
says that its models have run, since the code does not see to it.

## What is proved

`JobPipelineProofs`, about `DailyRun` (any number of models, executors, attempts and times;
assumptions `SetsAssumption`, `NumbersAssumption`, `DeadlineAssumption`):

* `TypeCorrect`: `TypeOK`, with `CurIsModel` (an executor past `acquire_lock` has a model).
* `RetryBudgetHolds`: inductive only together with the same fact about every *loaded* row
  (`snap`) and about the columns a reset may mix: a flush keeps a column when old and new
  value agree, and then the row's own value satisfies the budget.
* `LeaseProtects`: the age of a call is bounded by `CallDeadline` (`Tick` is refused
  beyond it), so a lock taken at its start is not older than the lease.
* `SuccessRunHolds`: the runs of a model only grow and an executor about to record an
  answer points at a run that answered.
* `AttemptsBackedHolds`: needs slack for every executor in its call or about to record,
  whose loaded counter was backed when it was loaded (`Slack`), because several of them may
  write the same number.
* `QuotaImplemented`: `DailyRun` implements `DailyQuota` as long as executions do not overlap
  (`Spec /\ []OneAtATime => QuotaKept`). Beside the budget it needs that the one executor's
  loaded counters are those of the rows still to be done (`Current`), unless they expired and
  are loaded anew. The hypothesis is the state constraint of the run `daily_quota`; without it
  the implementation is refuted by `daily_concurrent`.

`JobPipelineProofs`, about `AiCall` (any number of retries, any deadlines and delays, any
statuses, any lateness; assumption `CallAssumption`). One inductive invariant, `CallInv`,
carries all of it; it was model-checked with the instance of `ai_call` before it was proved.
`TimeOK`: the timer of a request or a pause ends by the deadline. `AttemptOK`: the requests
sent to the provider in hand are its attempts, and it has neither answered nor refused.
`RouteOK`: the fallback is silent while the primary is asked, and once the fallback is asked
`primary_error` says of the primary what was heard of it (`PrimaryDone`). `EndStep`,
`RequestStep`, `FailureStep`, `GiveUpStep` and `PauseStep` follow the code from the reply to
the next await.

* `CallTypes`: the types of its variables.
* `FailureIsFairHolds`: what the two errors combine to, by `PrimaryDone`.
* `RoutesFollowedHolds`: two action properties, shown of every step (`AskStep`, `FailStep`).
* `CallKeepsPromise`: every step is one of `CallPromise` or a stutter, which gives `DailyRun`
  its bound on a call.

`JobPipelineProofs`, about `JobPipeline` (any number of workers, schedulers and upsets):

* `CyclesApartHolds`: a cycle younger than `LockTTL` holds the lock with its own expiry
  (`Holds`); two such holders would be one.
* `PipelineTypes`, `OneJobADayHolds`: every entry's key is taken (`StreamInv`).
* `PipelineUsesQueue`: every step of the pipeline is a command of `RunQueue`, a tick or a
  stutter.
* `PipelineExecutes`: every step of the pipeline is a step of `DailyRun` or leaves its
  variables alone, so whatever is proved of `DailyRun` holds in the pipeline. A worker can only
  start an execution of models the prompt has: `JobsInv` says so of all entries, and that a
  worker with a job has an entry of the stream.
* `DoneInFullHolds`: as long as no worker dies and no job fails (`NobodyFails`), a job that was
  done has left no model behind, also when it was taken over from a slow worker. `ExecutorsInv`
  says that an executor has handled every model that is no longer on its list (attempted, or in
  the hands of another executor, who will attempt it) and that a lock has an executor who works
  on the row; `WorkersInv` ties the executor to the models of the job. The hypothesis excludes
  what the run `abandoned` shows to be fatal, and nothing else: schedulers still fail, and
  users pause the prompt.

`PromptLifecycleProofs` (any number of ids and requests, any limits; assumption
`PromptAssumption`):

* `PromptTypes`: `TypeOK`.
* `OvershootBoundedHolds`: not inductive as it stands, since a request that has passed the
  check will add a prompt whatever the count is by then. `PlacesReserved` adds those
  requests (`Activating`) to the active prompts and bounds the sum by the same number.
* `DeletedWholeHolds`: a prompt that is gone has left no row. `PurgeInv` keeps the foreign keys
  twice, for what the tables show and for what the open transaction of the purge would leave
  (`KeysHold`), and keeps an id that a request is about to give from being executed or given by
  another (`IdsApart`). `LegacyAssumption` says of the rows of older versions only what the
  foreign keys of the schema say.

`ExtractionProofs` (any number of runs, schedulers and users; assumption
`ExtractionAssumption`):

* `ExtractionTypes`: `TypeOK`.
* `CompletedReportedHolds`: needs that an executor about to record a success has stored
  the brands (`StoredInv`).
* `AttemptsBoundedHolds`: an extraction is made before its attempt is counted, and a
  scheduler that has selected a run will extract it whatever its attempts are by then.
  `CountedFor` bounds the extractions of a run by its attempts, the losses and the
  schedulers about to record one (`Marking`); `ReservedFor` adds the schedulers that still
  hold the run (`Holding`) to its extractions and bounds the sum; `Once` says that no
  scheduler holds a run twice.

`BrandIdentityProofs` (any names, keys, domains, runs, ranks and number of brands;
assumption `BrandAssumption`):

* `BrandTypes`: `TypeOK`.
* `AttributableHolds`: the invariant `Inv` says who owns what. Brands have different domains,
  a domain alias is not another brand's domain, and findable names have different keys; the
  conjunct that makes it inductive is that a name alias belongs to *every* brand with that
  key, findable or not, which the merge checks and a persist keeps. `Restorable` says the
  same of what a rollback restores.
* `LinksSoundHolds`, `LinksFollowHolds`: of the links a merge joins in a run there is a best
  one (`BestExists`, from the well-foundedness of the naturals), and equal ranks make equal
  rows.
* `MentionsFollowHolds`: under `Inv` the domain decides if it is known and the name otherwise
  (`CandidatesOf`), and a merge maps the owner of each to the canonical brand
  (`MergeDomains`, `MergeNames`).

`SignInProofs` (any number of pages and calls; assumption `SignInParameters`, that at least
one attempt is allowed):

* `GuessesAreBounded`: `GInv` says that, unless `crossed`, the guesses at the stored code are
  counted while a request has not yet deleted the old counter; afterwards they are counted, or
  the counter began anew when fewer guesses than allowed had been made, and then it lives at
  least as long as the code (`CountedAnew`). The second half needs that storing and deleting
  fall into the same minute (`Tick` waits for it).
* `ResendIsAllowed`: a page whose own request made the phone rest does not offer another code
  before the phone has rested. That is an invariant of the page and the calls together (`RInv`):
  while the page still waits for that request it offers nothing, and afterwards its countdown
  runs as long as the phone's rest.

`RankReportProofs` (any projects, brands, dates and numbers of calls; no assumption):

* `ReportsMatch`, `SkeletonsAreAwaited`: `Inv` says that of the reports in flight that were not
  cancelled (`Live`) all are for the parameters of the controls, and that there is one while the
  skeleton covers valid parameters. `Issued`, `Cancelled` and `Finished` say what the three
  operations on `net` do to `Live`; every handler is the effect (`EffectKeeps`) after a change
  of the page.

`EditingPagesProofs` and `FrontendProofs` (the composition, any constants that satisfy
`EditingParameters` and `FrontendParameters`). A behaviour
stays with one page (`BeginsWithPart`, `StepOfPart`), so each theorem is an invariant of one
page's variables while it is mounted. What the operations on calls in flight do is stated once
(`Finished`, `Left`, `LeftDue`, `LeftDid`, `SomeLeft` and others): what is left when a call
leaves, what is newest, what was agreed to.

* `CardShowsItsRequestHolds`, `RowsForSelectionHolds`, `FilesAsNamedHolds`: the key kept with a
  result is the key of the call it came from (`CardInv`, `DashboardInv`), in whatever order
  answers come.
* `PreferencesSurviveHolds`, `ThemeAppliedHolds`: the two are inductive only together, and with
  the domains of `pref` and `cookies` (`ShellInv`).
* `UrlKeepsTableHolds` (`TableInv`), and `PagerReachesHolds` for any number of pages: by the cases
  in which the pager shows all pages, a beginning, a middle or an end.
* `ReportMatchesControlsHolds`, `SkeletonIsAwaitedHolds`, `GuessesBoundedHolds`,
  `ResendAllowedHolds`: the theorems of `RankReportProofs` and `SignInProofs` for the mounted
  page; lemmas show that the definitions of both instances are the same.
* `DisplayedPromptRankedHolds`: for each kind of load, the newest call is for what is selected
  and not overtaken, or all that are left were overtaken (`Due`, `Over` in `AnalyticsInv`).
* `GridFollowsServerHolds`: the cards differ from the server's projects by what the answers on
  their way will add, change and remove (`Matches`); a list overlaps no write (`OnlyListed`),
  and of a project's settings one change at most is under way (`OneUpdate`).
* `WaitingUserSeesOnePromptHolds`: a user who waits has at most one call in flight, which is for
  the prompt and the filters of the address (`ForPrompt`). The chart's query differs from every
  filter of the user before the first load, which `NoQuery \notin Filters` says.
* `SectionFollowsServerHolds`: `WorkInv` has a part that holds whatever was lost (`WorkBase`:
  the newest load is for the page of the pager, and only lines of lots are awaited by nobody),
  from which a load that repairs a failure starts, and a part for the time nothing is lost
  (`WorkFollows`): while no write in flight has changed the server (`Quiet`), the newest load
  brings what the server has (`LoadsBring`) or was received last, and then the section shows it
  (`Settled`); a load makes the availability of its prompts come too, but for those a run has
  changed since (`AvailabilityComes`, `SameAvailability`). A lot of which one line was refused
  is the hard case: lines that nobody awaits change the server later, but as long as they are
  in flight the refused lot is still to be received, and it is a failure (`LinesLeft`).
* `MergesArePreviewedHolds`, `RowsMatchControlsHolds`, `CountersFollowHolds`: one invariant of the
  administration page (`AdmInv`). `CallsKnown` says which calls are of the mounted tab and which
  are writes of tabs that were left; a tab that is mounted anew could otherwise receive what the
  one before asked for. `RowsFollow` says that the newest load of a paged tab is for its controls.
  `PreviewsFollow` says that at most one preview is on its way, that none is shown and nothing
  can be confirmed until it comes, and that what is shown is the preview of the key beside it.
  `CountsCome` says that the newest refresh brings the server's counters or brought them, unless
  a write that changed them is still to be received (`Changing`), which asks for them again.

Only model-checked: the liveness properties `JobsSettle`, `OldPromptsLeave`, `FailedSettles` and `CallEnds`,
which are out of the prover's reach; and `ReportsAgree`, which is about folds, whose value for
every input cannot be proved here.

## Not modelled, and the plan

Worth adding, in this order: organizations and their members; the merge of catalogue models.

Found while modelling and not followed further: `restore_prompt` does not repeat the check for
an active prompt with the same text; two executions that finish together may both insert an
alert (`alert_run_failure` reads before it writes); settings are cached for 30 seconds per process.

Left out for good: analytics queries and internal reports of the backend (read-only), the
retention function (one SQL call), migrations (run once), the Telegram relay (forwards), the
cache of settings (nothing compares two processes), alerts of a run (rows that users read). Of
the console:
pages and components with one load and no write (home, the shared report, run and search
metadata, the data of the radar), bulk actions of a table (they keep the place of the focus),
the headers and print views of exports, and the primitives of the component library.
