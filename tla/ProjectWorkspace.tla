-------------------------- MODULE ProjectWorkspace --------------------------
(***************************************************************************)
(* The page of a project (features/projects): its sections are mounted     *)
(* side by side, each with its own state, loads and writes.  One section   *)
(* is followed at a time.  Every write of a section is followed by a load  *)
(* of what it changed, once the write has been answered.                   *)
(***************************************************************************)
EXTENDS Requests, FiniteSets

CONSTANTS Texts,      \* texts a prompt can have, one prompt each
          Models,     \* AI models of the catalogue
          Queries,    \* search texts of the model picker, as what they match
          Rows,       \* observed brands, or alerts
          RunPages,   \* pages of the list of runs
          Tokens,     \* links to a shared report, numbered as created
          MaxFlight,  \* bound: calls in flight when the user acts
          MaxActs     \* bound: writes of the user

WorkspaceParameters ==
    /\ Queries \subseteq SUBSET Models /\ Models \in Queries
    /\ RunPages \in Nat \ {0} /\ Tokens \subseteq Nat \ {0}

VARIABLES section, page, server, net, past

vars == <<section, page, server, net, past>>

Sections == {"prompts", "competitors", "alerts", "runs", "report"}

NoPrompts == [t \in Texts |-> [status |-> "none", models |-> {}]]

\* What the page knows of the section, and how it looks at the beginning.
Init ==
    /\ section \in Sections
    /\ page = [prompts |-> NoPrompts, known |-> {}, ready |-> {}, draft |-> {}, selected |-> {},
               creating |-> FALSE, running |-> {}, rows |-> {}, number |-> 1,
               total |-> 0, shown |-> 0, share |-> 0, sharing |-> FALSE]
    /\ server \in [prompts : {[NoPrompts EXCEPT ![t] = [status |-> st, models |-> Models]] :
                                  t \in Texts, st \in {"active", "archived"}},
                   done : {{}}, failed : {{}}, queued : {{}}, begun : {{}},
                   rows : {Rows \X {0}}, live : {{}}, next : {1}]
    /\ net = IF section = "report" THEN <<>> ELSE Issue(<<>>, "load", 1)
    /\ past = [settled |-> FALSE, lost |-> FALSE, acts |-> 0, ran |-> {}]

Acting == Len(net) < MaxFlight /\ past.acts < MaxActs

On(s) == section = s

\* An event handler that only sets state, and one that starts a write.
SetPage(v) == page' = v /\ UNCHANGED <<section, server, net, past>>

Write(v, op, arg) ==
    /\ Acting
    /\ page' = v /\ net' = Issue(net, op, arg)
    /\ past' = [past EXCEPT !.acts = @ + 1]
    /\ UNCHANGED <<section, server>>

\* load(): prompts, brands or alerts; "settled" as soon as it is answered.  It
\* brings what calls that failed before it have left, unless lines that nobody
\* awaits are still to be served ("lost").
Load(n, number) ==
    /\ net' = Issue(n, "load", number)
    /\ past' = [past EXCEPT !.settled = FALSE, !.lost = @ /\ \E j \in DOMAIN n : n[j].gone]

Received(op, i) == net[i].op = op /\ ~Unserved(net, i) /\ Answer(net, i).ok

Body(i) == Answer(net, i).body

-----------------------------------------------------------------------------
(* PromptManagement *)

Active(prompts) == {t \in Texts : prompts[t].status = "active"}

\* A prompt that can run on some model today: "done" has the models, each with
\* its prompt, that have answered it today or have failed for good ("failed").
Ready(prompts, done) == {t \in Active(prompts) : prompts[t].models \X {t} \ done # {}}

SetText(lines) == On("prompts") /\ lines # page.draft /\ SetPage([page EXCEPT !.draft = lines])

\* The picker: a model, all the results of its search, or none of them.
ToggleModel(m) ==
    /\ On("prompts")
    /\ SetPage([page EXCEPT !.selected = IF m \in @ THEN @ \ {m} ELSE @ \cup {m}])

SelectVisible(q) ==
    /\ On("prompts") /\ ~(q \subseteq page.selected)
    /\ SetPage([page EXCEPT !.selected = @ \cup q])

DeselectVisible(q) ==
    /\ On("prompts") /\ q \cap page.selected # {}
    /\ SetPage([page EXCEPT !.selected = @ \ q])

\* Every line becomes a call of its own, all started together.
Create ==
    /\ On("prompts") /\ page.draft # {} /\ page.selected # {} /\ ~page.creating
    /\ Write([page EXCEPT !.creating = TRUE], "create",
             [texts |-> page.draft, models |-> page.selected])

\* Mutant of Created: the prompts are not loaded again.
CreatedUnloaded(i) ==
    /\ Received("create", i)
    /\ page' = [page EXCEPT !.draft = {}, !.selected = {}, !.creating = FALSE]
    /\ net' = Finish(net, i)
    /\ UNCHANGED <<section, server, past>>

\* Promise.all: every line has been answered.  The form opens again when the
\* load it awaits has ended, which changes nothing else.
Created(i) ==
    /\ Received("create", i)
    /\ page' = [page EXCEPT !.draft = {}, !.selected = {}, !.creating = FALSE]
    /\ Load(Finish(net, i), page.number)
    /\ UNCHANGED <<section, server>>

\* The prompts, and then what can be run today of those that are active: until
\* then the old availability stays.
PromptsLoaded(i) ==
    /\ On("prompts") /\ Received("load", i)
    /\ page' = [page EXCEPT !.prompts = Body(i).prompts]
    /\ net' = Issue(Finish(net, i), "ready", Body(i).prompts)
    /\ past' = [past EXCEPT !.settled = Newest(net, i) /\ ~InFlight(Finish(net, i), "ready"),
                            !.ran = {}]
    /\ UNCHANGED <<section, server>>

AvailabilityLoaded(i) ==
    /\ Received("ready", i)
    /\ page' = [page EXCEPT !.known = Body(i).known, !.ready = Body(i).ready]
    /\ net' = Finish(net, i)
    /\ past' = [past EXCEPT !.settled = @ /\ Newest(net, i)]
    /\ UNCHANGED <<section, server>>

\* update(): an action on one prompt, and then load().
Archive(t) ==
    On("prompts") /\ page.prompts[t].status = "active" /\ Write(page, "archive", t)

Restore(t) ==
    On("prompts") /\ page.prompts[t].status = "archived" /\ Write(page, "restore", t)

AddModel(t, m) ==
    /\ On("prompts") /\ page.prompts[t].status = "active" /\ m \notin page.prompts[t].models
    /\ Write(page, "addModel", <<t, m>>)

RemoveModel(t, m) ==
    /\ On("prompts") /\ page.prompts[t].status = "active" /\ m \in page.prompts[t].models
    /\ Write(page, "removeModel", <<t, m>>)

\* The button of the card, also offered while nothing is known of the prompt;
\* its availability is asked for again before anything runs
\* (runAvailablePromptModels).
Run(t) ==
    /\ On("prompts") /\ t \in Active(page.prompts) /\ t \notin page.running
    /\ t \in page.known => t \in page.ready
    /\ Write([page EXCEPT !.running = @ \cup {t}], "run", t)

Updated(i) ==
    /\ \E op \in {"archive", "restore", "addModel", "removeModel", "run"} : Received(op, i)
    /\ page' = IF net[i].op = "run" THEN [page EXCEPT !.running = @ \ {net[i].arg}] ELSE page
    /\ Load(Finish(net, i), page.number)
    /\ UNCHANGED <<section, server>>

-----------------------------------------------------------------------------
(* CompetitorSettings and AlertInbox: rows, and a write for one of them.  A *)
(* row is a brand with the number of its row, or an alert with 1 once read. *)

RowsLoaded(i) ==
    /\ section \in {"competitors", "alerts"} /\ Received("load", i)
    /\ page' = [page EXCEPT !.rows = Body(i).rows]
    /\ net' = Finish(net, i)
    /\ past' = [past EXCEPT !.settled = Newest(net, i)]
    /\ UNCHANGED <<section, server>>

\* A brand that is no competitor on the page yet, chosen in the list; when it is
\* one on the server, the server refuses it.
AddCompetitor(b) ==
    On("competitors") /\ b \notin {row[1] : row \in page.rows} /\ Write(page, "add", b)

RemoveCompetitor(row) == On("competitors") /\ row \in page.rows /\ Write(page, "remove", row)

\* An alert that was read stays in the list.
ReadAlert(row) == On("alerts") /\ row \in page.rows /\ Write(page, "read", row[1])

RowWritten(i) ==
    /\ \E op \in {"add", "remove", "read"} : Received(op, i)
    /\ Load(Finish(net, i), page.number)
    /\ UNCHANGED <<section, server, page>>

-----------------------------------------------------------------------------
(* ProjectRuns: the effect on the page loads it *)

SetRunsPage(n) ==
    /\ On("runs") /\ Len(net) < MaxFlight /\ n \in 1 .. page.total
    /\ n \in {page.number - 1, page.number + 1}
    /\ page' = [page EXCEPT !.number = n]
    /\ Load(net, n)
    /\ UNCHANGED <<section, server>>

RunsLoaded(i) ==
    /\ On("runs") /\ Received("load", i)
    /\ page' = [page EXCEPT !.shown = net[i].arg, !.total = RunPages]
    /\ net' = Finish(net, i)
    /\ past' = [past EXCEPT !.settled = Newest(net, i)]
    /\ UNCHANGED <<section, server>>

-----------------------------------------------------------------------------
(* ReportActions: a link to a shared report *)

CreateShare ==
    On("report") /\ ~page.sharing /\ Write([page EXCEPT !.sharing = TRUE], "share", {})

ShareCreated(i) ==
    /\ Received("share", i)
    /\ page' = [page EXCEPT !.share = Body(i), !.sharing = FALSE]
    /\ net' = Finish(net, i)
    /\ UNCHANGED <<section, server, past>>

RevokeShare == On("report") /\ page.share # 0 /\ Write(page, "revoke", page.share)

\* Whatever link is shown by now, it goes.
ShareRevoked(i) ==
    /\ Received("revoke", i)
    /\ page' = [page EXCEPT !.share = 0]
    /\ net' = Finish(net, i)
    /\ UNCHANGED <<section, server, past>>

-----------------------------------------------------------------------------
(* Failures and the server *)

CallFails(i) ==
    /\ ~net[i].gone
    /\ page' = CASE net[i].op = "create" -> [page EXCEPT !.creating = FALSE]
                 [] net[i].op = "run" -> [page EXCEPT !.running = @ \ {net[i].arg}]
                 [] net[i].op = "share" -> [page EXCEPT !.sharing = FALSE]
                 [] OTHER -> page
    /\ net' = Finish(net, i)
    /\ past' = [past EXCEPT !.lost = TRUE]
    /\ UNCHANGED <<section, server>>

Status(t) == server.prompts[t].status

\* The lines of a batch are served one by one.  One that is refused, as a text
\* that is already active, fails the batch at once; the lines that are left are
\* served all the same, and nobody awaits them (gone).  A text that was archived
\* becomes a new prompt, which no model has run.
ServeCreate(i) ==
    /\ net[i].op = "create" /\ Unserved(net, i)
    /\ LET a == net[i].arg
           made == [status |-> "active", models |-> a.models]
           others(set, t) == {run \in set : run[2] # t}
       IN \E t \in a.texts :
            LET left == [Call("create", [a EXCEPT !.texts = @ \ {t}]) EXCEPT !.gone = net[i].gone]
                one == a.texts = {t}
            IN IF Status(t) = "active"
               THEN /\ UNCHANGED server
                    /\ net' = LET n == IF one THEN net
                                       ELSE Append(net, [left EXCEPT !.gone = TRUE])
                              IN IF net[i].gone
                                 THEN RemoveAt(n, i) ELSE Serve(n, i, FALSE, {})
               ELSE /\ server' = [server EXCEPT !.prompts[t] = made, !.done = others(@, t),
                                     !.failed = others(@, t), !.queued = others(@, t),
                                     !.begun = others(@, t)]
                    /\ net' = CASE ~one -> [net EXCEPT ![i] = left]
                                [] one /\ net[i].gone -> RemoveAt(net, i)
                                [] OTHER -> Serve(net, i, TRUE, {})
    /\ UNCHANGED <<section, page, past>>

Ok(c) ==
    CASE c.op = "restore" -> Status(c.arg) = "archived"
      [] c.op = "run" -> c.arg \in Ready(server.prompts, server.done)
      [] c.op = "revoke" -> c.arg \in server.live
      [] c.op = "add" -> c.arg \notin {row[1] : row \in server.rows}
      [] c.op = "remove" -> c.arg \in server.rows
      [] c.op = "share" -> server.next \in Tokens
      [] OTHER -> TRUE

\* A run is only queued, for every model that can run the prompt, and answered
\* with "queued".
Effect(c) ==
    CASE c.op = "archive" -> [server EXCEPT !.prompts[c.arg].status = "archived"]
      [] c.op = "restore" -> [server EXCEPT !.prompts[c.arg].status = "active"]
      [] c.op = "addModel" -> [server EXCEPT !.prompts[c.arg[1]].models = @ \cup {c.arg[2]}]
      [] c.op = "removeModel" -> [server EXCEPT !.prompts[c.arg[1]].models = @ \ {c.arg[2]}]
      [] c.op = "run" ->
           [server EXCEPT !.queued = @ \cup {<<m, c.arg, server.next>> :
                              m \in {k \in server.prompts[c.arg].models :
                                        <<k, c.arg>> \notin server.done}},
                          !.next = @ + 1]
      [] c.op = "add" -> [server EXCEPT !.rows = @ \cup {<<c.arg, server.next>>}, !.next = @ + 1]
      [] c.op = "remove" -> [server EXCEPT !.rows = @ \ {c.arg}]
      [] c.op = "read" -> [server EXCEPT !.rows = (@ \ {<<c.arg, 0>>}) \cup {<<c.arg, 1>>}]
      [] c.op = "share" -> [server EXCEPT !.live = @ \cup {server.next}, !.next = @ + 1]
      [] c.op = "revoke" -> [server EXCEPT !.live = @ \ {c.arg}]
      [] OTHER -> server

AnswerTo(c) ==
    CASE c.op = "load" -> [prompts |-> server.prompts, rows |-> server.rows]
      [] c.op = "ready" -> [known |-> Active(c.arg),
                            ready |-> Ready(server.prompts, server.done) \cap Active(c.arg)]
      [] c.op = "share" -> server.next
      [] OTHER -> {}

Served(i) ==
    /\ Unserved(net, i) /\ net[i].op # "create"
    /\ server' = IF Ok(net[i]) THEN Effect(net[i]) ELSE server
    /\ net' = Serve(net, i, Ok(net[i]), AnswerTo(net[i]))
    /\ UNCHANGED <<section, page, past>>

\* _execute_prompt_run, a background task <<model, text, number>> of the server:
\* it ends at once when the prompt has been archived, or lost the model.
\* Otherwise it resets the day's row of the model when that has failed for good.
PromptRunStarts(task) ==
    LET m == task[1]
        t == task[2]
        reset == {<<m, t>>} \cap server.failed
        starts == Status(t) = "active" /\ m \in server.prompts[t].models
    IN /\ task \in server.queued
       /\ server' = IF starts
                    THEN [server EXCEPT !.queued = @ \ {task}, !.begun = @ \cup {task},
                                        !.done = @ \ reset, !.failed = @ \ reset]
                    ELSE [server EXCEPT !.queued = @ \ {task}]
       /\ past' = [past EXCEPT !.ran = IF starts /\ reset # {} THEN @ \cup {t} ELSE @]
       /\ UNCHANGED <<section, page, net>>

\* The model has answered, has failed for good, or the row stays to be run: the
\* call is to be retried, another run has its lock, or it was done already.
PromptRunEnds(task) ==
    LET t == task[2]
        run == {<<task[1], t>>}
    IN /\ task \in server.begun
       /\ \/ /\ run \cap server.done = {}
             /\ \E failed \in {{}, run} :
                  server' = [server EXCEPT !.begun = @ \ {task}, !.done = @ \cup run,
                                           !.failed = @ \cup failed]
             /\ past' = [past EXCEPT !.ran = @ \cup {t}]
          \/ server' = [server EXCEPT !.begun = @ \ {task}] /\ UNCHANGED past
       /\ UNCHANGED <<section, page, net>>

PromptManagement ==
    \/ \E lines \in SUBSET Texts : SetText(lines)
    \/ \E m \in Models : ToggleModel(m)
    \/ \E q \in Queries : SelectVisible(q) \/ DeselectVisible(q)
    \/ Create
    \/ \E t \in Texts :
         \/ Archive(t) \/ Restore(t) \/ Run(t)
         \/ \E m \in Models : AddModel(t, m) \/ RemoveModel(t, m)

CompetitorSettings ==
    \/ \E b \in Rows : AddCompetitor(b)
    \/ \E row \in page.rows : RemoveCompetitor(row)

AlertInbox == \E row \in page.rows : ReadAlert(row)

ProjectRuns == \E n \in 1 .. RunPages : SetRunsPage(n)

ReportActions == CreateShare \/ RevokeShare

Answers ==
    \E i \in DOMAIN net :
        \/ Created(i) \/ PromptsLoaded(i) \/ AvailabilityLoaded(i) \/ Updated(i)
        \/ RowsLoaded(i) \/ RowWritten(i) \/ RunsLoaded(i)
        \/ ShareCreated(i) \/ ShareRevoked(i)
        \/ CallFails(i) \/ ServeCreate(i) \/ Served(i)

BackgroundTasks ==
    \/ \E task \in server.queued : PromptRunStarts(task)
    \/ \E task \in server.begun : PromptRunEnds(task)

Next ==
    \/ PromptManagement \/ CompetitorSettings \/ AlertInbox \/ ProjectRuns
    \/ ReportActions \/ Answers \/ BackgroundTasks

Spec == Init /\ [][Next]_vars

-----------------------------------------------------------------------------
(* Properties *)

\* When everything the user asked for has been answered and the newest load was
\* received last, with no call failed since it was made, the section shows what
\* the server holds: the prompts with their models and which of them can run
\* today, the competitors or alerts, the page of runs of the pager.  A run goes
\* on after it was answered, and its end is not told to the page: whether a
\* prompt can run is what it was before the runs that have changed it since the
\* page asked ("ran").
SectionFollowsServer ==
    net = <<>> /\ past.settled /\ ~past.lost =>
        CASE section = "prompts" ->
               /\ page.prompts = server.prompts /\ page.known = Active(server.prompts)
               /\ page.ready \ past.ran = Ready(server.prompts, server.done) \ past.ran
          [] section = "runs" -> page.shown = page.number
          [] OTHER -> page.rows = server.rows
=============================================================================
