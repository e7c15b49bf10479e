---------------------------- MODULE AdminConsole ----------------------------
(***************************************************************************)
(* The administration page (features/admin/admin-panel.tsx): seven tabs,   *)
(* of which one is mounted at a time, over the calls of lib/api.ts.        *)
(*                                                                         *)
(* "view" is the React state of the mounted tab: a tab that is left loses  *)
(* its state, and a tab that is opened starts from its initial state and   *)
(* loads.  The counters above the tabs stay mounted.  A write that was in  *)
(* flight when its tab was left is still served, and its continuation      *)
(* still refreshes the counters (onLoaded).                                *)
(***************************************************************************)
EXTENDS Requests

CONSTANTS ModelKeys,     \* keys of AI models
          Prompts,       \* prompts of all projects
          Terms,         \* search terms, as the sets of prompts they match
          Queries,       \* search texts of the two paged tabs
          PageCount,     \* PageCount[q]: pages the server has for the text q
          Brands,        \* brands
          MaxFlight,     \* bound: calls in flight when the admin acts
          MaxSwitches    \* bound: changes of the tab

AdminParameters ==
    /\ Terms \subseteq SUBSET Prompts
    /\ Prompts \in Terms                        \* the empty search text
    /\ "" \in Queries /\ PageCount \in [Queries -> Nat \ {0}]
    /\ MaxFlight \in Nat \ {0} /\ MaxSwitches \in Nat

VARIABLES tab,        \* the mounted tab
          view,       \* its state
          overview,   \* the counters above the tabs
          net,        \* the calls in flight
          server,     \* what the server holds
          asked,      \* history: the merge asked for last, with the preview
                      \* that was on the screen
          lost,       \* history: some call failed
          switches    \* counter of the bound on changes of the tab

vars == <<tab, view, overview, net, server, asked, lost, switches>>

PagedTabs == {"references", "queries"}
Tabs == {"models", "prompts", "extraction", "brands", "costs"} \cup PagedTabs

\* Extraction settings: the default ones, an edited text, and an edited text
\* that lost its {response_text} placeholder.
Settings == {"default", "edited", "broken"}

None == [canonical |-> "none", sources |-> {}, clash |-> FALSE]

Writes == {"save", "toggle", "saveSettings", "resetSettings", "merge"}

Ready == Len(net) < MaxFlight

\* The counters AdminOverview computes from what this page can change.
Counts(s) == [models |-> s.active, prompts |-> s.prompts]

-----------------------------------------------------------------------------
(* Mounting a tab: its useState values and the loads of its effects *)

ModelsState ==
    [rows |-> {}, on |-> {}, gateway |-> {}, loading |-> TRUE,
     syncing |-> FALSE, saving |-> FALSE]

PromptsState ==
    [rows |-> {}, loading |-> TRUE, archived |-> TRUE, search |-> Prompts,
     timer |-> TRUE]

ExtractionState ==
    [settings |-> "empty", draft |-> "empty", loading |-> TRUE, saving |-> FALSE]

ReferencesState(q) ==
    [page |-> 1, total |-> 1, query |-> q, shown |-> <<q, 1>>,
     loading |-> TRUE, settled |-> FALSE]

SearchQueriesState(q) ==
    [page |-> 1, total |-> 1, query |-> q, shown |-> <<q, 1>>,
     loading |-> TRUE, settled |-> FALSE, exporting |-> FALSE]

BrandsState ==
    [list |-> {}, canonical |-> "none", sources |-> {}, preview |-> None,
     key |-> None, previewing |-> FALSE, merging |-> FALSE,
     confirm |-> FALSE, loading |-> TRUE]

CostsState == [items |-> FALSE]

NoQuery == ""      \* the empty search text

Mounted(t) ==
    CASE t = "models" -> ModelsState
      [] t = "prompts" -> PromptsState
      [] t = "extraction" -> ExtractionState
      [] t = "references" -> ReferencesState(NoQuery)
      [] t = "queries" -> SearchQueriesState(NoQuery)
      [] t = "brands" -> BrandsState
      [] t = "costs" -> CostsState

MountCalls(n, t) ==
    CASE t = "prompts" -> n                       \* its load waits for a timer
      [] t \in PagedTabs -> Issue(n, t, <<NoQuery, 1>>)
      [] t = "brands" -> Issue(n, t, "mount")
      [] OTHER -> Issue(n, t, {})

AdminPanel ==
    /\ tab = "models"
    /\ view = Mounted("models")
    /\ overview = [counts |-> [models |-> {}, prompts |-> {}], settled |-> FALSE]
    /\ net = MountCalls(Issue(<<>>, "overview", {}), "models")

Init ==
    /\ AdminPanel
    /\ server \in [rows : {ModelKeys}, active : {{}, ModelKeys},
                   prompts : {Prompts}, settings : {"default"}, brands : {Brands}]
    /\ asked = {} /\ lost = FALSE /\ switches = 0

\* Where the calls of ops are among those in flight, in their order.
Places(ops) ==
    {p \in UNION {[1 .. k -> DOMAIN net] : k \in 0 .. Len(net)} :
        /\ \A a, b \in DOMAIN p : a < b => p[a] < p[b]
        /\ {p[a] : a \in DOMAIN p} = {i \in DOMAIN net : net[i].op \in ops}}

\* The mounted tab is replaced: reads of the old one no longer matter.
SelectTab(t) ==
    /\ t # tab /\ Ready /\ switches < MaxSwitches
    /\ switches' = switches + 1
    /\ tab' = t /\ view' = Mounted(t)
    /\ \E p \in Places(Writes \cup {"overview"}) :
          LET kept == [a \in DOMAIN p |-> net[p[a]]]
              Left(c) == c.op \in Writes
          IN net' = MountCalls(Unmount(kept, Left), t)
    /\ UNCHANGED <<overview, server, asked, lost>>

On(t) == tab = t

\* An event handler of the mounted tab that only sets state.
SetView(v) ==
    /\ view' = v
    /\ UNCHANGED <<tab, overview, net, server, asked, lost, switches>>

\* A handler that sets state and starts a call.
SetAndCall(v, op, arg) ==
    /\ Ready
    /\ view' = v /\ net' = Issue(net, op, arg)
    /\ UNCHANGED <<tab, overview, server, asked, lost, switches>>

\* The continuation of call i: sets state, and may start the next call.
Continue(i, v, n) ==
    /\ view' = v /\ net' = n
    /\ UNCHANGED <<tab, overview, server, asked, lost, switches>>

Received(op, i) ==
    /\ net[i].op = op /\ ~net[i].gone /\ ~Unserved(net, i) /\ Answer(net, i).ok

Body(i) == Answer(net, i).body

\* onLoaded: the counters are loaded again.
RefreshOverview(n) == Issue(n, "overview", {})

-----------------------------------------------------------------------------
(* ModelsTab *)

ModelsLoaded(i) ==
    /\ Received("models", i)
    /\ Continue(i, [view EXCEPT !.rows = Body(i).rows, !.on = Body(i).active,
                                !.gateway = Body(i).rows, !.loading = FALSE],
                Finish(net, i))

\* A switch of the table: rows of the gateway list the catalogue lacks are added.
ToggleModel(k) ==
    /\ On("models") /\ ~view.loading /\ k \in view.gateway
    /\ SetView([view EXCEPT !.rows = @ \cup {k},
                            !.on = IF k \in @ THEN @ \ {k} ELSE @ \cup {k}])

DisableAll ==
    /\ On("models") /\ ~view.loading /\ ~view.saving
    /\ SetView([view EXCEPT !.on = {}])

SyncGateway ==
    /\ On("models") /\ ~view.syncing
    /\ SetAndCall([view EXCEPT !.syncing = TRUE], "sync", {})

GatewaySynced(i) ==
    /\ Received("sync", i)
    /\ Continue(i, [view EXCEPT !.gateway = Body(i), !.syncing = FALSE],
                Finish(net, i))

SaveModels ==
    /\ On("models") /\ ~view.loading /\ ~view.saving
    /\ SetAndCall([view EXCEPT !.saving = TRUE], "save",
                  [gateway |-> view.gateway, on |-> view.on])

ModelsSaved(i) ==
    /\ Received("save", i)
    /\ Continue(i, [view EXCEPT !.rows = Body(i).rows, !.on = Body(i).active,
                                !.saving = FALSE],
                RefreshOverview(Finish(net, i)))

-----------------------------------------------------------------------------
(* PromptsTab *)

\* The effect on [load, search]: every change of a parameter restarts the timer.
FilterPrompts(archived, search) ==
    /\ On("prompts") /\ <<archived, search>> # <<view.archived, view.search>>
    /\ \/ archived = view.archived
       \/ search = view.search
    /\ SetView([view EXCEPT !.archived = archived, !.search = search, !.timer = TRUE])

PromptsTimer ==
    /\ On("prompts") /\ view.timer
    /\ SetAndCall([view EXCEPT !.timer = FALSE, !.loading = TRUE],
                  "prompts", [archived |-> view.archived, search |-> view.search])

PromptsLoaded(i) ==
    /\ Received("prompts", i)
    /\ Continue(i, [view EXCEPT !.rows = Body(i), !.loading = FALSE],
                Finish(net, i))

\* The rows are shown only while no load is in progress.
TogglePrompt(row) ==
    /\ On("prompts") /\ ~view.loading /\ row \in view.rows
    /\ SetAndCall(view, "toggle",
                  [id |-> row.id, on |-> ~row.on, archived |-> view.archived])

PromptToggled(i) ==
    /\ Received("toggle", i)
    /\ LET a == net[i].arg
           others == {r \in view.rows : r.id # a.id}
           known == others # view.rows
       IN Continue(i, [view EXCEPT !.rows =
                          IF known /\ (a.archived \/ a.on)
                          THEN others \cup {[id |-> a.id, on |-> a.on]} ELSE others],
                   RefreshOverview(Finish(net, i)))

-----------------------------------------------------------------------------
(* ExtractionTab *)

Apply(v, s) == [v EXCEPT !.settings = s, !.draft = s]

SettingsLoaded(i) ==
    /\ Received("extraction", i)
    /\ Continue(i, [Apply(view, Body(i)) EXCEPT !.loading = FALSE], Finish(net, i))

EditDraft(s) ==
    /\ On("extraction") /\ ~view.loading /\ s # view.draft
    /\ SetView([view EXCEPT !.draft = s])

Dirty == view.settings # view.draft

CancelDraft ==
    /\ On("extraction") /\ ~view.loading /\ Dirty
    /\ SetView([view EXCEPT !.draft = view.settings])

\* '{response_text}' in draft asks for a property of that name, which a draft
\* never has: the check of the placeholder is never made here.
ClientRefuses(draft) == FALSE

SaveSettings ==
    /\ On("extraction") /\ ~view.loading /\ Dirty /\ ~view.saving
    /\ ~ClientRefuses(view.draft)
    /\ SetAndCall([view EXCEPT !.saving = TRUE], "saveSettings", view.draft)

SettingsSaved(i) ==
    /\ Received("saveSettings", i)
    /\ Continue(i, [Apply(view, Body(i)) EXCEPT !.saving = FALSE], Finish(net, i))

ResetSettings ==
    /\ On("extraction") /\ ~view.loading
    /\ SetAndCall(view, "resetSettings", {})

SettingsReset(i) ==
    /\ Received("resetSettings", i)
    /\ Continue(i, Apply(view, Body(i)), Finish(net, i))

-----------------------------------------------------------------------------
(* ReferencesTab and SearchQueriesTab: the effect on [query, page] loads *)

\* Mutant of ShowPage: the effect depends on the text only.
ShowPageUnloaded(q, p) ==
    /\ tab \in PagedTabs /\ <<q, p>> # <<view.query, view.page>>
    /\ IF q = view.query THEN SetView([view EXCEPT !.page = p])
       ELSE SetAndCall([view EXCEPT !.query = q, !.page = p, !.loading = TRUE,
                                    !.settled = FALSE], tab, <<q, p>>)

ShowPage(q, p) ==
    /\ tab \in PagedTabs /\ <<q, p>> # <<view.query, view.page>>
    /\ SetAndCall([view EXCEPT !.query = q, !.page = p, !.loading = TRUE,
                               !.settled = FALSE], tab, <<q, p>>)

\* The form: setPage(1); setQuery(search.trim()).
SubmitSearch(q) == tab \in PagedTabs /\ ShowPage(q, 1)

\* The pager compares with the total of the rows it shows, whatever they are for.
TotalPages(v) == IF v.total > 1 THEN v.total ELSE 1

NextPage == tab \in PagedTabs /\ view.page < TotalPages(view) /\ ShowPage(view.query, view.page + 1)

PreviousPage == tab \in PagedTabs /\ view.page > 1 /\ ShowPage(view.query, view.page - 1)

ReferencesLoaded(i) ==
    /\ \E t \in PagedTabs : Received(t, i)
    /\ Continue(i, [view EXCEPT !.shown = net[i].arg, !.total = Body(i),
                                !.loading = FALSE, !.settled = Newest(net, i)],
                Finish(net, i))

ExportCsv ==
    /\ On("queries") /\ ~view.exporting
    /\ SetAndCall([view EXCEPT !.exporting = TRUE], "export", view.query)

CsvExported(i) ==
    /\ Received("export", i)
    /\ Continue(i, [view EXCEPT !.exporting = FALSE], Finish(net, i))

-----------------------------------------------------------------------------
(* BrandsTab *)

Key(v) == [canonical |-> v.canonical, sources |-> v.sources, clash |-> FALSE]

PreviewIsCurrent ==
    /\ view.preview # None
    /\ view.key = Key(view)

Idle == ~view.previewing /\ ~view.merging /\ ~view.confirm

UpdateSources(v, next) == [v EXCEPT !.sources = next, !.preview = None]

SelectCanonical(b) ==
    /\ On("brands") /\ Idle /\ b \in view.list /\ b # view.canonical
    /\ SetView(UpdateSources([view EXCEPT !.canonical = b], view.sources \ {b}))

\* The check box of a brand; disabled on the canonical brand.
ToggleSource(b) ==
    /\ On("brands") /\ Idle /\ b \in view.list /\ b # view.canonical
    /\ SetView(UpdateSources(view, IF b \in view.sources THEN view.sources \ {b}
                                   ELSE view.sources \cup {b}))

PreviewMerge ==
    /\ On("brands") /\ Idle /\ view.canonical # "none" /\ view.sources # {}
    /\ SetAndCall([view EXCEPT !.previewing = TRUE, !.preview = None], "preview", Key(view))

\* The key is the one of the selection the call was made with.
MergePreviewed(i) ==
    /\ Received("preview", i)
    /\ Continue(i, [view EXCEPT !.preview = Body(i), !.key = net[i].arg,
                                !.previewing = FALSE], Finish(net, i))

\* Mutant of OpenConfirm: the button does not look at the conflicts.
OpenConfirmAnyway ==
    /\ On("brands") /\ ~view.merging /\ PreviewIsCurrent
    /\ SetView([view EXCEPT !.confirm = TRUE])

\* The button is there only for a current preview without conflicts.
OpenConfirm ==
    /\ On("brands") /\ ~view.merging /\ PreviewIsCurrent /\ ~view.preview.clash
    /\ SetView([view EXCEPT !.confirm = TRUE])

CloseConfirm ==
    /\ On("brands") /\ view.confirm /\ ~view.merging
    /\ SetView([view EXCEPT !.confirm = FALSE])

Merge ==
    /\ On("brands") /\ view.confirm /\ ~view.merging /\ PreviewIsCurrent /\ Ready
    /\ view' = [view EXCEPT !.merging = TRUE]
    /\ net' = Issue(net, "merge", Key(view))
    /\ asked' = {[merge |-> Key(view), seen |-> view.preview]}
    /\ UNCHANGED <<tab, overview, server, lost, switches>>

\* merge() closes the dialog, clears the selection and awaits load().
Merged(i) ==
    /\ Received("merge", i)
    /\ Continue(i, [view EXCEPT !.confirm = FALSE, !.sources = {}, !.preview = None,
                                !.key = None],
                Issue(Finish(net, i), "brands", "merge"))

\* load(); when merge() awaits it, its end is also the end of merge().
BrandsLoaded(i) ==
    /\ Received("brands", i)
    /\ Continue(i, [view EXCEPT !.list = Body(i), !.loading = FALSE,
                                !.canonical = IF @ \in Body(i) THEN @ ELSE "none",
                                !.merging = @ /\ net[i].arg # "merge"],
                Finish(net, i))

-----------------------------------------------------------------------------
(* CostsTab and the counters *)

CostsLoaded(i) ==
    /\ Received("costs", i)
    /\ Continue(i, [view EXCEPT !.items = TRUE], Finish(net, i))

OverviewLoaded(i) ==
    /\ Received("overview", i)
    /\ overview' = [counts |-> Body(i), settled |-> Newest(net, i)]
    /\ net' = Finish(net, i)
    /\ UNCHANGED <<tab, view, server, asked, lost, switches>>

\* Mutant of OrphanAnswered: nothing is left of the continuation.
OrphanForgotten(i) ==
    /\ net[i].gone /\ ~Unserved(net, i)
    /\ net' = Finish(net, i)
    /\ lost' = (lost \/ ~Answer(net, i).ok)
    /\ UNCHANGED <<tab, view, overview, server, asked, switches>>

\* The continuation of a write whose tab is gone: only onLoaded is left of it.
OrphanAnswered(i) ==
    /\ net[i].gone /\ ~Unserved(net, i)
    /\ net' = IF Answer(net, i).ok /\ net[i].op \in {"save", "toggle"}
              THEN RefreshOverview(Finish(net, i)) ELSE Finish(net, i)
    /\ lost' = (lost \/ ~Answer(net, i).ok)
    /\ UNCHANGED <<tab, view, overview, server, asked, switches>>

-----------------------------------------------------------------------------
(* The server, as far as the page depends on it, and failures *)

Served(i, ok, body) ==
    /\ net' = Serve(net, i, ok, body)
    /\ UNCHANGED <<tab, view, overview, asked, lost, switches>>

\* The calls that only read: their answer is what the server holds when it
\* serves them.
ReadBody(c) ==
    CASE c.op = "overview" -> Counts(server)
      [] c.op = "models" -> [rows |-> server.rows, active |-> server.active]
      [] c.op = "prompts" ->
           {r \in [id : c.arg.search, on : BOOLEAN] :
                /\ r.on = (r.id \in server.prompts)
                /\ r.on \/ c.arg.archived}
      [] c.op = "extraction" -> server.settings
      [] c.op \in PagedTabs -> PageCount[c.arg[1]]
      [] c.op = "brands" -> server.brands
      [] OTHER -> {}

ServeRead(i) ==
    /\ Unserved(net, i) /\ net[i].op \notin Writes \cup {"sync", "preview"}
    /\ Served(i, TRUE, ReadBody(net[i]))
    /\ UNCHANGED server

\* The gateway lists some of the models; nothing is stored.
ServeSync(i) ==
    /\ Unserved(net, i) /\ net[i].op = "sync"
    /\ \E listed \in SUBSET ModelKeys : Served(i, TRUE, listed)
    /\ UNCHANGED server

\* save_gateway_selection: a model the list lacks is switched off.
ServeSave(i) ==
    /\ Unserved(net, i) /\ net[i].op = "save"
    /\ LET a == net[i].arg
           rows == server.rows \cup a.gateway
           active == a.gateway \cap a.on
       IN /\ server' = [server EXCEPT !.rows = rows, !.active = active]
          /\ Served(i, TRUE, [rows |-> rows, active |-> active])

ServeToggle(i) ==
    /\ Unserved(net, i) /\ net[i].op = "toggle"
    /\ server' = [server EXCEPT !.prompts = IF net[i].arg.on THEN @ \cup {net[i].arg.id}
                                            ELSE @ \ {net[i].arg.id}]
    /\ Served(i, TRUE, {})

\* update_extraction_settings refuses a prompt without its placeholder.
ServerRefuses(draft) == draft \in {"broken", "empty"}

ServeSettings(i) ==
    /\ Unserved(net, i) /\ net[i].op \in {"saveSettings", "resetSettings"}
    /\ LET new == IF net[i].op = "resetSettings" THEN "default" ELSE net[i].arg
           ok == net[i].op = "resetSettings" \/ ~ServerRefuses(new)
       IN /\ server' = IF ok THEN [server EXCEPT !.settings = new] ELSE server
          /\ Served(i, ok, new)

\* A preview, and a merge, need all their brands; a clash of names with other
\* brands may come up at any time and refuses the merge.
ServePreview(i) ==
    /\ Unserved(net, i) /\ net[i].op = "preview"
    /\ LET a == net[i].arg IN
       \E clash \in BOOLEAN :
           Served(i, a.sources \cup {a.canonical} \subseteq server.brands,
                  [a EXCEPT !.clash = clash])
    /\ UNCHANGED server

ServeMerge(i) ==
    /\ Unserved(net, i) /\ net[i].op = "merge"
    /\ LET a == net[i].arg IN
       \E ok \in {FALSE, a.sources \cup {a.canonical} \subseteq server.brands} :
           /\ server' = IF ok THEN [server EXCEPT !.brands = @ \ a.sources] ELSE server
           /\ Served(i, ok, a)

\* What the catch and finally blocks do with a call that failed.
Failed(v, c) ==
    CASE c.op \in {"models", "prompts", "extraction"} \cup PagedTabs ->
             [v EXCEPT !.loading = FALSE]
      [] c.op = "brands" -> [v EXCEPT !.loading = FALSE,
                                      !.merging = @ /\ c.arg # "merge"]
      [] c.op \in {"save", "saveSettings"} -> [v EXCEPT !.saving = FALSE]
      [] c.op = "sync" -> [v EXCEPT !.syncing = FALSE]
      [] c.op = "preview" -> [v EXCEPT !.previewing = FALSE]
      [] c.op = "merge" -> [v EXCEPT !.merging = FALSE]
      [] c.op = "export" -> [v EXCEPT !.exporting = FALSE]
      [] OTHER -> v

\* An error status, or no answer at all: before or after the call was served.
CallFails(i) ==
    /\ ~net[i].gone
    /\ view' = Failed(view, net[i])
    /\ net' = Finish(net, i)
    /\ lost' = TRUE
    /\ UNCHANGED <<tab, overview, server, asked, switches>>

-----------------------------------------------------------------------------

ModelsTab ==
    \/ \E k \in ModelKeys : ToggleModel(k)
    \/ DisableAll \/ SyncGateway \/ SaveModels
    \/ \E i \in DOMAIN net : ModelsLoaded(i) \/ GatewaySynced(i) \/ ModelsSaved(i)

PromptsTab ==
    \/ \E archived \in BOOLEAN, search \in Terms : FilterPrompts(archived, search)
    \/ PromptsTimer
    \/ \E row \in [id : Prompts, on : BOOLEAN] : TogglePrompt(row)
    \/ \E i \in DOMAIN net : PromptsLoaded(i) \/ PromptToggled(i)

ExtractionTab ==
    \/ \E s \in Settings : EditDraft(s)
    \/ CancelDraft \/ SaveSettings \/ ResetSettings
    \/ \E i \in DOMAIN net : SettingsLoaded(i) \/ SettingsSaved(i) \/ SettingsReset(i)

ReferencesTab ==
    \/ \E q \in Queries : SubmitSearch(q)
    \/ NextPage \/ PreviousPage
    \/ \E i \in DOMAIN net : ReferencesLoaded(i)

SearchQueriesTab == ExportCsv \/ \E i \in DOMAIN net : CsvExported(i)

BrandsTab ==
    \/ \E b \in Brands : SelectCanonical(b) \/ ToggleSource(b)
    \/ PreviewMerge \/ OpenConfirm \/ CloseConfirm \/ Merge
    \/ \E i \in DOMAIN net : MergePreviewed(i) \/ Merged(i) \/ BrandsLoaded(i)

CostsTab == \E i \in DOMAIN net : CostsLoaded(i)

Server ==
    \E i \in DOMAIN net :
        \/ ServeRead(i) \/ ServeSync(i) \/ ServeSave(i) \/ ServeToggle(i)
        \/ ServeSettings(i) \/ ServePreview(i) \/ ServeMerge(i)

Network == \E i \in DOMAIN net : OverviewLoaded(i) \/ OrphanAnswered(i) \/ CallFails(i)

Next ==
    \/ \E t \in Tabs : SelectTab(t)
    \/ ModelsTab \/ PromptsTab \/ ExtractionTab \/ ReferencesTab
    \/ SearchQueriesTab \/ BrandsTab \/ CostsTab
    \/ Server \/ Network

Spec == Init /\ [][Next]_vars

-----------------------------------------------------------------------------
(* Properties *)

\* An answer that was served but refused counts as a failed call for the page.
Quiet(ops) == \A i \in DOMAIN net : net[i].op \notin ops

\* Every merge the page asks for is the one whose preview, without conflicts,
\* is on the screen at that moment, whatever was selected, loaded or merged
\* while the preview was being computed (previewKey against currentKey).
MergesArePreviewed ==
    \A a \in asked :
        /\ a.seen = a.merge
        /\ a.merge.sources # {} /\ a.merge.canonical \notin a.merge.sources

\* The rows of the reference and query tables are those of the page and text
\* the controls show, as soon as the last load that was started has been
\* received and none of an older one after it.
RowsMatchControls ==
    tab \in PagedTabs /\ ~view.loading /\ view.settled /\ Quiet({tab}) =>
        view.shown = <<view.query, view.page>>

\* The counters: when nothing is in flight, no call failed and the last
\* refresh was not overtaken, they are those of the server, also after the
\* tab that made the change was left before its answer came.
CountersFollow ==
    net = <<>> /\ ~lost /\ overview.settled => overview.counts = Counts(server)
=============================================================================
