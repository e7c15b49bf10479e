-------------------------- MODULE PromptAnalytics --------------------------
(***************************************************************************)
(* The analysis page of one prompt (features/prompts/prompt-analytics.tsx).*)
(*                                                                         *)
(* The router keeps the component when only the parameters of its route    *)
(* change, so every piece of its state outlives a change of the prompt; the*)
(* effect on [projectId, promptId] loads again.  What the server has for a *)
(* prompt does not change here: an answer is the arguments of its call,    *)
(* and what can go wrong is which answer is applied, when and to what.     *)
(***************************************************************************)
EXTENDS Requests

CONSTANTS PromptsOf,     \* PromptsOf[p]: the prompts of project p
          DefaultModel,  \* DefaultModel[q]: model of the first trend of prompt
                         \* q, "none" for a prompt without ranks
          Models, FilterBrands,     \* choices of the chart filter
          DateRanges,    \* its first and last days, 0 for none
          Sections,      \* the paged lists, of references, queries and sites
          Pages,         \* Pages[q]: pages of every list of prompt q
          MaxFlight,     \* bound: calls in flight when the user acts
          MaxMoves       \* bound: changes of the address

Projects == DOMAIN PromptsOf
PromptsIn(p) == Range(PromptsOf[p])
AllPrompts == UNION {PromptsIn(p) : p \in Projects}

Filters == [model : Models \cup {"none"}, brand : FilterBrands \cup {"all"},
            dates : DateRanges \cup {<<0, 0>>}]

\* A query string without parameters.
NoQuery == [model |-> "", brand |-> "", dates |-> <<0, 0>>]

AnalyticsParameters ==
    /\ Projects # {} /\ \A p \in Projects : PromptsOf[p] \in Seq(PromptsIn(p))
    /\ \A q \in AllPrompts : DefaultModel[q] \in Models \cup {"none"}
    /\ DateRanges \subseteq Nat \X Nat /\ Sections \subseteq {"references", "queries", "sites"}
    /\ Pages \in [AllPrompts -> Nat \ {0}]
    /\ NoQuery \notin Filters
    /\ MaxFlight \in Nat \ {0} /\ MaxMoves \in Nat

VARIABLES view,     \* the state of the component
          net,      \* the calls in flight
          address,  \* the route's parameters and the query string
          past      \* history: what the properties exclude

vars == <<view, net, address, past>>

Unfiltered(model) == [model |-> model, brand |-> "all", dates |-> <<0, 0>>]

Ready == Len(net) < MaxFlight

\* defaultTrendSelection: the trends of the first model.
DefaultChart(q) == [prompt |-> q, filter |-> Unfiltered(DefaultModel[q])]

NoChart == [prompt |-> "none", filter |-> Unfiltered("none")]

EmptyList == [prompt |-> "none", rows |-> 0, page |-> 1, total |-> 0, loading |-> FALSE]

AnalyticsState ==
    [loading |-> TRUE, project |-> "none", prompt |-> "none", all |-> "none",
     tablePrompt |-> "none", chart |-> NoChart, filter |-> Unfiltered("none"),
     dateError |-> FALSE, trendLoading |-> FALSE,
     lists |-> [s \in Sections |-> EmptyList],
     ranked |-> <<"none", 1>>, rankingPage |-> 1,
     history |-> "none", historyLoading |-> FALSE, projectChanging |-> FALSE]

Init ==
    /\ view = AnalyticsState
    /\ \E p \in Projects : \E q \in PromptsIn(p) :
          /\ address = [project |-> p, prompt |-> q, query |-> NoQuery]
          /\ net = Issue(<<>>, "fetch", [project |-> p, prompt |-> q])
    /\ past = [busy |-> FALSE, lost |-> FALSE, moves |-> 0]

-----------------------------------------------------------------------------
(* Steps of the page *)

\* The user acts; "busy" records an action while a call was in flight.
Acted == [past EXCEPT !.busy = @ \/ net # <<>>]

Set(v) ==
    /\ view' = v /\ past' = Acted
    /\ UNCHANGED <<net, address>>

SetAndCall(v, op, arg) ==
    /\ Ready /\ view' = v /\ net' = Issue(net, op, arg) /\ past' = Acted
    /\ UNCHANGED address

\* The route changes: a new address without query string, and the effect
\* fetches for it.
Go(p, q, n) ==
    /\ address' = [project |-> p, prompt |-> q, query |-> NoQuery]
    /\ net' = IF <<p, q>> = <<address.project, address.prompt>> THEN n
              ELSE Issue(n, "fetch", [project |-> p, prompt |-> q])

Received(op, i, v, n) ==
    /\ net[i].op = op
    /\ view' = v /\ net' = n
    /\ UNCHANGED <<address, past>>

-----------------------------------------------------------------------------
(* fetchData *)

\* Mutant of FetchData: the chart is not set again.
FetchDataKeepingChart(v, a) ==
    [v EXCEPT !.loading = FALSE, !.project = a.project, !.all = a.prompt,
              !.tablePrompt = a.prompt,
              !.prompt = IF a.prompt \in PromptsIn(a.project) THEN a.prompt ELSE "none",
              !.ranked = <<a.prompt, 1>>,
              !.filter.model = DefaultModel[a.prompt],
              !.lists = [s \in Sections |->
                            [prompt |-> a.prompt, rows |-> 1, page |-> 1,
                             total |-> Pages[a.prompt], loading |-> @[s].loading]]]

\* Promise.all of the projects, the prompts of the project, and the ranks,
\* trends and lists of the prompt.  The pager of the ranks keeps its page.
FetchData(v, a) ==
    [v EXCEPT !.loading = FALSE, !.project = a.project, !.all = a.prompt,
              !.tablePrompt = a.prompt,
              !.prompt = IF a.prompt \in PromptsIn(a.project) THEN a.prompt ELSE "none",
              !.ranked = <<a.prompt, 1>>,
              !.filter.model = DefaultModel[a.prompt],
              !.chart = DefaultChart(a.prompt),
              !.lists = [s \in Sections |->
                            [prompt |-> a.prompt, rows |-> 1, page |-> 1,
                             total |-> Pages[a.prompt], loading |-> @[s].loading]]]

DataFetched(i) == Received("fetch", i, FetchData(view, net[i].arg), Finish(net, i))

-----------------------------------------------------------------------------
(* The three paged lists *)

\* The next or the previous page, as the total of the rows shown allows.
LoadPage(s) ==
    /\ ~view.loading /\ ~view.lists[s].loading
    /\ LET l == view.lists[s] IN
       \E p \in {l.page - 1, l.page + 1} \cap 1 .. l.total :
           SetAndCall([view EXCEPT !.lists[s].loading = TRUE], "page",
                      [section |-> s, prompt |-> address.prompt, page |-> p])

PageLoaded(i) ==
    LET a == net[i].arg
    IN Received("page", i,
                [view EXCEPT !.lists[a.section] =
                    [prompt |-> a.prompt, rows |-> a.page, page |-> a.page,
                     total |-> Pages[a.prompt], loading |-> FALSE]],
                Finish(net, i))

\* The pager of the ranks, neither guarded by a loading flag nor filtered.
RankPage ==
    /\ ~view.loading /\ view.ranked[1] # "none"
    /\ \E p \in {view.rankingPage - 1, view.rankingPage + 1} \cap 1 .. Pages[view.ranked[1]] :
           SetAndCall(view, "rankPage", <<address.prompt, p>>)

RankPageLoaded(i) ==
    Received("rankPage", i,
             [view EXCEPT !.ranked = net[i].arg, !.rankingPage = net[i].arg[2]],
             Finish(net, i))

-----------------------------------------------------------------------------
(* The filter of the chart; its card is there when the prompt has ranks *)

HasTrends == ~view.loading /\ view.all # "none" /\ DefaultModel[view.all] # "none"

ChooseFilter(f) ==
    /\ HasTrends /\ f # view.filter /\ f.model \in Models
    /\ Set([view EXCEPT !.filter = f])

WrongDates(f) == 0 \notin Range(f.dates) /\ f.dates[1] > f.dates[2]

ApplyTrendFilters ==
    /\ HasTrends /\ ~view.trendLoading
    /\ IF WrongDates(view.filter)
       THEN ~view.dateError /\ Set([view EXCEPT !.dateError = TRUE])
       ELSE SetAndCall([view EXCEPT !.dateError = FALSE, !.trendLoading = TRUE],
                       "trends", [prompt |-> address.prompt, filter |-> view.filter])

\* The ranks follow with the arguments of the same click.
TrendsFiltered(i) ==
    Received("trends", i, [view EXCEPT !.chart = net[i].arg],
             Issue(Finish(net, i), "ranked", net[i].arg))

\* replaceState writes the filter into whatever address is current.
RankingsFiltered(i) ==
    /\ net[i].op = "ranked"
    /\ view' = [view EXCEPT !.ranked = <<net[i].arg.prompt, 1>>, !.rankingPage = 1,
                            !.trendLoading = FALSE]
    /\ address' = [address EXCEPT !.query = net[i].arg.filter]
    /\ net' = Finish(net, i)
    /\ UNCHANGED past

ClearTrendFilters ==
    /\ HasTrends /\ ~view.trendLoading
    /\ view' = [view EXCEPT !.filter = Unfiltered(DefaultModel[view.all]),
                            !.dateError = FALSE, !.chart = DefaultChart(view.all)]
    /\ address' = [address EXCEPT !.query = NoQuery]
    /\ past' = Acted
    /\ UNCHANGED net

-----------------------------------------------------------------------------
(* The answers of the models, and the selectors of project and prompt *)

LoadPromptHistory ==
    /\ ~view.loading /\ ~view.historyLoading
    /\ SetAndCall([view EXCEPT !.historyLoading = TRUE], "history", address.prompt)

PromptHistoryLoaded(i) ==
    Received("history", i,
             [view EXCEPT !.history = net[i].arg, !.historyLoading = FALSE],
             Finish(net, i))

Moved == past.moves < MaxMoves

\* The selector lists the prompts of the project fetched last, and joins the
\* one chosen to the project of the address.
ChangePrompt(q) ==
    /\ HasTrends /\ view.project # "none" /\ q \in PromptsIn(view.project)
    /\ q # view.tablePrompt /\ Ready /\ Moved
    /\ Go(address.project, q, net)
    /\ past' = [Acted EXCEPT !.moves = @ + 1]
    /\ UNCHANGED view

ChangeReportProject(p) ==
    /\ HasTrends /\ ~view.projectChanging /\ p # address.project /\ Moved
    /\ SetAndCall([view EXCEPT !.projectChanging = TRUE], "projectPrompts", p)

ReportProjectChanged(i) ==
    /\ net[i].op = "projectPrompts"
    /\ view' = [view EXCEPT !.projectChanging = FALSE]
    /\ LET p == net[i].arg
       IN IF PromptsOf[p] = <<>>
          THEN net' = Finish(net, i) /\ UNCHANGED address
          ELSE Go(p, Head(PromptsOf[p]), Finish(net, i))
    /\ past' = [past EXCEPT !.moves = @ + 1]

\* The catch and finally blocks.
AfterFailure(v, c) ==
    CASE c.op = "fetch" -> [v EXCEPT !.loading = FALSE]
      [] c.op = "page" -> [v EXCEPT !.lists[c.arg.section].loading = FALSE]
      [] c.op \in {"trends", "ranked"} -> [v EXCEPT !.trendLoading = FALSE]
      [] c.op = "history" -> [v EXCEPT !.historyLoading = FALSE]
      [] c.op = "projectPrompts" -> [v EXCEPT !.projectChanging = FALSE]
      [] OTHER -> v

CallFails(i) ==
    /\ view' = AfterFailure(view, net[i]) /\ net' = Finish(net, i)
    /\ past' = [past EXCEPT !.lost = TRUE]
    /\ UNCHANGED address

-----------------------------------------------------------------------------

ReferenceCard == \E s \in Sections : LoadPage(s)

AnswersCard == LoadPromptHistory

FilterCard ==
    \/ \E f \in Filters : ChooseFilter(f)
    \/ ApplyTrendFilters \/ ClearTrendFilters

RankTableCard ==
    \/ \E q \in AllPrompts : ChangePrompt(q)
    \/ \E p \in Projects : ChangeReportProject(p)

Answers ==
    \E i \in DOMAIN net :
        \/ DataFetched(i) \/ PageLoaded(i) \/ RankPageLoaded(i)
        \/ TrendsFiltered(i) \/ RankingsFiltered(i)
        \/ PromptHistoryLoaded(i) \/ ReportProjectChanged(i) \/ CallFails(i)

Next ==
    \/ ReferenceCard \/ FilterCard \/ RankTableCard \/ AnswersCard
    \/ RankPage \/ Answers

Spec == Init /\ [][Next]_vars

-----------------------------------------------------------------------------
(* Properties *)

\* A user who waits for every answer before acting, and whose calls succeed,
\* sees one prompt of the project of the address everywhere, and a chart that
\* is filtered as the query string says.
WaitingUserSeesOnePrompt ==
    net = <<>> /\ ~past.busy /\ ~past.lost =>
        /\ address.prompt \in PromptsIn(address.project)
        /\ view.project = address.project
        /\ {view.prompt, view.all, view.tablePrompt, view.chart.prompt}
             \cup {view.lists[s].prompt : s \in Sections} = {address.prompt}
        /\ view.chart.filter = IF address.query = NoQuery
                               THEN Unfiltered(DefaultModel[address.prompt])
                               ELSE address.query
=============================================================================
