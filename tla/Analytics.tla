------------------------------ MODULE Analytics ------------------------------
(***************************************************************************)
(* The analytics page above its rank report (features/analytics/index.tsx).*)
(*                                                                         *)
(* Its effects carry no "cancelled" flag: every answer is applied, to      *)
(* whatever is selected when it comes.  The prompt displayed is the one    *)
(* chosen, or the latest of the prompts loaded; two effects load its       *)
(* rankings and its trends each time it changes.                           *)
(***************************************************************************)
EXTENDS Requests

CONSTANTS PromptsOf,   \* PromptsOf[p]: prompts of project p, the latest first
          MaxFlight,   \* bound: calls in flight when the user acts
          MaxChanges   \* bound: choices of a project or of a prompt

Projects == DOMAIN PromptsOf
NoPrompt == "none"

AnalyticsPageParameters ==
    \A p \in Projects : PromptsOf[p] \in Seq(Range(PromptsOf[p]))

VARIABLES page, net, past

vars == <<page, net, past>>

LatestPrompt(prompts) == IF prompts = <<>> THEN NoPrompt ELSE Head(prompts)

\* selectedPrompt || latestPrompt
DisplayedPrompt(v) == IF v.selected = NoPrompt THEN LatestPrompt(v.prompts) ELSE v.selected

Init ==
    /\ page = [project |-> NoPrompt, prompts |-> <<>>, selected |-> NoPrompt,
               projects |-> FALSE, loading |-> TRUE, error |-> FALSE,
               rankings |-> NoPrompt, trends |-> NoPrompt,
               loadingRankings |-> FALSE, trendLoading |-> FALSE]
    /\ net = Issue(<<>>, "projects", {})
    /\ past = [lost |-> FALSE, changes |-> 0, prompts |-> TRUE, rankings |-> TRUE,
               trends |-> TRUE]

\* The two effects on the displayed prompt, after a change of the state to v.
DisplayEffects(v, n) ==
    LET q == DisplayedPrompt(v)
    IN IF q = DisplayedPrompt(page) THEN page' = v /\ net' = n
       ELSE IF q = NoPrompt
            THEN page' = [v EXCEPT !.rankings = NoPrompt, !.trends = NoPrompt] /\ net' = n
            ELSE /\ page' = [v EXCEPT !.loadingRankings = TRUE, !.trendLoading = TRUE]
                 /\ net' = Issue(Issue(n, "rankings", q), "trends", q)

Changing ==
    /\ Len(net) < MaxFlight /\ past.changes < MaxChanges
    /\ past' = [past EXCEPT !.changes = @ + 1]

\* Mutant of SelectProject: the prompt that was chosen stays.
SelectProjectKeeping(p) ==
    /\ Changing /\ page.projects /\ p # page.project
    /\ DisplayEffects([page EXCEPT !.project = p, !.prompts = <<>>,
                                   !.rankings = NoPrompt, !.trends = NoPrompt],
                      Issue(net, "prompts", p))

\* The selector clears all that depends on the project, and its effect loads
\* the prompts.
SelectProject(p) ==
    /\ Changing /\ page.projects /\ p # page.project
    /\ DisplayEffects([page EXCEPT !.project = p, !.selected = NoPrompt,
                                   !.prompts = <<>>, !.rankings = NoPrompt,
                                   !.trends = NoPrompt],
                      Issue(net, "prompts", p))

SelectPrompt(q) ==
    /\ Changing /\ page.project # NoPrompt
    /\ q \in Range(page.prompts) /\ q # DisplayedPrompt(page)
    /\ DisplayEffects([page EXCEPT !.selected = q], net)

ProjectsLoaded(i) ==
    /\ net[i].op = "projects"
    /\ page' = [page EXCEPT !.projects = TRUE, !.loading = FALSE]
    /\ net' = Finish(net, i)
    /\ UNCHANGED past

PromptsLoaded(i) ==
    /\ net[i].op = "prompts"
    /\ DisplayEffects([page EXCEPT !.prompts = PromptsOf[net[i].arg]], Finish(net, i))
    /\ past' = [past EXCEPT !.prompts = Newest(net, i)]

RankingsLoaded(i) ==
    /\ net[i].op = "rankings"
    /\ page' = [page EXCEPT !.rankings = net[i].arg, !.loadingRankings = FALSE]
    /\ net' = Finish(net, i)
    /\ past' = [past EXCEPT !.rankings = Newest(net, i)]

TrendsLoaded(i) ==
    /\ net[i].op = "trends"
    /\ page' = [page EXCEPT !.trends = net[i].arg, !.trendLoading = FALSE]
    /\ net' = Finish(net, i)
    /\ past' = [past EXCEPT !.trends = Newest(net, i)]

\* The catch and finally blocks: only the trends are cleared.
CallFails(i) ==
    /\ page' = CASE net[i].op = "projects" -> [page EXCEPT !.loading = FALSE, !.error = TRUE]
                 [] net[i].op = "prompts" -> [page EXCEPT !.error = TRUE]
                 [] net[i].op = "rankings" ->
                      [page EXCEPT !.loadingRankings = FALSE, !.error = TRUE]
                 [] net[i].op = "trends" ->
                      [page EXCEPT !.trendLoading = FALSE, !.trends = NoPrompt]
    /\ net' = Finish(net, i)
    /\ past' = [past EXCEPT !.lost = TRUE]

AnalyticsPage ==
    \/ \E p \in Projects : SelectProject(p)
    \/ \E q \in UNION {Range(PromptsOf[p]) : p \in Projects} : SelectPrompt(q)
    \/ \E i \in DOMAIN net :
          \/ ProjectsLoaded(i) \/ PromptsLoaded(i) \/ RankingsLoaded(i)
          \/ TrendsLoaded(i) \/ CallFails(i)

Next == AnalyticsPage

Spec == Init /\ [][Next]_vars

-----------------------------------------------------------------------------
(* Properties *)

\* When every call has been answered, none failed, and of the calls of each
\* kind the one made last was answered last, the rankings, the trends and the
\* list of prompts belong to the prompt and the project selected.  Any answer
\* out of turn breaks this until the next choice: nothing refuses it.
DisplayedPromptRanked ==
    net = <<>> /\ ~past.lost /\ past.prompts /\ page.project # NoPrompt =>
        /\ page.prompts = PromptsOf[page.project]
        /\ LET q == DisplayedPrompt(page)
           IN q # NoPrompt => /\ past.rankings => page.rankings = q
                              /\ past.trends => page.trends = q
        /\ ~page.loadingRankings /\ ~page.trendLoading
=============================================================================
